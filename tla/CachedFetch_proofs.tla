------------------------- MODULE CachedFetch_proofs -------------------------
(***************************************************************************)
(* For any number of threads, partitions, addresses, sessions and entries: *)
(* what the cache serves without asking is within its lifetime and is what *)
(* its origin vouched for, no blob outlives its keys, and the directory    *)
(* outgrows its limit by no more than the puts and the redirects written   *)
(* since an eviction; the redirects remembered in front of it              *)
(* (RedirectMemory) lead where asking leads.                               *)
(***************************************************************************)
EXTENDS Fetches, FiniteSetTheorems, SequenceTheorems, WellFoundedInduction, TLAPS

-----------------------------------------------------------------------------
(* The inductive invariant.                                                *)

CCRec == [words : SUBSET {"no-store", "no-cache", "other"}, maxage : Int]

Meta == [final : Urls, etag : Int, lm : Int, cc : CCRec, expires : Int, date : Int,
         stored : Nat, body : Urls \X Nat, conf : Nat, truth : Urls \X Nat,
         is : {"file"}, ok : {TRUE}, key : Nat, mt : Nat]

BrokenRec == [is : {"file"}, ok : {FALSE}, mt : Nat]
KeyRec    == [is : {"key"}, profile : Nat, keys : Nat \ {0}]
StoreRec  == [keys : Nat, puts : Nat, base : Nat, redirects : Nat]
ThreadRec == [pc : {"idle", "plain", "miss", "cond", "put", "renew"},
              part : Parts \cup {None}, url : Asks \cup {None}, at : Nat,
              m : Meta \cup {None}, ans : Meta \cup {None}]

Types ==
    /\ clock \in Nat /\ origin \in [Urls -> [mtime : Nat, to : Nat]]
    /\ files \in [Names -> Meta \cup BrokenRec \cup {None}]
    /\ keyfile \in KeyRec \cup {None} /\ profile \in 1 .. MaxKeys
    /\ store \in StoreRec /\ th \in [Threads -> ThreadRec] /\ opens \in Nat

(* What a thread has at each point, and that it has it while the store is open. *)
Working == {"miss", "cond", "put", "renew"}
Writing == {"put", "renew"}

Busy ==
    \A t \in Threads :
        /\ th[t].pc # "idle" => store.keys # 0
        /\ th[t].pc \in Working => th[t].part \in Parts /\ th[t].url \in Asks
        /\ th[t].pc = "cond" => th[t].m \in Meta
        /\ th[t].pc \in Writing => th[t].ans \in Meta
        /\ th[t].at <= clock

World == \A u \in Urls : origin[u].to \in 1 .. Len(Homes[u])

(* The blobs that open are sealed with the key file's pair. *)
Keys ==
    /\ \A f \in Entries :
          keyfile # None /\ files[f].key = keyfile.keys /\ f.for = keyfile.profile
    /\ store.keys # 0 => Readable /\ store.keys = keyfile.keys

Room ==
    /\ IsFiniteSet(Present)
    /\ store.keys # 0 => store.puts < EvictEvery
    /\ Bounded

(* The entries on disk and in the hands of the threads. *)
Metas == {files[f] : f \in Entries}
         \cup {th[t].m : t \in {s \in Threads : th[s].pc = "cond"}}
         \cup {th[t].ans : t \in {s \in Threads : th[s].pc \in Writing}}

InTime(m) == m.stored <= m.conf /\ m.conf <= clock

(* A body, its validators and the version of its origin that they name. *)
Backed(m) ==
    /\ m.truth = m.body /\ m.body[1] = m.final
    /\ m.body[2] <= origin[m.final].mtime
    /\ m.etag \in {Absent, m.body[2]} /\ m.lm \in {Absent, m.body[2]}

Vouched(m) == Stays(m.final) => Backed(m)

CacheInv == Types /\ Busy /\ World /\ Keys /\ Room /\ \A m \in Metas : InTime(m)

TruthInv == CacheInv /\ \A m \in Metas : Vouched(m)

-----------------------------------------------------------------------------
(* The records.                                                            *)

LEMMA Kinds ==
    /\ None \notin Meta /\ None \notin BrokenRec /\ None \notin KeyRec
    /\ \A e \in Meta : e.ok /\ e.is = "file"
    /\ \A e \in BrokenRec : ~e.ok /\ e.is = "file" /\ e \notin Meta
BY DEF None, Meta, BrokenRec, KeyRec

LEMMA IdleTyped ==
    /\ Idle \in ThreadRec /\ Idle.pc = "idle" /\ Idle.at = 0
    /\ Plain \in ThreadRec /\ Plain.pc = "plain" /\ Plain.at = 0
BY DEF Idle, Plain, ThreadRec

LEMMA AskTyped ==
    ASSUME clock \in Nat, NEW c \in {"miss", "cond"}, NEW p \in Parts, NEW u \in Asks,
           NEW m \in Meta \cup {None}
    PROVE  /\ Ask(c, p, u, m) \in ThreadRec
           /\ Ask(c, p, u, m).pc = c /\ Ask(c, p, u, m).part = p /\ Ask(c, p, u, m).url = u
           /\ Ask(c, p, u, m).at = clock /\ Ask(c, p, u, m).m = m
BY DEF Ask, Idle, ThreadRec

LEMMA NamesTyped ==
    ASSUME profile \in 1 .. MaxKeys, NEW p \in Parts \cup {Redirect}, NEW u \in Asks
    PROVE  /\ EntryPath(p, u) \in Names /\ Aside(EntryPath(p, u)) \in Names
           /\ EntryPath(p, u) # Aside(EntryPath(p, u))
           /\ EntryPath(p, u).for = profile
<1>1. PICK P : P = Parts \cup {Redirect}
  OBVIOUS
<1> QED
  BY <1>1, CacheAssumption DEF EntryPath, Aside, Names

LEMMA EmptyTyped ==
    /\ Empty \in [Names -> Meta \cup BrokenRec \cup {None}]
    /\ \A f \in Names : Empty[f] = None
BY DEF Empty

LEMMA DamagedTyped ==
    ASSUME NEW x \in Nat
    PROVE  Damaged(x) \in BrokenRec
BY DEF Damaged, BrokenRec

LEMMA RemovedTyped ==
    ASSUME NEW fs \in [Names -> Meta \cup BrokenRec \cup {None}], NEW S
    PROVE  /\ Removed(fs, S) \in [Names -> Meta \cup BrokenRec \cup {None}]
           /\ \A f \in Names : Removed(fs, S)[f] = IF f \in S THEN None ELSE fs[f]
BY DEF Removed

LEMMA OriginTyped ==
    ASSUME Types, World, NEW u \in Urls
    PROVE  /\ LeadsTo(u) \in Urls
           /\ origin[u].mtime \in Nat
<1>1. Homes[u] \in Seq(Urls) /\ origin[u].to \in 1 .. Len(Homes[u])
  BY CacheAssumption DEF World
<1> QED
  BY <1>1, ElementOfSeq DEF Types, LeadsTo

-----------------------------------------------------------------------------
(* What the steps do to the directory and to the threads.                  *)

FileSet == [Names -> Meta \cup BrokenRec \cup {None}]

LEMMA EntriesAre ==
    ASSUME files \in FileSet
    PROVE  /\ Entries = {f \in Names : files[f] \in Meta}
           /\ Present = {f \in Names : files[f] \in Meta \cup BrokenRec}
BY Kinds DEF Entries, Present, FileSet

(* No blob is sealed: entries stay, are damaged or are removed. *)
NoNewEntry == files' \in FileSet /\ \A f \in Names : files'[f] \in Meta => files'[f] = files[f]

LEMMA EntriesFewer ==
    ASSUME Types, NoNewEntry
    PROVE  \A f \in Entries' : f \in Entries /\ files'[f] = files[f]
<1>1. files \in FileSet
  BY DEF Types, FileSet
<1>2. Entries' = {f \in Names : files'[f] \in Meta}
  BY Kinds DEF NoNewEntry, Entries, Present, FileSet
<1> QED
  BY <1>1, <1>2, EntriesAre DEF NoNewEntry

LEMMA SameFiles ==
    ASSUME Types, UNCHANGED files
    PROVE  NoNewEntry /\ Present' = Present
BY DEF Types, NoNewEntry, FileSet, Present

LEMMA NoFiles ==
    ASSUME files' = Empty
    PROVE  NoNewEntry /\ Present' = {} /\ Entries' = {}
<1>1. files' \in FileSet /\ \A f \in Names : files'[f] = None
  BY EmptyTyped DEF FileSet
<1>2. Present' = {}
  BY <1>1 DEF Present
<1> QED
  BY <1>1, <1>2, Kinds DEF NoNewEntry, Entries

LEMMA FilesRemoved ==
    ASSUME Types, NEW S, files' = Removed(files, S)
    PROVE  NoNewEntry /\ Present' \subseteq Present
<1>1. files \in FileSet
  BY DEF Types, FileSet
<1>2. files' \in FileSet /\ \A f \in Names : files'[f] = IF f \in S THEN None ELSE files[f]
  BY <1>1, RemovedTyped DEF FileSet
<1> QED
  BY <1>1, <1>2, Kinds DEF NoNewEntry, Present

LEMMA FileDamaged ==
    ASSUME Types, NEW f \in Names, NEW x \in Nat, files' = [files EXCEPT ![f] = Damaged(x)]
    PROVE  NoNewEntry /\ Present' = Present \cup {f}
<1>1. files \in FileSet /\ Damaged(x) \in BrokenRec
  BY DamagedTyped DEF Types, FileSet
<1>2. files' \in FileSet /\ \A g \in Names : files'[g] = IF g = f THEN Damaged(x) ELSE files[g]
  BY <1>1 DEF FileSet
<1> QED
  BY <1>1, <1>2, Kinds DEF NoNewEntry, Present

(* One thread's step. *)
Steps(t, r) == th' \in [Threads -> ThreadRec] /\ th'[t] = r
               /\ \A s \in Threads : s # t => th'[s] = th[s]

LEMMA ThreadSteps ==
    ASSUME Types, NEW t \in Threads, NEW r \in ThreadRec, th' = [th EXCEPT ![t] = r]
    PROVE  Steps(t, r)
BY DEF Types, Steps

LEMMA KeepSteps ==
    ASSUME Types, NEW t \in Threads, NEW c \in Writing, NEW m \in Meta, Keep(t, c, m)
    PROVE  \E r \in ThreadRec : /\ Steps(t, r) /\ r.pc = c /\ r.ans = m
                                /\ r.part = th[t].part /\ r.url = th[t].url /\ r.at = th[t].at
<1>1. th \in [Threads -> ThreadRec] /\ th[t] \in ThreadRec
  BY DEF Types
<1>2. PICK r : r = [th[t] EXCEPT !.pc = c, !.m = None, !.ans = m]
  OBVIOUS
<1>3. /\ r \in ThreadRec /\ r.pc = c /\ r.ans = m
      /\ r.part = th[t].part /\ r.url = th[t].url /\ r.at = th[t].at
  BY <1>1, <1>2 DEF ThreadRec, Writing
<1>4. th' = [th EXCEPT ![t] = r]
  BY <1>1, <1>2 DEF Keep
<1> QED
  BY <1>3, <1>4, ThreadSteps

(* Where the entries of the next state come from. *)
LEMMA MetasFrom ==
    ASSUME NEW N,
           \A f \in Entries' : files'[f] \in Metas \cup N,
           \A t \in Threads : th'[t].pc = "cond" => th'[t].m \in Metas \cup N,
           \A t \in Threads : th'[t].pc \in Writing => th'[t].ans \in Metas \cup N
    PROVE  Metas' \subseteq Metas \cup N
BY DEF Metas

LEMMA MetasHave ==
    /\ \A f \in Entries : files[f] \in Metas
    /\ \A t \in Threads : th[t].pc = "cond" => th[t].m \in Metas
    /\ \A t \in Threads : th[t].pc \in Writing => th[t].ans \in Metas
BY DEF Metas

LEMMA MetasTyped ==
    ASSUME Types, Busy
    PROVE  Metas \subseteq Meta
<1>1. \A f \in Entries : files[f] \in Meta
  BY EntriesAre DEF Types, FileSet
<1> QED
  BY <1>1 DEF Metas, Busy

(* A thread's step that seals nothing. *)
LEMMA ThreadMetas ==
    ASSUME Types, NoNewEntry, NEW t \in Threads, NEW r \in ThreadRec, Steps(t, r), NEW N,
           r.pc = "cond" => r.m \in Metas \cup N, r.pc \in Writing => r.ans \in Metas \cup N
    PROVE  Metas' \subseteq Metas \cup N
<1>1. \A f \in Entries' : files'[f] \in Metas
  BY EntriesFewer, MetasHave
<1>2. \A s \in Threads : th'[s].pc = "cond" => th'[s].m \in Metas \cup N
  BY MetasHave DEF Steps
<1>3. \A s \in Threads : th'[s].pc \in Writing => th'[s].ans \in Metas \cup N
  BY MetasHave DEF Steps
<1> QED
  BY <1>1, <1>2, <1>3, MetasFrom

LEMMA OtherMetas ==
    ASSUME Types, NoNewEntry, UNCHANGED th \/ th' = [t \in Threads |-> Idle]
    PROVE  Metas' \subseteq Metas
<1>1. \A f \in Entries' : files'[f] \in Metas
  BY EntriesFewer, MetasHave
<1>2. \A s \in Threads : th'[s].pc = "cond" => th'[s].m \in Metas
  BY MetasHave, IdleTyped
<1>3. \A s \in Threads : th'[s].pc \in Writing => th'[s].ans \in Metas
  BY MetasHave, IdleTyped DEF Writing
<1> QED
  BY <1>1, <1>2, <1>3, MetasFrom

-----------------------------------------------------------------------------
(* The parts of the invariant that most steps leave alone.                 *)

LEMMA BusyThread ==
    ASSUME Types, Busy, NEW t \in Threads, NEW r \in ThreadRec, Steps(t, r),
           UNCHANGED clock, store'.keys = store.keys, store.keys # 0, r.at <= clock,
           r.pc \in Working => r.part \in Parts /\ r.url \in Asks,
           r.pc = "cond" => r.m \in Meta, r.pc \in Writing => r.ans \in Meta
    PROVE  Busy'
<1> SUFFICES ASSUME NEW s \in Threads
             PROVE  /\ th'[s].pc # "idle" => store'.keys # 0
                    /\ th'[s].pc \in Working => th'[s].part \in Parts /\ th'[s].url \in Asks
                    /\ th'[s].pc = "cond" => th'[s].m \in Meta
                    /\ th'[s].pc \in Writing => th'[s].ans \in Meta
                    /\ th'[s].at <= clock'
  BY DEF Busy
<1>1. CASE s = t
  BY <1>1 DEF Steps
<1>2. CASE s # t
  BY <1>2 DEF Steps, Busy
<1> QED
  BY <1>1, <1>2

LEMMA BusyRest ==
    ASSUME Types, Busy, UNCHANGED th, clock' \in Nat, clock <= clock',
           store.keys # 0 => store'.keys # 0
    PROVE  Busy'
<1>1. \A t \in Threads : th[t].at <= clock'
  <2>1. \A t \in Threads : th[t].at <= clock /\ th[t].at \in Nat
    BY DEF Busy, Types, ThreadRec
  <2>2. clock \in Nat
    BY DEF Types
  <2> QED
    BY <2>1, <2>2
<1> QED
  BY <1>1 DEF Busy

LEMMA BusyIdle ==
    ASSUME Types, UNCHANGED clock, th' \in [Threads -> ThreadRec],
           \A t \in Threads : th'[t].pc = "idle" /\ th'[t].at <= clock
    PROVE  Busy'
BY DEF Busy, Working, Writing

LEMMA KeysKept ==
    ASSUME Types, Keys, NoNewEntry, UNCHANGED <<keyfile, profile>>, store'.keys \in {store.keys, 0}
    PROVE  Keys'
<1>1. \A f \in Entries' : f \in Entries /\ files'[f] = files[f]
  BY EntriesFewer
<1> QED
  BY <1>1 DEF Keys, Readable

LEMMA RoomKept ==
    ASSUME Types, Room, Present' \subseteq Present,
           UNCHANGED store \/ store'.keys = 0
    PROVE  Room'
<1>1. IsFiniteSet(Present) /\ IsFiniteSet(Present')
      /\ Cardinality(Present') <= Cardinality(Present)
      /\ Cardinality(Present) \in Nat /\ Cardinality(Present') \in Nat
  BY FS_Subset, FS_CardinalityType DEF Room
<1>2. CASE store'.keys = 0
  BY <1>1, <1>2 DEF Room, Bounded
<1>3. CASE UNCHANGED store
  <2> DEFINE b == (IF store.base > MaxTotal THEN store.base ELSE MaxTotal)
                  + store.puts + store.redirects
  <2>1. b \in Nat
    BY CacheAssumption DEF Types, StoreRec
  <2>2. store.keys # 0 => Cardinality(Present) <= b
    BY DEF Room, Bounded
  <2> HIDE DEF b
  <2>3. store.keys # 0 => Cardinality(Present') <= b
    BY <1>1, <2>1, <2>2
  <2>4. Bounded'
    BY <1>3, <2>3 DEF Bounded, b
  <2> QED
    BY <1>1, <1>3, <2>4 DEF Room
<1> QED
  BY <1>2, <1>3

(* Time passes and versions grow: what was true of an entry stays true. *)
Later == /\ clock' \in Nat /\ clock <= clock'
         /\ \A u \in Urls :
               /\ origin'[u].mtime \in Nat /\ origin[u].mtime <= origin'[u].mtime
               /\ origin'[u].to \in Nat /\ origin[u].to <= origin'[u].to

LEMMA InTimeKept ==
    ASSUME Types, Busy, Later, NEW m \in Meta, InTime(m)
    PROVE  InTime(m)'
<1>1. m.stored \in Nat /\ m.conf \in Nat /\ clock \in Nat
  BY DEF Meta, Types
<1> QED
  BY <1>1 DEF InTime, Later

LEMMA VouchedKept ==
    ASSUME Types, Later, NEW m \in Meta, Vouched(m)
    PROVE  Vouched(m)'
<1>1. /\ m.final \in Urls /\ m.body[2] \in Nat
      /\ origin[m.final].mtime \in Nat /\ origin[m.final].to \in Nat
  BY DEF Meta, Types
<1>2. Stays(m.final)' => Stays(m.final)
  BY <1>1 DEF Stays, Later
<1>3. Backed(m) => Backed(m)'
  BY <1>1 DEF Backed, Later
<1> QED
  BY <1>2, <1>3 DEF Vouched

LEMMA SameWorld ==
    ASSUME Types, World, UNCHANGED <<clock, origin>>
    PROVE  World' /\ Later
BY DEF Types, World, Later

-----------------------------------------------------------------------------
(* The steps that bring no entry.                                          *)

Core  == Types /\ Busy /\ World /\ Keys /\ Room
Quiet == Core' /\ Later /\ Metas' \subseteq Metas

(* A thread moves on, nothing is sealed. *)
LEMMA ThreadQuiet ==
    ASSUME Core, NEW t \in Threads, NEW r \in ThreadRec, Steps(t, r), store.keys # 0,
           NoNewEntry, Present' \subseteq Present,
           UNCHANGED <<clock, origin, keyfile, profile, store, opens>>, r.at <= clock,
           r.pc \in Working => r.part \in Parts /\ r.url \in Asks, r.pc \notin Writing,
           r.pc = "cond" => r.m \in Metas /\ r.m \in Meta
    PROVE  Quiet
<1>1. Types'
  BY DEF Core, Types, Steps, NoNewEntry, FileSet
<1>2. Busy'
  BY BusyThread DEF Core
<1>3. World' /\ Later
  BY SameWorld DEF Core
<1>4. Keys'
  BY KeysKept DEF Core
<1>5. Room'
  BY RoomKept DEF Core
<1>6. Metas' \subseteq Metas \cup {}
  BY ThreadMetas DEF Core
<1> QED
  BY <1>1, <1>2, <1>3, <1>4, <1>5, <1>6 DEF Quiet, Core

LEMMA GoesIdle ==
    ASSUME Core, NEW t \in Threads, store.keys # 0, NoNewEntry, Present' \subseteq Present,
           UNCHANGED <<clock, origin, keyfile, profile, store, opens>>,
           Finish(t) \/ th' = [th EXCEPT ![t] = Plain]
    PROVE  Quiet
<1>1. clock \in Nat /\ 0 <= clock
  BY DEF Core, Types
<1>2. CASE Finish(t)
  <2>1. Steps(t, Idle)
    BY <1>2, ThreadSteps, IdleTyped DEF Core, Finish
  <2> QED
    BY <1>1, <2>1, IdleTyped, ThreadQuiet DEF Working, Writing
<1>3. CASE th' = [th EXCEPT ![t] = Plain]
  <2>1. Steps(t, Plain)
    BY <1>3, ThreadSteps, IdleTyped DEF Core
  <2> QED
    BY <1>1, <2>1, IdleTyped, ThreadQuiet DEF Working, Writing
<1> QED
  BY <1>2, <1>3

LEMMA GetPlainQuiet ==
    ASSUME Core, NEW t \in Threads, GetPlain(t)
    PROVE  Quiet
BY GoesIdle, SameFiles DEF GetPlain, Core

LEMMA FailQuiet ==
    ASSUME Core, NEW t \in Threads, Fail(t)
    PROVE  Quiet
<1>1. store.keys # 0
  BY DEF Core, Busy, Fail, Asking
<1> QED
  BY <1>1, GoesIdle, SameFiles DEF Fail, Core

LEMMA PutFailsQuiet ==
    ASSUME Core, NEW t \in Threads, PutFails(t)
    PROVE  Quiet
<1>1. store.keys # 0
  BY DEF Core, Busy, PutFails
<1> QED
  BY <1>1, GoesIdle, SameFiles DEF PutFails, Serve, Core

LEMMA GetQuiet ==
    ASSUME Core, NEW t \in Threads, NEW p \in Parts, NEW u \in Asks, Get(t, p, u)
    PROVE  Quiet
<1> DEFINE f == EntryPath(p, u)
           e == files[f]
           miss == Ask("miss", p, u, None)
           cond == Ask("cond", p, u, e)
<1>0. clock \in Nat /\ profile \in 1 .. MaxKeys /\ files \in FileSet
  BY DEF Core, Types, FileSet
<1>1. f \in Names
  BY <1>0, NamesTyped
<1>2. store.keys # 0 /\ UNCHANGED <<clock, origin, keyfile, profile, store, opens>>
  BY DEF Get
<1>3. miss \in ThreadRec /\ miss.pc = "miss" /\ miss.part = p /\ miss.url = u /\ miss.at = clock
  BY <1>0, AskTyped
<1>4. CASE Opens(e) /\ UNCHANGED files
  <2>1. e \in Meta /\ f \in Entries /\ e \in Metas
    <3>1. f \in Entries
      BY <1>1, <1>4 DEF Opens, Entries, Present
    <3> QED
      BY <1>0, <3>1, EntriesAre, MetasHave
  <2>2. /\ cond \in ThreadRec /\ cond.pc = "cond" /\ cond.part = p /\ cond.url = u
        /\ cond.at = clock /\ cond.m = e
    BY <1>0, <2>1, AskTyped
  <2>3. UNCHANGED files
    BY <1>4
  <2>4. NoNewEntry /\ Present' \subseteq Present
    BY <2>3, SameFiles DEF Core
  <2>5. \/ UNCHANGED th \/ th' = [th EXCEPT ![t] = Plain]
        \/ th' = [th EXCEPT ![t] = cond] \/ th' = [th EXCEPT ![t] = miss]
    BY <1>4 DEF Get
  <2> HIDE DEF miss, cond, e, f
  <2>6. CASE UNCHANGED th
    <3>1. Types' /\ Busy' /\ World' /\ Keys' /\ Room' /\ Later
      <4>1. UNCHANGED vars
        BY <1>2, <2>3, <2>6 DEF vars
      <4>2. Later
        BY <1>2, SameWorld DEF Core
      <4> QED
        BY <4>1, <4>2 DEF vars, Core, Types, Busy, World, Keys, Readable, Room, Bounded, Present, Entries
    <3>2. Metas' \subseteq Metas
      BY <2>4, <2>6, OtherMetas DEF Core
    <3> QED
      BY <3>1, <3>2 DEF Quiet, Core
  <2>7. CASE th' = [th EXCEPT ![t] = Plain]
    BY <1>2, <2>4, <2>7, GoesIdle
  <2>8. CASE th' = [th EXCEPT ![t] = cond]
    <3>1. Steps(t, cond)
      BY <2>2, <2>8, ThreadSteps DEF Core
    <3> QED
      BY <1>0, <1>2, <2>1, <2>2, <2>4, <3>1, ThreadQuiet DEF Writing
  <2>9. CASE th' = [th EXCEPT ![t] = miss]
    <3>1. Steps(t, miss)
      BY <1>3, <2>9, ThreadSteps DEF Core
    <3> QED
      BY <1>0, <1>2, <1>3, <2>4, <3>1, ThreadQuiet DEF Writing
  <2> QED
    BY <2>5, <2>6, <2>7, <2>8, <2>9
<1>5. CASE ~(Opens(e) /\ UNCHANGED files)
  <2>1. UNCHANGED files \/ files' = Removed(files, {f})
    BY <1>5 DEF Get
  <2>0. th' = [th EXCEPT ![t] = miss]
    BY <1>5 DEF Get
  <2>2. NoNewEntry /\ Present' \subseteq Present
    BY <2>1, FilesRemoved, SameFiles DEF Core
  <2> HIDE DEF miss, e, f
  <2>3. Steps(t, miss)
    BY <1>3, <2>0, ThreadSteps DEF Core
  <2> QED
    BY <1>0, <1>2, <1>3, <2>2, <2>3, ThreadQuiet DEF Writing
<1> QED
  BY <1>4, <1>5

(* Sessions. *)
LEMMA HcOpenQuiet ==
    ASSUME Core, HcOpen
    PROVE  Quiet
<1>0. /\ store \in StoreRec /\ opens \in Nat /\ keyfile \in KeyRec \cup {None}
      /\ profile \in 1 .. MaxKeys /\ MaxKeys \in Nat /\ IsFiniteSet(Present)
  BY CacheAssumption DEF Core, Types, Room
<1>1. store.keys = 0 /\ opens' = opens + 1 /\ opens' \in Nat \ {0}
      /\ UNCHANGED <<clock, origin, profile, th>>
  BY <1>0 DEF HcOpen
<1>2. World' /\ Later
  BY <1>1, SameWorld DEF Core
<1>3. Busy'
  BY <1>1, BusyRest DEF Core, Types
<1>4. CASE Readable
  <2>1. store' = Opened(keyfile.keys, Cardinality(Present)) /\ UNCHANGED <<files, keyfile>>
    BY <1>4 DEF HcOpen
  <2>2. keyfile \in KeyRec /\ keyfile.keys \in Nat \ {0}
    BY <1>0, <1>4 DEF Readable, KeyRec
  <2>3. Cardinality(Present) \in Nat
    BY <1>0, FS_CardinalityType
  <2>4. store' \in StoreRec /\ store'.keys = keyfile.keys /\ store'.puts = 0
        /\ store'.base = Cardinality(Present) /\ store'.redirects = 0
    BY <2>1, <2>2, <2>3 DEF Opened, StoreRec
  <2>5. NoNewEntry /\ Present' = Present
    BY <2>1, SameFiles DEF Core
  <2>6. Types'
    BY <1>1, <2>1, <2>4 DEF Core, Types
  <2>7. Keys'
    <3>1. Entries' = Entries
      BY <2>1 DEF Entries, Present
    <3> QED
      BY <1>1, <1>4, <2>1, <2>4, <3>1 DEF Core, Keys, Readable
  <2>8. Room'
    <3>1. Bounded'
      <4>1. Cardinality(Present) <= (IF Cardinality(Present) > MaxTotal
                                     THEN Cardinality(Present) ELSE MaxTotal) + 0 + 0
        BY <2>3, CacheAssumption
      <4> QED
        BY <2>4, <2>5, <4>1 DEF Bounded
    <3> QED
      BY <1>0, <2>4, <2>5, <3>1, CacheAssumption DEF Room
  <2>9. Metas' \subseteq Metas
    BY <1>1, <2>5, OtherMetas DEF Core
  <2> QED
    BY <1>2, <1>3, <2>6, <2>7, <2>8, <2>9 DEF Quiet, Core
<1>5. CASE ~Readable
  <2>1. /\ files' = Empty /\ store' = Opened(opens', 0)
        /\ keyfile' = [is |-> "key", profile |-> profile, keys |-> opens']
    BY <1>5 DEF HcOpen
  <2>2. keyfile' \in KeyRec /\ keyfile'.profile = profile /\ keyfile'.keys = opens'
        /\ keyfile' # None
    <3>1. keyfile' \in KeyRec /\ keyfile'.profile = profile /\ keyfile'.keys = opens'
      BY <1>0, <1>1, <2>1 DEF KeyRec
    <3> QED
      BY <3>1, Kinds
  <2>3. /\ store' \in StoreRec /\ store'.keys = opens' /\ store'.puts = 0 /\ store'.base = 0
        /\ store'.redirects = 0
    BY <1>1, <2>1 DEF Opened, StoreRec
  <2>4. NoNewEntry /\ Present' = {} /\ Entries' = {}
    BY <2>1, NoFiles
  <2>5. Types'
    BY <1>1, <2>2, <2>3, <2>4 DEF Core, Types, NoNewEntry, FileSet
  <2>6. Keys'
    BY <1>1, <2>2, <2>3, <2>4 DEF Keys, Readable
  <2>7. Room'
    BY <2>3, <2>4, FS_EmptySet, CacheAssumption DEF Room, Bounded
  <2>8. Metas' \subseteq Metas
    BY <1>1, <2>4, OtherMetas DEF Core
  <2> QED
    BY <1>2, <1>3, <2>5, <2>6, <2>7, <2>8 DEF Quiet, Core
<1> QED
  BY <1>4, <1>5

LEMMA HcOpenFailsQuiet ==
    ASSUME Core, HcOpenFails
    PROVE  Quiet
<1>1. /\ store.keys = 0 /\ opens' = opens + 1 /\ opens \in Nat /\ files' = Empty
      /\ UNCHANGED <<clock, origin, keyfile, profile, store, th>>
  BY DEF HcOpenFails, Core, Types
<1>2. NoNewEntry /\ Present' = {}
  BY <1>1, NoFiles
<1>3. Types'
  <2>1. opens' \in Nat
    BY <1>1
  <2> QED
    BY <1>1, <1>2, <2>1 DEF Core, Types, NoNewEntry, FileSet
<1>4. Busy' /\ World' /\ Later
  BY <1>1, SameWorld, BusyRest DEF Core, Types
<1>5. Keys'
  BY <1>1, <1>2, KeysKept DEF Core
<1>6. Room'
  BY <1>1, <1>2, RoomKept DEF Core
<1>7. Metas' \subseteq Metas
  BY <1>1, <1>2, OtherMetas DEF Core
<1> QED
  BY <1>3, <1>4, <1>5, <1>6, <1>7 DEF Quiet, Core

LEMMA ClosedTyped == Closed \in StoreRec /\ Closed.keys = 0
BY DEF Closed, StoreRec

(* The process has ended, and at most one file is damaged or left behind. *)
LEMMA StoppedQuiet ==
    ASSUME Core, Stopped, NoNewEntry, IsFiniteSet(Present'),
           UNCHANGED <<clock, origin, keyfile, profile, opens>>
    PROVE  Quiet
<1>1. store' = Closed /\ th' = [t \in Threads |-> Idle]
  BY DEF Stopped
<1>2. th' \in [Threads -> ThreadRec] /\ \A t \in Threads : th'[t].pc = "idle" /\ th'[t].at = 0
  BY <1>1, IdleTyped
<1>3. Types'
  BY <1>1, <1>2, ClosedTyped DEF Core, Types, NoNewEntry, FileSet
<1>4. Busy'
  <2>1. 0 <= clock
    BY DEF Core, Types
  <2> QED
    BY <1>2, <2>1, BusyIdle DEF Core
<1>5. World' /\ Later
  BY SameWorld DEF Core
<1>6. Keys'
  BY <1>1, ClosedTyped, KeysKept DEF Core
<1>7. Room'
  BY <1>1, ClosedTyped DEF Room, Bounded
<1>8. Metas' \subseteq Metas
  BY <1>1, OtherMetas DEF Core
<1> QED
  BY <1>3, <1>4, <1>5, <1>6, <1>7, <1>8 DEF Quiet, Core

LEMMA HcCloseQuiet ==
    ASSUME Core, HcClose
    PROVE  Quiet
<1>1. NoNewEntry /\ Present' = Present
  BY SameFiles DEF Core, HcClose
<1> QED
  BY <1>1, StoppedQuiet DEF HcClose, Core, Room

LEMMA KillQuiet ==
    ASSUME Core, Kill
    PROVE  Quiet
<1>0. IsFiniteSet(Present) /\ clock \in Nat /\ profile \in 1 .. MaxKeys
  BY DEF Core, Room, Types
<1>1. PICK t \in Threads : \E g \in Writes(t) : files' = [files EXCEPT ![Aside(g)] = Damaged(clock)]
  BY DEF Kill
<1>2. PICK g \in Writes(t) : files' = [files EXCEPT ![Aside(g)] = Damaged(clock)]
  BY <1>1
<1>3. \E p \in Parts \cup {Redirect}, u \in Asks : g = EntryPath(p, u)
  <2>1. CASE th[t].pc \in {"put", "renew"}
    <3>1. th[t].part \in Parts /\ th[t].url \in Asks
      BY <2>1 DEF Core, Busy, Working
    <3> QED
      BY <1>2, <2>1, <3>1 DEF Writes
  <2>2. CASE th[t].pc \notin {"put", "renew"}
    BY <1>2, <2>2 DEF Writes
  <2> QED
    BY <2>1, <2>2
<1>4. PICK f \in Names : f = Aside(g)
  BY <1>0, <1>3, NamesTyped
<1>5. NoNewEntry /\ Present' = Present \cup {f}
  BY <1>0, <1>2, <1>4, FileDamaged DEF Core
<1>6. IsFiniteSet(Present')
  BY <1>0, <1>5, FS_AddElement
<1> QED
  BY <1>5, <1>6, StoppedQuiet DEF Kill

LEMMA PowerLossQuiet ==
    ASSUME Core, PowerLoss
    PROVE  Quiet
<1>1. PICK f \in Present : files' = [files EXCEPT ![f] = Damaged(files[f].mt)]
  BY DEF PowerLoss, Core, Types, Present
<1>2. f \in Names /\ files[f].mt \in Nat
  <2>1. f \in Names /\ files[f] \in Meta \cup BrokenRec
    BY <1>1, EntriesAre DEF Core, Types, FileSet
  <2> QED
    BY <2>1 DEF Meta, BrokenRec
<1>3. NoNewEntry /\ Present' = Present \cup {f}
  BY <1>1, <1>2, FileDamaged DEF Core
<1>4. IsFiniteSet(Present')
  BY <1>3, FS_AddElement DEF Core, Room
<1> QED
  BY <1>3, <1>4, StoppedQuiet DEF PowerLoss

LEMMA NewProfileQuiet ==
    ASSUME Core, NewProfile
    PROVE  Quiet
<1>1. /\ store.keys = 0 /\ profile < MaxKeys /\ profile' = profile + 1
      /\ UNCHANGED <<clock, origin, files, keyfile, store, th, opens>>
  BY DEF NewProfile
<1>2. profile' \in 1 .. MaxKeys
  BY <1>1, CacheAssumption DEF Core, Types
<1>3. NoNewEntry /\ Present' = Present /\ Entries' = Entries
  BY <1>1, SameFiles DEF Core, Entries, Present
<1>4. Types'
  BY <1>1, <1>2 DEF Core, Types
<1>5. Busy' /\ World' /\ Later
  BY <1>1, SameWorld, BusyRest DEF Core, Types
<1>6. Keys'
  BY <1>1, <1>3 DEF Core, Keys
<1>7. Room'
  BY <1>1, <1>3, RoomKept DEF Core
<1>8. Metas' \subseteq Metas
  BY <1>1, <1>3, OtherMetas DEF Core
<1> QED
  BY <1>4, <1>5, <1>6, <1>7, <1>8 DEF Quiet, Core

LEMMA HcClearQuiet ==
    ASSUME Core, HcClear
    PROVE  Quiet
<1>1. files' = Empty /\ UNCHANGED <<clock, origin, keyfile, profile, store, th, opens>>
  BY DEF HcClear
<1>2. NoNewEntry /\ Present' = {}
  BY <1>1, NoFiles
<1>3. Types'
  BY <1>1, <1>2 DEF Core, Types, NoNewEntry, FileSet
<1>4. Busy' /\ World' /\ Later
  BY <1>1, SameWorld, BusyRest DEF Core, Types
<1>5. Keys' /\ Room'
  BY <1>1, <1>2, KeysKept, RoomKept DEF Core
<1>6. Metas' \subseteq Metas
  BY <1>1, <1>2, OtherMetas DEF Core
<1> QED
  BY <1>3, <1>4, <1>5, <1>6 DEF Quiet, Core

(* The clock and the origins. *)
LEMMA TickQuiet ==
    ASSUME Core, Tick
    PROVE  Quiet
<1>1. clock' = clock + 1 /\ clock \in Nat
      /\ UNCHANGED <<origin, files, keyfile, profile, store, th, opens>>
  BY DEF Tick, Core, Types
<1>2. clock' \in Nat /\ clock <= clock'
  BY <1>1
<1>3. NoNewEntry /\ Present' = Present
  BY <1>1, SameFiles DEF Core
<1>4. Types'
  BY <1>1, <1>2 DEF Core, Types
<1>5. Busy'
  BY <1>1, <1>2, BusyRest DEF Core
<1>6. World'
  BY <1>1 DEF Core, World
<1>7. Later
  <2>1. \A u \in Urls : origin[u].mtime \in Nat /\ origin[u].to \in Nat
    BY DEF Core, Types
  <2> QED
    BY <1>1, <1>2, <2>1 DEF Later
<1>8. Keys' /\ Room'
  BY <1>1, <1>3, KeysKept, RoomKept DEF Core
<1>9. Metas' \subseteq Metas
  BY <1>1, <1>3, OtherMetas DEF Core
<1> QED
  BY <1>4, <1>5, <1>6, <1>7, <1>8, <1>9 DEF Quiet, Core

LEMMA OriginQuiet ==
    ASSUME Core, NEW r \in Urls, origin[r].mtime <= origin'[r].mtime, origin[r].to <= origin'[r].to,
           origin'[r].to \in 1 .. Len(Homes[r]), \A u \in Urls \ {r} : origin'[u] = origin[u],
           origin' \in [Urls -> [mtime : Nat, to : Nat]],
           UNCHANGED <<clock, files, keyfile, profile, store, th, opens>>
    PROVE  Quiet
<1>1. NoNewEntry /\ Present' = Present
  BY SameFiles DEF Core
<1>2. Types'
  BY DEF Core, Types
<1>3. Busy'
  BY BusyRest DEF Core, Types
<1>4. World'
  BY DEF Core, World
<1>5. Later
  <2>1. clock \in Nat
        /\ \A u \in Urls : /\ origin[u].mtime \in Nat /\ origin'[u].mtime \in Nat
                           /\ origin[u].to \in Nat /\ origin'[u].to \in Nat
    BY DEF Core, Types
  <2> QED
    BY <2>1 DEF Later
<1>6. Keys' /\ Room'
  BY <1>1, KeysKept, RoomKept DEF Core
<1>7. Metas' \subseteq Metas
  BY <1>1, OtherMetas DEF Core
<1> QED
  BY <1>2, <1>3, <1>4, <1>5, <1>6, <1>7 DEF Quiet, Core

LEMMA OriginAt ==
    ASSUME Core, NEW u \in Urls
    PROVE  /\ origin[u] \in [mtime : Nat, to : Nat] /\ origin[u].to \in 1 .. Len(Homes[u])
           /\ Len(Homes[u]) \in Nat /\ clock \in Nat
BY CacheAssumption, LenProperties DEF Core, Types, World

LEMMA OriginSet ==
    ASSUME NEW o \in [mtime : Nat, to : Nat], NEW v \in Nat
    PROVE  /\ [o EXCEPT !.mtime = v] \in [mtime : Nat, to : Nat]
           /\ [o EXCEPT !.mtime = v].mtime = v /\ [o EXCEPT !.mtime = v].to = o.to
           /\ [o EXCEPT !.to = v] \in [mtime : Nat, to : Nat]
           /\ [o EXCEPT !.to = v].to = v /\ [o EXCEPT !.to = v].mtime = o.mtime
OBVIOUS

LEMMA ChangeQuiet ==
    ASSUME Core, NEW r \in Resources, Change(r)
    PROVE  Quiet
<1>1. r \in Urls
  BY CacheAssumption, ElementOfSeq DEF Resources
<1>2. clock > origin[r].mtime /\ origin[r].mtime <= clock
  BY <1>1, OriginAt DEF Change
<1>3. PICK o \in [mtime : Nat, to : Nat] :
          o = [origin[r] EXCEPT !.mtime = clock] /\ o.mtime = clock /\ o.to = origin[r].to
  <2>1. clock \in Nat /\ origin[r] \in [mtime : Nat, to : Nat]
    BY <1>1, OriginAt
  <2>2. /\ [origin[r] EXCEPT !.mtime = clock] \in [mtime : Nat, to : Nat]
        /\ [origin[r] EXCEPT !.mtime = clock].mtime = clock
        /\ [origin[r] EXCEPT !.mtime = clock].to = origin[r].to
    BY <2>1, OriginSet
  <2> QED
    BY <2>2, Zenon
<1>4. origin' = [origin EXCEPT ![r] = o]
  BY <1>3 DEF Change
<1>5. /\ origin'[r] = o /\ \A u \in Urls \ {r} : origin'[u] = origin[u]
      /\ origin' \in [Urls -> [mtime : Nat, to : Nat]]
  BY <1>1, <1>4 DEF Core, Types
<1>6. origin[r].to <= o.to
  BY <1>1, <1>3, OriginAt
<1> QED
  BY <1>1, <1>2, <1>3, <1>5, <1>6, OriginAt, OriginQuiet DEF Change

LEMMA MoveQuiet ==
    ASSUME Core, NEW r \in Urls, Move(r)
    PROVE  Quiet
<1>1. PICK n \in 1 .. Len(Homes[r]) : n = origin[r].to + 1
  BY OriginAt DEF Move
<1>2. PICK o \in [mtime : Nat, to : Nat] :
          o = [origin[r] EXCEPT !.to = n] /\ o.mtime = origin[r].mtime /\ o.to = n
  <2>1. n \in Nat
    BY <1>1, OriginAt
  <2>2. origin[r] \in [mtime : Nat, to : Nat]
    BY OriginAt
  <2>3. /\ [origin[r] EXCEPT !.to = n] \in [mtime : Nat, to : Nat]
        /\ [origin[r] EXCEPT !.to = n].to = n
        /\ [origin[r] EXCEPT !.to = n].mtime = origin[r].mtime
    BY <2>1, <2>2, OriginSet
  <2> QED
    BY <2>3, Zenon
<1>3. origin' = [origin EXCEPT ![r] = o]
  BY <1>1, <1>2 DEF Move
<1>4. /\ origin'[r] = o /\ \A u \in Urls \ {r} : origin'[u] = origin[u]
      /\ origin' \in [Urls -> [mtime : Nat, to : Nat]]
  BY <1>3 DEF Core, Types
<1>5. origin[r].mtime <= o.mtime /\ origin[r].to <= o.to
  BY <1>1, <1>2, OriginAt
<1> QED
  BY <1>2, <1>4, <1>5, OriginQuiet DEF Move

LEMMA StutterQuiet ==
    ASSUME Core, UNCHANGED vars
    PROVE  Quiet
<1>1. UNCHANGED <<clock, origin, files, keyfile, profile, store, th, opens>>
  BY DEF vars
<1>2. NoNewEntry /\ Present' = Present
  BY <1>1, SameFiles DEF Core
<1>3. Types'
  BY <1>1 DEF Core, Types
<1>4. Busy' /\ World' /\ Later
  BY <1>1, SameWorld, BusyRest DEF Core, Types
<1>5. Keys' /\ Room'
  BY <1>1, <1>2, KeysKept, RoomKept DEF Core
<1>6. Metas' \subseteq Metas
  BY <1>1, <1>2, OtherMetas DEF Core
<1> QED
  BY <1>3, <1>4, <1>5, <1>6 DEF Quiet, Core

-----------------------------------------------------------------------------
(* Answers.                                                                *)

LEMMA SentTyped ==
    ASSUME Core, NEW r \in Urls, NEW h \in Headers
    PROVE  /\ Sent(r, h).final = r /\ Sent(r, h).cc \in CCRec
           /\ Sent(r, h).etag \in {Absent, origin[r].mtime}
           /\ Sent(r, h).lm \in {Absent, origin[r].mtime}
           /\ Sent(r, h).expires \in Int /\ Sent(r, h).date \in Int
<1>1. h \in HeaderRec /\ clock \in Nat /\ origin[r].mtime \in Nat
  BY CacheAssumption, OriginAt
<1>2. h.cc \in CCRec /\ h.expires \in Int /\ h.date \in BOOLEAN /\ h.etag \in BOOLEAN /\ h.lm \in BOOLEAN
  BY <1>1 DEF HeaderRec, CCRec
<1> QED
  BY <1>1, <1>2 DEF Sent, Absent

LEMMA ResponseTyped ==
    ASSUME Core, NEW t \in Threads, NEW r \in Urls, NEW h \in Headers
    PROVE  LET m == MetaFromResponse(t, Sent(r, h))
           IN  m \in Meta /\ InTime(m) /\ Vouched(m)
<1>1. PICK s : s = Sent(r, h)
  OBVIOUS
<1>2. /\ s.final = r /\ s.cc \in CCRec /\ s.etag \in {Absent, origin[r].mtime}
      /\ s.lm \in {Absent, origin[r].mtime} /\ s.expires \in Int /\ s.date \in Int
  BY <1>1, SentTyped
<1>3. clock \in Nat /\ th[t].at \in Nat /\ th[t].at <= clock /\ origin[r].mtime \in Nat
  BY OriginAt DEF Core, Types, ThreadRec, Busy
<1>4. s.etag \in Int /\ s.lm \in Int
  BY <1>2, <1>3 DEF Absent
<1> DEFINE m == MetaFromResponse(t, s)
<1>5. m \in Meta
  BY <1>2, <1>3, <1>4 DEF MetaFromResponse, Meta
<1>6. m.stored = th[t].at /\ m.conf = clock /\ m.final = r /\ m.etag = s.etag /\ m.lm = s.lm
      /\ m.body = <<r, origin[r].mtime>> /\ m.truth = m.body
  BY <1>2 DEF MetaFromResponse
<1>7. InTime(m)
  BY <1>3, <1>6 DEF InTime
<1>8. Vouched(m)
  BY <1>2, <1>3, <1>6 DEF Vouched, Backed
<1> QED
  BY <1>1, <1>5, <1>7, <1>8

LEMMA RenewedTyped ==
    ASSUME Core, NEW t \in Threads, NEW r \in Urls, NEW h \in Headers, NEW m \in Meta
    PROVE  LET s == Sent(r, h)
               n == Renewed(t, m, s)
           IN  /\ n \in Meta /\ InTime(n)
               /\ n.final = m.final /\ n.body = m.body /\ n.lm = m.lm
               /\ n.truth = <<r, origin[r].mtime>> /\ n.etag \in {m.etag, origin[r].mtime}
<1>1. PICK s : s = Sent(r, h)
  OBVIOUS
<1>2. /\ s.final = r /\ s.cc \in CCRec /\ s.etag \in {Absent, origin[r].mtime}
      /\ s.lm \in {Absent, origin[r].mtime} /\ s.expires \in Int /\ s.date \in Int
  BY <1>1, SentTyped
<1>3. clock \in Nat /\ th[t].at \in Nat /\ th[t].at <= clock /\ origin[r].mtime \in Nat
  BY OriginAt DEF Core, Types, ThreadRec, Busy
<1>4. m.cc \in CCRec /\ m.expires \in Int /\ m.date \in Int /\ m.etag \in Int
  BY DEF Meta
<1>5. PICK c \in CCRec, x \in Int, d \in Int, g \in Int, w \in Urls \X Nat :
          /\ c = IF s.cc # NoCC THEN s.cc ELSE m.cc
          /\ x = IF s.expires # Absent THEN s.expires ELSE m.expires
          /\ d = IF s.date # Absent THEN s.date ELSE m.date
          /\ g = IF s.etag # Absent THEN s.etag ELSE m.etag
          /\ g \in {m.etag, origin[r].mtime}
          /\ w = <<r, origin[r].mtime>>
  <2>1. (IF s.cc # NoCC THEN s.cc ELSE m.cc) \in CCRec
    BY <1>2, <1>4
  <2>2. (IF s.expires # Absent THEN s.expires ELSE m.expires) \in Int
        /\ (IF s.date # Absent THEN s.date ELSE m.date) \in Int
    BY <1>2, <1>4
  <2>3. (IF s.etag # Absent THEN s.etag ELSE m.etag) \in Int
        /\ (IF s.etag # Absent THEN s.etag ELSE m.etag) \in {m.etag, origin[r].mtime}
    BY <1>2, <1>3, <1>4
  <2>4. <<r, origin[r].mtime>> \in Urls \X Nat
    BY <1>3
  <2> QED
    BY <2>1, <2>2, <2>3, <2>4, Zenon
<1>6. Renewed(t, m, s) = [m EXCEPT !.stored = th[t].at, !.cc = c, !.expires = x, !.date = d,
                                   !.etag = g, !.conf = clock, !.truth = w]
  BY <1>2, <1>5 DEF Renewed, Meta
<1>7. PICK a \in Nat, k \in Nat : a = th[t].at /\ k = clock /\ a <= k
  BY <1>3
<1>8. PICK n : n = [m EXCEPT !.stored = a, !.cc = c, !.expires = x, !.date = d,
                             !.etag = g, !.conf = k, !.truth = w]
  OBVIOUS
<1>9. n \in Meta
  BY <1>8 DEF Meta
<1>10. /\ n.stored = a /\ n.conf = k /\ n.final = m.final /\ n.body = m.body /\ n.lm = m.lm
       /\ n.truth = w /\ n.etag = g
  BY <1>8 DEF Meta
<1>11. Renewed(t, m, s) = n
  BY <1>6, <1>7, <1>8
<1>12. InTime(n)
  BY <1>7, <1>10 DEF InTime
<1> QED
  BY <1>1, <1>5, <1>9, <1>10, <1>11, <1>12

(* The resource that answers. *)
LEMMA AnswersTyped ==
    ASSUME Core, NEW t \in Threads, th[t].pc \in {"miss", "cond"}
    PROVE  Asked(t) \in Urls /\ Answers(t) \in Urls
<1>1. Asked(t) \in Urls
  <2>1. th[t].pc = "cond" => th[t].m.final \in Urls
    BY DEF Core, Busy, Meta
  <2>2. th[t].url \in Asks /\ Asks \subseteq Urls
    BY CacheAssumption DEF Core, Busy, Working
  <2> QED
    BY <2>1, <2>2 DEF Asked
<1>2. LeadsTo(Asked(t)) \in Urls
  BY <1>1, OriginTyped DEF Core
<1>3. Answers(t) \in Urls
  BY <1>2, OriginTyped DEF Core, Answers
<1> QED
  BY <1>1, <1>3

(* A 304 is about the version the entry holds, where its address still answers. *)
LEMMA RenewedVouched ==
    ASSUME Core, NEW t \in Threads, th[t].pc = "cond", NEW h \in Headers,
           Vouched(th[t].m), Matches(th[t].m, Answers(t))
    PROVE  Vouched(Renewed(t, th[t].m, Sent(Answers(t), h)))
<1> DEFINE m == th[t].m
<1>1. m \in Meta
  BY DEF Core, Busy
<1>2. PICK r \in Urls : r = Answers(t)
  BY AnswersTyped
<1>3. PICK n : n = Renewed(t, m, Sent(r, h))
  OBVIOUS
<1>4. /\ n \in Meta /\ n.final = m.final /\ n.body = m.body /\ n.lm = m.lm
      /\ n.truth = <<r, origin[r].mtime>> /\ n.etag \in {m.etag, origin[r].mtime}
  <2> HIDE DEF m
  <2> QED
    BY <1>1, <1>3, RenewedTyped, Zenon
<1>5. SUFFICES ASSUME Stays(m.final)
               PROVE  Backed(n)
  BY <1>2, <1>3, <1>4 DEF Vouched
<1>6. Backed(m)
  BY <1>5 DEF Vouched
<1>7. r = m.final
  <2>1. Asked(t) = m.final /\ m.final \in Urls
    BY <1>1 DEF Asked, Meta
  <2>2. origin[m.final].to \in 1 .. origin[m.final].to
    BY <2>1, OriginAt
  <2>3. LeadsTo(m.final) = m.final
    BY <1>5, <2>2 DEF Stays, LeadsTo
  <2> QED
    BY <1>2, <2>1, <2>3 DEF Answers
<1>8. m.body[2] = origin[r].mtime
  <2>1. /\ m.body[2] \in Nat /\ origin[r].mtime \in Nat /\ m.body[2] <= origin[r].mtime
        /\ m.etag \in {Absent, m.body[2]} /\ m.lm \in {Absent, m.body[2]}
    BY <1>1, <1>6, <1>7, OriginAt DEF Backed, Meta
  <2>2. IF m.etag # Absent THEN m.etag = origin[r].mtime ELSE origin[r].mtime <= m.lm
    BY <1>2 DEF Matches
  <2>3. CASE m.etag # Absent
    BY <2>1, <2>2, <2>3
  <2>4. CASE m.etag = Absent
    BY <2>1, <2>2, <2>4 DEF Absent
  <2> QED
    BY <2>3, <2>4
<1>9. n.truth = n.body
  <2>1. m.body \in Urls \X Nat /\ m.body[1] = m.final
    BY <1>1, <1>6 DEF Meta, Backed
  <2>2. m.body = <<m.body[1], m.body[2]>>
    BY <2>1
  <2> QED
    BY <1>4, <1>7, <1>8, <2>1, <2>2
<1> QED
  BY <1>4, <1>6, <1>8, <1>9 DEF Backed

(* An answer brings an entry, or none. *)
LEMMA AnswerBrings ==
    ASSUME Core, NEW t \in Threads, NEW h \in Headers, Answer(t, h)
    PROVE  \/ Finish(t)
           \/ \E m \in Meta, c \in Writing :
                 /\ Keep(t, c, m) /\ InTime(m)
                 /\ (\A x \in Metas : Vouched(x)) => Vouched(m)
<1>1. CASE th[t].pc = "plain"
  BY <1>1 DEF Answer
<1>2. CASE th[t].pc # "plain"
  <2>1. th[t].pc \in {"miss", "cond"}
    BY <1>2 DEF Answer, Asking
  <2>2. Answers(t) \in Urls
    BY <2>1, AnswersTyped
  <2>3. Sent(Answers(t), h).final = Answers(t)
    BY <2>2, SentTyped
  <2>4. CASE th[t].pc = "cond" /\ Matches(th[t].m, Answers(t))
    <3> DEFINE n == Renewed(t, th[t].m, Sent(Answers(t), h))
    <3>1. th[t].m \in Meta /\ th[t].m \in Metas
      BY <2>4, MetasHave DEF Core, Busy
    <3>2. n \in Meta /\ InTime(n)
      BY <2>2, <3>1, RenewedTyped
    <3>3. (\A x \in Metas : Vouched(x)) => Vouched(n)
      BY <2>4, <3>1, RenewedVouched
    <3>4. Keep(t, "renew", n)
      BY <1>2, <2>3, <2>4 DEF Answer
    <3> HIDE DEF n
    <3> QED
      BY <3>2, <3>3, <3>4 DEF Writing
  <2>5. CASE ~(th[t].pc = "cond" /\ Matches(th[t].m, Answers(t)))
    <3> DEFINE n == MetaFromResponse(t, Sent(Answers(t), h))
    <3>1. n \in Meta /\ InTime(n) /\ Vouched(n)
      BY <2>2, ResponseTyped
    <3>2. Keep(t, "put", n) \/ Finish(t)
      BY <1>2, <2>3, <2>5 DEF Answer
    <3> HIDE DEF n
    <3> QED
      BY <3>1, <3>2 DEF Writing
  <2> QED
    BY <2>4, <2>5
<1> QED
  BY <1>1, <1>2

(* A step that brings at most the entries of N. *)
Brings(N) ==
    /\ Core' /\ Later /\ Metas' \subseteq Metas \cup N
    /\ \A m \in N : /\ m \in Meta /\ InTime(m)
                    /\ (\A x \in Metas : Vouched(x)) => Vouched(m)

LEMMA AnswerKeeps ==
    ASSUME Core, NEW t \in Threads, NEW h \in Headers, Answer(t, h)
    PROVE  \E N : Brings(N)
<1>1. th[t].pc # "idle" /\ UNCHANGED <<clock, origin, files, keyfile, profile, store, opens>>
  BY DEF Answer, Asking
<1>2. store.keys # 0
  BY <1>1 DEF Core, Busy
<1>3. NoNewEntry /\ Present' = Present
  BY <1>1, SameFiles DEF Core
<1>4. CASE Finish(t)
  <2>1. Quiet
    BY <1>1, <1>2, <1>3, <1>4, GoesIdle
  <2>2. Brings({})
    BY <2>1 DEF Quiet, Brings
  <2> QED
    BY <2>2
<1>5. CASE ~Finish(t)
  <2>1. PICK m \in Meta, c \in Writing :
            /\ Keep(t, c, m) /\ InTime(m)
            /\ (\A x \in Metas : Vouched(x)) => Vouched(m)
    BY <1>5, AnswerBrings
  <2>2. PICK r \in ThreadRec : /\ Steps(t, r) /\ r.pc = c /\ r.ans = m
                               /\ r.part = th[t].part /\ r.url = th[t].url /\ r.at = th[t].at
    BY <2>1, KeepSteps DEF Core
  <2>3. th[t].pc \in Working
    <3>1. th[t].pc \in {"miss", "cond"} \/ Finish(t)
      BY DEF Answer, Asking
    <3> QED
      BY <1>5, <3>1 DEF Working
  <2>4. r.part \in Parts /\ r.url \in Asks /\ r.at <= clock
    BY <2>2, <2>3 DEF Core, Busy
  <2>5. Types'
    BY <1>1, <2>2 DEF Core, Types, Steps
  <2>6. Busy'
    BY <1>1, <1>2, <2>1, <2>2, <2>4, BusyThread DEF Core, Writing
  <2>7. World' /\ Later
    BY <1>1, SameWorld DEF Core
  <2>8. Keys' /\ Room'
    BY <1>1, <1>3, KeysKept, RoomKept DEF Core
  <2>9. Metas' \subseteq Metas \cup {m}
    BY <1>3, <2>1, <2>2, ThreadMetas DEF Core, Writing
  <2>10. Core'
    BY <2>5, <2>6, <2>7, <2>8 DEF Core
  <2>11. Brings({m})
    BY <2>1, <2>7, <2>9, <2>10 DEF Brings
  <2> QED
    BY <2>11
<1> QED
  BY <1>4, <1>5

-----------------------------------------------------------------------------
(* A put.                                                                  *)

(* The blob of an entry. *)
Sealed(m) == [m EXCEPT !.ok = TRUE, !.key = store.keys, !.mt = clock]

LEMMA SealedTyped ==
    ASSUME Types, NEW m \in Meta
    PROVE  /\ Sealed(m) \in Meta /\ Sealed(m).key = store.keys
           /\ InTime(m) => InTime(Sealed(m))
           /\ Vouched(m) => Vouched(Sealed(m))
<1>1. store.keys \in Nat /\ clock \in Nat
  BY DEF Types, StoreRec
<1>2. PICK n : n = Sealed(m)
  OBVIOUS
<1>3. /\ n \in Meta /\ n.key = store.keys /\ n.stored = m.stored /\ n.conf = m.conf
      /\ n.truth = m.truth /\ n.body = m.body /\ n.final = m.final /\ n.etag = m.etag
      /\ n.lm = m.lm
  BY <1>1, <1>2 DEF Sealed, Meta
<1>4. InTime(m) => InTime(n)
  BY <1>3 DEF InTime
<1>5. Vouched(m) => Vouched(n)
  BY <1>3 DEF Vouched, Backed
<1> QED
  BY <1>2, <1>3, <1>4, <1>5

(* The directory after the rename, before any eviction. *)
Renamed(f, e) == [files EXCEPT ![f] = e, ![Aside(f)] = None]
In(fs) == {g \in Names : fs[g] # None}

LEMMA RenamedTyped ==
    ASSUME Types, NEW p \in Parts \cup {Redirect}, NEW u \in Asks, NEW e \in Meta, NEW fs,
           fs = Renamed(EntryPath(p, u), e)
    PROVE  /\ fs \in FileSet
           /\ \A g \in Names : fs[g] \in Meta => fs[g] = files[g] \/ (g = EntryPath(p, u) /\ fs[g] = e)
           /\ In(fs) \subseteq Present \cup {EntryPath(p, u)}
<1>1. PICK f \in Names, d \in Names :
          f = EntryPath(p, u) /\ d = Aside(EntryPath(p, u)) /\ f # d
  BY NamesTyped DEF Types
<1>2. files \in FileSet /\ fs = [files EXCEPT ![f] = e, ![d] = None]
  BY <1>1 DEF Types, FileSet, Renamed
<1>3. fs \in FileSet
  BY <1>2 DEF FileSet
<1>4. \A g \in Names : fs[g] = IF g = d THEN None ELSE IF g = f THEN e ELSE files[g]
  BY <1>1, <1>2 DEF FileSet
<1> QED
  BY <1>1, <1>3, <1>4, Kinds DEF In, Present

LEMMA RestOf ==
    ASSUME NEW S, IsFiniteSet(S), NEW R \in SUBSET S
    PROVE  IsFiniteSet(S \ R) /\ Cardinality(S \ R) = Cardinality(S) - Cardinality(R)
<1>1. S \cap R = R
  OBVIOUS
<1>2. IsFiniteSet(S \ R) /\ Cardinality(S \ R) = Cardinality(S) - Cardinality(S \cap R)
  BY FS_Difference
<1> QED
  BY <1>1, <1>2

LEMMA EvictedRoom ==
    ASSUME NEW fs \in FileSet, IsFiniteSet(In(fs)), NEW R \in Evictions(fs),
           files' = Removed(fs, R)
    PROVE  /\ files' \in FileSet /\ \A g \in Names : files'[g] = fs[g] \/ files'[g] = None
           /\ IsFiniteSet(Present') /\ Cardinality(Present') <= MaxTotal
<1> DEFINE S == {g \in Names : fs[g] # None}
<1>0. S = In(fs) /\ IsFiniteSet(S) /\ Cardinality(S) \in Nat
  BY FS_CardinalityType DEF In
<1>1. files' \in FileSet /\ \A g \in Names : files'[g] = IF g \in R THEN None ELSE fs[g]
  BY RemovedTyped DEF FileSet
<1>2. Present' = S \ R
  BY <1>1 DEF Present
<1>3. Target \in Nat /\ MaxTotal \in Nat /\ Target <= MaxTotal
  BY CacheAssumption
<1>4. CASE Cardinality(S) <= MaxTotal
  <2>1. R = {}
    BY <1>4 DEF Evictions
  <2> QED
    BY <1>0, <1>1, <1>2, <1>4, <2>1
<1>5. CASE ~(Cardinality(S) <= MaxTotal)
  <2>1. R \in SUBSET S /\ Cardinality(R) = Cardinality(S) - Target
    BY <1>5 DEF Evictions, kSubset
  <2> HIDE DEF S
  <2>2. IsFiniteSet(S \ R) /\ Cardinality(S \ R) = Cardinality(S) - Cardinality(R)
    BY <1>0, <2>1, RestOf
  <2>3. Cardinality(S \ R) = Target
    BY <1>0, <1>3, <2>1, <2>2
  <2> QED
    BY <1>1, <1>2, <1>3, <2>2, <2>3
<1> QED
  BY <1>4, <1>5

LEMMA PutCounter ==
    ASSUME NEW n \in Nat, n < EvictEvery
    PROVE  /\ (n + 1) % EvictEvery \in Nat /\ (n + 1) % EvictEvery < EvictEvery
           /\ (n + 1) % EvictEvery # 0 => (n + 1) % EvictEvery = n + 1
<1>1. EvictEvery \in Nat \ {0}
  BY CacheAssumption
<1>2. CASE n + 1 = EvictEvery
  <2>1. EvictEvery % EvictEvery = 0
    BY <1>1
  <2> QED
    BY <1>1, <1>2, <2>1
<1>3. CASE n + 1 # EvictEvery
  <2>1. n + 1 \in Nat /\ n + 1 < EvictEvery
    BY <1>1, <1>3
  <2>2. \A a \in Nat : a < EvictEvery => a % EvictEvery = a
    BY <1>1
  <2>3. (n + 1) % EvictEvery = n + 1
    BY <2>1, <2>2
  <2> QED
    BY <2>1, <2>3
<1> QED
  BY <1>2, <1>3

(* What a put leaves: one new blob at most, and a directory within its limit. *)
LEMMA PutLeaves ==
    ASSUME Core, store.keys # 0, NEW p \in Parts, NEW u \in Asks, NEW m \in Meta, HcPut(p, u, m)
    PROVE  /\ store' \in StoreRec /\ store'.keys = store.keys
           /\ files' \in FileSet
           /\ \A g \in Names : files'[g] \in Meta =>
                  files'[g] = files[g] \/ (g = EntryPath(p, u) /\ files'[g] = Sealed(m))
           /\ Room'
<1> DEFINE f == EntryPath(p, u)
           puts == (store.puts + 1) % EvictEvery
<1>0. /\ store \in StoreRec /\ store.puts \in Nat /\ store.base \in Nat /\ store.redirects \in Nat
      /\ store.puts < EvictEvery
      /\ IsFiniteSet(Present) /\ MaxTotal \in Nat
  BY CacheAssumption DEF Core, Types, StoreRec, Room
<1>1. PICK fs : fs = Renamed(f, Sealed(m))
  OBVIOUS
<1>2. /\ fs \in FileSet /\ \A g \in Names : fs[g] \in Meta => fs[g] = files[g] \/ (g = f /\ fs[g] = Sealed(m))
      /\ In(fs) \subseteq Present \cup {f}
  BY <1>1, SealedTyped, RenamedTyped DEF Core
<1>3. IF puts = 0
      THEN /\ store' = [store EXCEPT !.puts = 0, !.redirects = 0]
           /\ \E R \in Evictions(fs) : files' = Removed(fs, R)
      ELSE store' = [store EXCEPT !.puts = store.puts + 1] /\ files' = fs
  BY <1>1 DEF HcPut, Sealed, Renamed, Core, Types, StoreRec
<1>4. puts \in Nat /\ puts < EvictEvery /\ (puts # 0 => puts = store.puts + 1)
  BY <1>0, PutCounter
<1> HIDE DEF f, puts
<1>5. /\ store' \in StoreRec /\ store'.keys = store.keys /\ store'.base = store.base
      /\ store'.puts = puts /\ store'.redirects = IF puts = 0 THEN 0 ELSE store.redirects
  BY <1>0, <1>3, <1>4 DEF StoreRec
<1>6. /\ IsFiniteSet(In(fs)) /\ Cardinality(In(fs)) <= Cardinality(Present) + 1
      /\ Cardinality(In(fs)) \in Nat /\ Cardinality(Present) \in Nat
  <2>1. /\ IsFiniteSet(Present \cup {f}) /\ Cardinality(Present \cup {f}) <= Cardinality(Present) + 1
        /\ Cardinality(Present \cup {f}) \in Nat /\ Cardinality(Present) \in Nat
    <3>1. Cardinality(Present) \in Nat
      BY <1>0, FS_CardinalityType
    <3>2. /\ IsFiniteSet(Present \cup {f})
          /\ \/ Cardinality(Present \cup {f}) = Cardinality(Present)
             \/ Cardinality(Present \cup {f}) = Cardinality(Present) + 1
      BY <1>0, FS_AddElement
    <3> QED
      BY <3>1, <3>2
  <2>2. IsFiniteSet(In(fs)) /\ Cardinality(In(fs)) <= Cardinality(Present \cup {f})
    BY <1>2, <2>1, FS_Subset
  <2>3. Cardinality(In(fs)) \in Nat
    BY <2>2, FS_CardinalityType
  <2> QED
    BY <2>1, <2>2, <2>3
<1> DEFINE top == IF store.base > MaxTotal THEN store.base ELSE MaxTotal
<1>7. /\ top \in Nat /\ MaxTotal <= top
      /\ Cardinality(Present) <= top + store.puts + store.redirects
  BY <1>0 DEF Core, Room, Bounded
<1>8. Cardinality(Present') <= top + puts + (IF puts = 0 THEN 0 ELSE store.redirects) => Bounded'
  BY <1>5 DEF Bounded
<1> HIDE DEF top
<1>9. CASE puts = 0
  <2>1. PICK R \in Evictions(fs) : files' = Removed(fs, R)
    BY <1>3, <1>9
  <2>2. /\ files' \in FileSet /\ \A g \in Names : files'[g] = fs[g] \/ files'[g] = None
        /\ IsFiniteSet(Present') /\ Cardinality(Present') <= MaxTotal
    BY <1>2, <1>6, <2>1, EvictedRoom
  <2>3. Bounded'
    <3>1. Cardinality(Present') \in Nat
      BY <2>2, FS_CardinalityType
    <3> QED
      BY <1>0, <1>7, <1>8, <1>9, <2>2, <3>1
  <2>4. Room'
    BY <1>4, <1>5, <2>2, <2>3 DEF Room
  <2> QED
    BY <1>2, <1>5, <2>2, <2>4, Kinds DEF f
<1>10. CASE puts # 0
  <2>1. files' = fs
    BY <1>3, <1>10
  <2>2. Present' = In(fs)
    BY <2>1 DEF Present, In
  <2>3. Bounded'
    BY <1>0, <1>4, <1>6, <1>7, <1>8, <1>10, <2>2
  <2>4. Room'
    BY <1>4, <1>5, <1>6, <2>2, <2>3 DEF Room
  <2> QED
    BY <1>2, <1>5, <2>1, <2>4 DEF f
<1> QED
  BY <1>9, <1>10

(* A blob is sealed into the directory. *)
LEMMA SealBrings ==
    ASSUME Core, store.keys # 0, NEW p \in Parts \cup {Redirect}, NEW u \in Asks, NEW e \in Meta,
           e.key = store.keys, InTime(e), (\A x \in Metas : Vouched(x)) => Vouched(e),
           store' \in StoreRec, store'.keys = store.keys, files' \in FileSet,
           \A g \in Names : files'[g] \in Meta =>
               files'[g] = files[g] \/ (g = EntryPath(p, u) /\ files'[g] = e),
           Room', Busy', UNCHANGED <<clock, origin, keyfile, profile, opens>>,
           th' \in [Threads -> ThreadRec],
           \A s \in Threads : th'[s] = th[s] \/ th'[s].pc \in {"idle", "plain"}
    PROVE  Brings({e})
<1>1. EntryPath(p, u).for = profile
  BY NamesTyped DEF Core, Types
<1>2. PICK f : f = EntryPath(p, u)
  OBVIOUS
<1>3. \A g \in Entries' : (files'[g] = e /\ g = f) \/ (g \in Entries /\ files'[g] = files[g])
  <2>1. Entries' = {g \in Names : files'[g] \in Meta}
    BY Kinds DEF Entries, Present, FileSet
  <2>2. Entries = {g \in Names : files[g] \in Meta}
    BY EntriesAre DEF Core, Types, FileSet
  <2> QED
    BY <1>2, <2>1, <2>2
<1>4. Types'
  BY DEF Core, Types, FileSet
<1>5. World' /\ Later
  BY SameWorld DEF Core
<1>6. Keys'
  <2>1. /\ keyfile # None /\ keyfile.profile = profile /\ store.keys = keyfile.keys
        /\ \A g \in Entries : files[g].key = keyfile.keys /\ g.for = keyfile.profile
    BY DEF Core, Keys, Readable
  <2> QED
    BY <1>1, <1>2, <1>3, <2>1 DEF Keys, Readable
<1>7. Metas' \subseteq Metas \cup {e}
  <2>1. \A g \in Entries' : files'[g] \in Metas \cup {e}
    BY <1>3, MetasHave
  <2>2. \A s \in Threads : th'[s].pc = "cond" => th'[s].m \in Metas \cup {e}
    BY MetasHave
  <2>3. \A s \in Threads : th'[s].pc \in Writing => th'[s].ans \in Metas \cup {e}
    BY MetasHave DEF Writing
  <2> QED
    BY <2>1, <2>2, <2>3, MetasFrom
<1>8. Core'
  BY <1>4, <1>5, <1>6 DEF Core
<1> QED
  BY <1>5, <1>7, <1>8 DEF Brings

LEMMA PutKeeps ==
    ASSUME Core, \A m \in Metas : InTime(m), NEW t \in Threads, Put(t)
    PROVE  \E N : Brings(N)
<1> DEFINE m == th[t].ans
           f == EntryPath(th[t].part, th[t].url)
<1>1. /\ th[t].pc \in Writing /\ th[t].pc # "idle" /\ HcPut(th[t].part, th[t].url, m) /\ Serve(t)
      /\ UNCHANGED <<clock, origin, keyfile, profile, opens>>
  BY DEF Put, Writing
<1>2. /\ store.keys # 0 /\ th[t].part \in Parts /\ th[t].url \in Asks /\ m \in Meta /\ m \in Metas
  BY <1>1, MetasHave DEF Core, Busy, Working, Writing
<1>3. /\ store' \in StoreRec /\ store'.keys = store.keys /\ files' \in FileSet
      /\ \A g \in Names : files'[g] \in Meta => files'[g] = files[g] \/ (g = f /\ files'[g] = Sealed(m))
      /\ Room'
  BY <1>1, <1>2, PutLeaves
<1>4. PICK e : e = Sealed(m)
  OBVIOUS
<1>5. /\ e \in Meta /\ e.key = store.keys /\ InTime(e) /\ (Vouched(m) => Vouched(e))
  BY <1>2, <1>4, SealedTyped DEF Core
<1>6. PICK p \in Parts \cup {Redirect}, u \in Asks : p = th[t].part /\ u = th[t].url
  BY <1>2
<1>7. PICK r \in {Idle, Plain} : Steps(t, r)
  <2>1. th' = [th EXCEPT ![t] = Idle] \/ th' = [th EXCEPT ![t] = Plain]
    BY <1>1 DEF Serve, Finish
  <2> QED
    BY <2>1, ThreadSteps, IdleTyped DEF Core
<1>8. r \in ThreadRec /\ r.pc \in {"idle", "plain"} /\ r.at = 0 /\ 0 <= clock
  BY IdleTyped DEF Core, Types
<1> HIDE DEF m
<1>9. Busy'
  BY <1>1, <1>2, <1>3, <1>7, <1>8, BusyThread DEF Core, Working, Writing
<1>10. /\ th' \in [Threads -> ThreadRec]
       /\ \A s \in Threads : th'[s] = th[s] \/ th'[s].pc \in {"idle", "plain"}
  BY <1>7, <1>8 DEF Steps
<1>11. \A g \in Names : files'[g] \in Meta => files'[g] = files[g] \/ (g = EntryPath(p, u) /\ files'[g] = e)
  BY <1>3, <1>4, <1>6
<1>12. (\A x \in Metas : Vouched(x)) => Vouched(e)
  BY <1>2, <1>5
<1>13. Brings({e})
  BY <1>1, <1>2, <1>3, <1>5, <1>9, <1>10, <1>11, <1>12, SealBrings
<1> QED
  BY <1>13

(* Redirects. *)
LEMMA RedirectTyped ==
    ASSUME Core, NEW r \in Urls
    PROVE  LET e == MetaOfRedirect(r)
           IN  e \in Meta /\ e.key = store.keys /\ InTime(e) /\ Vouched(e)
<1>1. clock \in Nat /\ store.keys \in Nat /\ origin[r].mtime \in Nat
  BY OriginAt DEF Core, Types, StoreRec
<1>2. NoCC \in CCRec
  BY DEF NoCC, CCRec, Absent
<1>3. PICK e : e = MetaOfRedirect(r)
  OBVIOUS
<1>4. e \in Meta
  BY <1>1, <1>2, <1>3 DEF MetaOfRedirect, Meta, Absent
<1>5. /\ e.key = store.keys /\ e.stored = clock /\ e.conf = clock /\ e.final = r
      /\ e.body = <<r, 0>> /\ e.truth = e.body /\ e.etag = Absent /\ e.lm = Absent
  BY <1>3 DEF MetaOfRedirect
<1>6. InTime(e)
  BY <1>1, <1>5 DEF InTime
<1>7. Vouched(e)
  BY <1>1, <1>5 DEF Vouched, Backed
<1> QED
  BY <1>3, <1>4, <1>5, <1>6, <1>7

LEMMA PutRedirectKeeps ==
    ASSUME Core, NEW t \in Threads, NEW u \in Asks, PutRedirect(t, u)
    PROVE  \E N : Brings(N)
<1> DEFINE p == Redirect
           f == EntryPath(p, u)
<1>1. /\ th[t].pc # "idle" /\ UNCHANGED <<clock, origin, keyfile, profile, th, opens>>
      /\ store' = [store EXCEPT !.redirects = IF files[f] = None THEN store.redirects + 1
                                              ELSE store.redirects]
      /\ files' = Renamed(f, MetaOfRedirect(LeadsTo(u)))
  BY DEF PutRedirect, Asking, Renamed, Core, Types, StoreRec
<1>2. store.keys # 0 /\ u \in Urls
  BY <1>1, CacheAssumption DEF Core, Busy
<1>3. PICK e : e = MetaOfRedirect(LeadsTo(u))
  OBVIOUS
<1>4. e \in Meta /\ e.key = store.keys /\ InTime(e) /\ Vouched(e)
  <2>1. LeadsTo(u) \in Urls
    BY <1>2, OriginTyped DEF Core
  <2> QED
    BY <1>3, <2>1, RedirectTyped
<1>5. /\ files' \in FileSet
      /\ \A g \in Names : files'[g] \in Meta => files'[g] = files[g] \/ (g = f /\ files'[g] = e)
      /\ In(files') \subseteq Present \cup {f}
  BY <1>1, <1>3, <1>4, RenamedTyped DEF Core
<1>6. /\ store \in StoreRec /\ store.puts \in Nat /\ store.base \in Nat /\ store.redirects \in Nat
      /\ IsFiniteSet(Present) /\ MaxTotal \in Nat /\ f \in Names
  BY CacheAssumption, NamesTyped DEF Core, Types, StoreRec, Room
<1> HIDE DEF f
<1>7. /\ store' \in StoreRec /\ store'.keys = store.keys /\ store'.base = store.base
      /\ store'.puts = store.puts
      /\ store'.redirects = IF files[f] = None THEN store.redirects + 1 ELSE store.redirects
  BY <1>1, <1>6 DEF StoreRec
<1>8. Room'
  <2>1. Present' = In(files')
    BY DEF Present, In
  <2>2. f \in Present <=> files[f] # None
    BY <1>6 DEF Present
  <2>3. /\ Cardinality(Present) \in Nat /\ IsFiniteSet(Present \cup {f})
        /\ Cardinality(Present \cup {f}) =
               Cardinality(Present) + (IF files[f] = None THEN 1 ELSE 0)
    BY <1>6, <2>2, FS_AddElement, FS_CardinalityType
  <2>4. /\ IsFiniteSet(Present') /\ Cardinality(Present') \in Nat
        /\ Cardinality(Present') <= Cardinality(Present \cup {f})
    BY <1>5, <2>1, <2>3, FS_Subset, FS_CardinalityType
  <2> DEFINE top == IF store.base > MaxTotal THEN store.base ELSE MaxTotal
  <2>5. top \in Nat /\ Cardinality(Present) <= top + store.puts + store.redirects
    BY <1>2, <1>6 DEF Core, Room, Bounded
  <2>6. Cardinality(Present') <= top + store'.puts + store'.redirects => Bounded'
    BY <1>7 DEF Bounded
  <2> HIDE DEF top
  <2>7. Bounded'
    <3>1. CASE files[f] = None
      BY <1>6, <1>7, <2>3, <2>4, <2>5, <2>6, <3>1
    <3>2. CASE files[f] # None
      BY <1>6, <1>7, <2>3, <2>4, <2>5, <2>6, <3>2
    <3> QED
      BY <3>1, <3>2
  <2> QED
    BY <1>2, <1>7, <2>4, <2>7 DEF Core, Room
<1>9. Busy'
  BY <1>1, <1>7, BusyRest DEF Core, Types
<1>10. th' \in [Threads -> ThreadRec] /\ \A s \in Threads : th'[s] = th[s]
  BY <1>1 DEF Core, Types
<1>11. \A g \in Names :
           files'[g] \in Meta => files'[g] = files[g] \/ (g = EntryPath(p, u) /\ files'[g] = e)
  BY <1>5 DEF f
<1>12. Brings({e})
  BY <1>1, <1>2, <1>4, <1>5, <1>7, <1>8, <1>9, <1>10, <1>11, SealBrings
<1> QED
  BY <1>12

LEMMA DropRedirectQuiet ==
    ASSUME Core, NEW t \in Threads, NEW u \in Asks, DropRedirect(t, u)
    PROVE  Quiet
<1>1. /\ files' = Removed(files, {EntryPath(Redirect, u)})
      /\ UNCHANGED <<clock, origin, keyfile, profile, store, th, opens>>
  BY DEF DropRedirect
<1>2. NoNewEntry /\ Present' \subseteq Present
  BY <1>1, FilesRemoved DEF Core
<1>3. Types'
  BY <1>1, <1>2 DEF Core, Types, NoNewEntry, FileSet
<1>4. Busy' /\ World' /\ Later
  BY <1>1, SameWorld, BusyRest DEF Core, Types
<1>5. Keys' /\ Room'
  BY <1>1, <1>2, KeysKept, RoomKept DEF Core
<1>6. Metas' \subseteq Metas
  BY <1>1, <1>2, OtherMetas DEF Core
<1> QED
  BY <1>3, <1>4, <1>5, <1>6 DEF Quiet, Core

-----------------------------------------------------------------------------
(* The theorems.                                                           *)

LEMMA StepBrings ==
    ASSUME CacheInv, [Next]_vars
    PROVE  \E N : Brings(N)
<1>0. Core /\ \A m \in Metas : InTime(m)
  BY DEF CacheInv, Core
<1>1. Quiet => Brings({})
  BY DEF Quiet, Brings
<1>2. CASE Next
  <2>1. ASSUME NEW t \in Threads, NEW p \in Parts, NEW u \in Asks, Get(t, p, u)
        PROVE  Brings({})
    BY <1>0, <1>1, <2>1, GetQuiet
  <2>2. ASSUME NEW t \in Threads, GetPlain(t) \/ Fail(t) \/ PutFails(t)
        PROVE  Brings({})
    BY <1>0, <1>1, <2>2, GetPlainQuiet, FailQuiet, PutFailsQuiet
  <2>3. ASSUME NEW t \in Threads, NEW h \in Headers, Answer(t, h)
        PROVE  \E N : Brings(N)
    BY <1>0, <2>3, AnswerKeeps
  <2>4. ASSUME NEW t \in Threads, Put(t)
        PROVE  \E N : Brings(N)
    BY <1>0, <2>4, PutKeeps
  <2>5. CASE HcOpen \/ HcOpenFails \/ HcClose
    BY <1>0, <1>1, <2>5, HcOpenQuiet, HcOpenFailsQuiet, HcCloseQuiet
  <2>6. CASE Kill \/ PowerLoss \/ NewProfile \/ HcClear \/ Tick
    BY <1>0, <1>1, <2>6, KillQuiet, PowerLossQuiet, NewProfileQuiet, HcClearQuiet, TickQuiet
  <2>7. ASSUME NEW u \in Urls, Move(u)
        PROVE  Brings({})
    BY <1>0, <1>1, <2>7, MoveQuiet
  <2>8. ASSUME NEW r \in Resources, Change(r)
        PROVE  Brings({})
    BY <1>0, <1>1, <2>8, ChangeQuiet
  <2>9. ASSUME NEW t \in Threads, NEW u \in Asks, PutRedirect(t, u) \/ DropRedirect(t, u)
        PROVE  \E N : Brings(N)
    <3>1. CASE PutRedirect(t, u)
      BY <1>0, <3>1, PutRedirectKeeps
    <3>2. CASE DropRedirect(t, u)
      BY <1>0, <1>1, <3>2, DropRedirectQuiet
    <3> QED
      BY <2>9, <3>1, <3>2
  <2> QED
    BY <1>2, <2>1, <2>2, <2>3, <2>4, <2>5, <2>6, <2>7, <2>8, <2>9 DEF Next
<1>3. CASE UNCHANGED vars
  BY <1>0, <1>1, <1>3, StutterQuiet
<1> QED
  BY <1>2, <1>3

LEMMA CacheInvInit ==
    ASSUME Init
    PROVE  CacheInv /\ Metas = {}
<1>1. clock = 0 /\ files = Empty /\ keyfile = None /\ profile = 1 /\ store = Closed
      /\ th = [t \in Threads |-> Idle] /\ opens = 0
      /\ origin = [u \in Urls |-> [mtime |-> 0, to |-> 1]]
  BY DEF Init
<1>2. th \in [Threads -> ThreadRec] /\ \A t \in Threads : th[t].pc = "idle" /\ th[t].at = 0
  BY <1>1, IdleTyped
<1>3. files \in FileSet /\ \A f \in Names : files[f] = None
  BY <1>1, EmptyTyped DEF FileSet
<1>4. Present = {} /\ Entries = {}
  BY <1>3 DEF Present, Entries
<1>5. Types
  <2>1. profile \in 1 .. MaxKeys
    BY <1>1, CacheAssumption
  <2> QED
    BY <1>1, <1>2, <1>3, <2>1, ClosedTyped DEF Types, FileSet
<1>6. Busy
  BY <1>1, <1>2 DEF Busy, Working, Writing
<1>7. World
  <2>1. \A u \in Urls : Len(Homes[u]) \in Nat \ {0}
    BY CacheAssumption, LenProperties, EmptySeq
  <2> QED
    BY <1>1, <2>1 DEF World
<1>8. Keys /\ Room
  BY <1>1, <1>4, ClosedTyped, FS_EmptySet DEF Keys, Room, Bounded
<1>9. Metas = {}
  BY <1>2, <1>4 DEF Metas, Writing
<1> QED
  BY <1>5, <1>6, <1>7, <1>8, <1>9 DEF CacheInv

LEMMA CacheInvStep ==
    ASSUME CacheInv, [Next]_vars
    PROVE  /\ CacheInv'
           /\ (\A m \in Metas : Vouched(m)) => \A m \in Metas' : Vouched(m)'
<1>1. PICK N : Brings(N)
  BY StepBrings
<1>2. Types /\ Busy /\ Later /\ Metas \subseteq Meta /\ \A m \in Metas : InTime(m)
  BY <1>1, MetasTyped DEF CacheInv, Brings
<1>3. \A m \in Metas' : m \in Meta /\ InTime(m)
  BY <1>1, <1>2 DEF Brings
<1>4. \A m \in Metas' : InTime(m)'
  BY <1>2, <1>3, InTimeKept
<1>5. ASSUME \A m \in Metas : Vouched(m)
      PROVE  \A m \in Metas' : Vouched(m)'
  <2>1. \A m \in Metas' : Vouched(m)
    BY <1>1, <1>5 DEF Brings
  <2> QED
    BY <1>2, <1>3, <2>1, VouchedKept
<1> QED
  BY <1>1, <1>4, <1>5 DEF CacheInv, Core, Brings

LEMMA CacheInvAlways == Spec => []CacheInv
<1>1. Init => CacheInv
  BY CacheInvInit
<1>2. CacheInv /\ [Next]_vars => CacheInv'
  BY CacheInvStep
<1> QED
  BY <1>1, <1>2, PTL DEF Spec

(***************************************************************************)
(* For any number of threads, keys, sessions and entries: while a store is *)
(* open every blob in its directory that is whole opens with its keys, and *)
(* the directory, redirects included, outgrows its limit, or what the      *)
(* session found, by no more than the puts and the redirects written since *)
(* an eviction (hc_open, put_locked, redirect_put_locked), through kills,  *)
(* power failures, failed opens and new profiles.                          *)
(***************************************************************************)
THEOREM DirectoryAlwaysSound == Spec => []DirectorySound
<1>1. CacheInv => DirectorySound
  BY DEF CacheInv, Keys, Readable, Room, DirectorySound, KeysCover
<1> QED
  BY <1>1, CacheInvAlways, PTL

LEMMA LifetimeTyped ==
    ASSUME NEW m \in Meta
    PROVE  Lifetime(m) \in Int
<1>1. /\ m.cc.maxage \in Int /\ m.expires \in Int /\ m.date \in Int /\ m.lm \in Int
      /\ m.stored \in Nat
  BY DEF Meta, CCRec
<1>2. MaxAgeCap \in Nat /\ HeurCap \in Nat /\ HeurDiv \in Nat \ {0}
  BY CacheAssumption
<1>3. \A a, b \in Int : Least(a, b) \in Int
  BY DEF Least
<1>4. PICK date \in Int : date = IF m.date = Absent THEN m.stored ELSE m.date
  BY <1>1
<1>5. PICK q \in Int, l \in Int : q = (date - m.lm) \div HeurDiv /\ l = m.expires - date
  BY <1>1, <1>2
<1>6. Least(m.cc.maxage, MaxAgeCap) \in Int /\ Least(l, MaxAgeCap) \in Int /\ Least(q, HeurCap) \in Int
  <2>1. MaxAgeCap \in Int /\ HeurCap \in Int
    BY <1>2
  <2> QED
    BY <1>1, <1>3, <2>1, Zenon
<1>7. Lifetime(m) \in {0, Least(m.cc.maxage, MaxAgeCap), Least(l, MaxAgeCap), Least(q, HeurCap)}
  BY <1>4, <1>5 DEF Lifetime
<1> QED
  BY <1>6, <1>7

LEMMA FreshInTime ==
    ASSUME clock \in Nat, NEW m \in Meta, InTime(m), Classify(m, clock) = "fresh"
    PROVE  clock - m.conf < Lifetime(m)
<1>1. m.stored \in Nat /\ m.conf \in Nat /\ Lifetime(m) \in Int
  BY LifetimeTyped DEF Meta
<1>2. Age(m, clock) < Lifetime(m)
  BY DEF Classify
<1>3. Age(m, clock) = clock - m.stored
  BY <1>1 DEF Age, InTime
<1> QED
  BY <1>1, <1>2, <1>3 DEF InTime

(***************************************************************************)
(* For any number of threads, sessions, addresses and headers, wherever    *)
(* addresses are redirected: an entry that the cache would serve without   *)
(* asking was sent or confirmed by its origin less than its lifetime ago   *)
(* (hc_classify), however long the answer and the put took.                *)
(***************************************************************************)
THEOREM FreshAlwaysTrue == Spec => []FreshTrue
<1>1. CacheInv => FreshTrue
  <2> SUFFICES ASSUME CacheInv PROVE FreshTrue
    OBVIOUS
  <2>1. clock \in Nat /\ Metas \subseteq Meta /\ \A m \in Metas : InTime(m)
    BY MetasTyped DEF CacheInv, Types
  <2> QED
    BY <2>1, MetasHave, FreshInTime DEF FreshTrue
<1> QED
  BY <1>1, CacheInvAlways, PTL

(***************************************************************************)
(* For any number of threads, sessions, addresses and headers, wherever    *)
(* addresses are redirected: an entry that the cache would serve without   *)
(* asking was sent or confirmed by its origin less than its lifetime ago,  *)
(* and its body is the version its origin vouched for (cf_get_with), with  *)
(* threads that revalidate and replace it while the origin changes; but    *)
(* for the entries of an address that was itself redirected since.         *)
(***************************************************************************)
THEOREM EntriesAlwaysTrue == Spec => []EntriesTrue
<1>1. Init => TruthInv
  BY CacheInvInit DEF TruthInv
<1>2. TruthInv /\ [Next]_vars => TruthInv'
  BY CacheInvStep DEF TruthInv
<1>3. TruthInv => EntryTrue
  <2> SUFFICES ASSUME TruthInv PROVE EntryTrue
    OBVIOUS
  <2>1. \A m \in Metas : Vouched(m)
    BY DEF TruthInv
  <2> QED
    BY <2>1, MetasHave DEF EntryTrue, Vouched, Backed
<1>4. FreshTrue /\ EntryTrue => EntriesTrue
  BY DEF EntriesTrue
<1> QED
  BY <1>1, <1>2, <1>3, <1>4, FreshAlwaysTrue, PTL DEF Spec

(***************************************************************************)
(* RedirectMemory.  A redirect that is remembered was sent by its origin:  *)
(* every entry, and every thread that carries one between its locks, agrees *)
(* with what the origin answers while that does not change, so the rest of *)
(* the way is as long with the memory as without it.                       *)
(***************************************************************************)

(* A set of numbers that is not empty has a least one, and from it induction. *)
LEMMA NatMin ==
    ASSUME NEW T \in SUBSET Nat, T # {}
    PROVE  \E x \in T : \A y \in T : x <= y
<1> DEFINE R == OpToRel(<, Nat)
<1>1. \A u, v \in Nat : u < v => <<u, v>> \in R
  BY DEF OpToRel
<1>2. IsWellFoundedOn(R, Nat)
  BY NatLessThanWellFounded
<1> HIDE DEF R
<1>3. PICK x \in T : \A y \in T : ~(<<y, x>> \in R)
  BY <1>2, WFMin
<1>4. \A y \in T : ~(y < x)
  BY <1>1, <1>3
<1>5. \A y \in T : x <= y
  BY <1>4
<1> QED
  BY <1>5

LEMMA Induction ==
    ASSUME NEW T \in SUBSET Nat, 0 \in T, \A n \in T : n + 1 \in T
    PROVE  T = Nat
<1> SUFFICES ASSUME T # Nat PROVE FALSE
  OBVIOUS
<1>1. PICK x \in Nat \ T : \A y \in Nat \ T : x <= y
  BY NatMin
<1>2. x # 0
  OBVIOUS
<1>3. x - 1 \in Nat /\ x - 1 \notin Nat \ T /\ (x - 1) + 1 = x
  BY <1>1, <1>2
<1> QED
  BY <1>3, <1>1

(* Where an address leads in n hops follows from where the next one leads in n - 1. *)
LEMMA LeadsIs ==
    ASSUME MaxRedirects \in Nat, NEW s
    PROVE  \A n \in 0 .. MaxRedirects, u \in Addresses :
              Redirects!Leads(s)[n][u] = IF s[u].is = "page" THEN "ok"
                               ELSE IF n = 0 THEN "too many" ELSE Redirects!Leads(s)[n - 1][s[u].to]
<1> DEFINE N == MaxRedirects
           R(x, k) == [u \in Addresses |-> IF s[u].is = "page" THEN "ok"
                                      ELSE IF k = 0 THEN "too many" ELSE x[s[u].to]]
<1>r. Redirects!Leads(s) = LET walk[n \in 0 .. N] == R(walk[n - 1], n) IN walk
  BY DEF Redirects!Leads
<1>n. N \in Nat
  OBVIOUS
<1>z. \A x, k : \A u \in Addresses : R(x, k)[u] = IF s[u].is = "page" THEN "ok"
                                             ELSE IF k = 0 THEN "too many" ELSE x[s[u].to]
  OBVIOUS
<1>0. \A x, y : R(x, 0) = R(y, 0)
  OBVIOUS
<1> HIDE DEF R, N
<1> DEFINE P(f, m) == f = [k \in 0 .. m |-> R(f[k - 1], k)]
           T == {m \in Nat : \E f : P(f, m)}
<1>1. 0 \in T
  <2> DEFINE first == R(0, 0)
             f == [k \in 0 .. 0 |-> first]
  <2>1. \A k \in 0 .. 0 : f[k] = R(f[k - 1], k)
    <3>1. \A k \in 0 .. 0 : k = 0 /\ f[k] = first
      OBVIOUS
    <3> HIDE DEF f
    <3> QED
      BY <1>0, <3>1
  <2>2. P(f, 0)
    BY <2>1
  <2> QED
    BY <2>2
<1>2. ASSUME NEW n \in T PROVE n + 1 \in T
  <2>1. PICK f : P(f, n)
    OBVIOUS
  <2>n. n \in Nat
    OBVIOUS
  <2> DEFINE last == R(f[n], n + 1)
             h == [k \in 0 .. n + 1 |-> IF k = n + 1 THEN last ELSE f[k]]
  <2>l. last = R(f[n], n + 1)
    OBVIOUS
  <2> HIDE DEF last
  <2>2. ASSUME NEW k \in 0 .. n + 1 PROVE h[k] = R(h[k - 1], k)
    <3>1. CASE k = 0
      <4>1. h[k] = f[0] /\ 0 \in 0 .. n
        BY <2>n, <3>1
      <4>2. f[0] = R(f[0 - 1], 0)
        BY <2>1, <4>1
      <4> QED
        BY <1>0, <3>1, <4>1, <4>2
    <3>2. CASE k = n + 1
      <4>1. h[k] = last /\ k - 1 \in 0 .. n + 1 /\ h[k - 1] = f[n]
        BY <2>n, <3>2
      <4> QED
        BY <4>1, <2>l, <3>2
    <3>3. CASE k # 0 /\ k # n + 1
      <4>1. k \in 0 .. n /\ k - 1 \in 0 .. n + 1 /\ k - 1 # n + 1
        BY <2>n, <3>3
      <4>2. h[k] = f[k] /\ h[k - 1] = f[k - 1]
        BY <4>1, <3>3
      <4>3. f[k] = R(f[k - 1], k)
        BY <2>1, <4>1
      <4> QED
        BY <4>2, <4>3
    <3> QED
      BY <3>1, <3>2, <3>3
  <2>3. P(h, n + 1)
    BY <2>2
  <2>4. n + 1 \in Nat
    BY <2>n
  <2> QED
    BY <2>3, <2>4
<1>3. T = Nat
  <2> HIDE DEF T
  <2>1. T \in SUBSET Nat
    BY DEF T
  <2> QED
    BY <1>1, <1>2, <2>1, Induction
<1>4. \E f : P(f, N)
  BY <1>3, <1>n
<1> DEFINE g == CHOOSE f : P(f, N)
<1>5. P(g, N)
  BY <1>4
<1>6. Redirects!Leads(s) = g
  BY <1>r
<1> HIDE DEF g
<1>7. ASSUME NEW k \in 0 .. N PROVE g[k] = R(g[k - 1], k)
  BY <1>5, <1>n
<1>8. ASSUME NEW k \in 0 .. N, NEW u \in Addresses
      PROVE  g[k][u] = IF s[u].is = "page" THEN "ok"
                       ELSE IF k = 0 THEN "too many" ELSE g[k - 1][s[u].to]
  <2> DEFINE x == g[k - 1]
  <2>1. g[k] = R(x, k)
    BY <1>7
  <2>2. R(x, k)[u] = IF s[u].is = "page" THEN "ok"
                     ELSE IF k = 0 THEN "too many" ELSE x[s[u].to]
    BY <1>z
  <2> QED
    BY <2>1, <2>2
<1> DEFINE l == Redirects!Leads(s)
<1>9. l = g
  BY <1>6
<1> HIDE DEF l
<1>10. \A n \in 0 .. N, u \in Addresses :
          l[n][u] = IF s[u].is = "page" THEN "ok"
                    ELSE IF n = 0 THEN "too many" ELSE l[n - 1][s[u].to]
  BY <1>8, <1>9
<1> QED
  BY <1>10 DEF N, l

-----------------------------------------------------------------------------
(* The inductive invariant. *)

Running == {"look", "disk", "keep", "ask", "put", "save"}
Knowing == {"keep", "put", "save"}
Hoping  == Knowing \cup {"disk"}

FetchRec == [pc : Running \cup {"idle", "done"},
             url : Addresses \cup {Redirects!NoUrl}, at : Addresses \cup {Redirects!NoUrl}, to : Addresses \cup {Redirects!NoUrl},
             hops : Nat, turns : Nat, t : Nat, born : Nat,
             res : {"none", "ok", "failed", "too many"}]
RamRec   == [used : BOOLEAN, from : Addresses \cup {Redirects!NoUrl}, to : Addresses \cup {Redirects!NoUrl},
             stored : Nat, born : Nat]
DiskRec  == [is : {"redirect"}, to : Addresses, stored : Nat, born : Nat]

RedirectTypes ==
    /\ site \in [Addresses -> Redirects!Answers]
    /\ next \in 1 .. Slots /\ now \in Nat /\ changes \in Nat /\ oldest \in Nat
    /\ rth \in [Threads -> FetchRec]
    /\ ram \in [1 .. Slots -> RamRec]
    /\ disk \in [Addresses -> DiskRec \cup {Redirects!NoEntry}]

(* What a fetch has at each point: a turn of the loop for each hop, a hop left while *)
(* the memory is asked or told, and on the disk an age within the lifetime.          *)
FetchOK(f) ==
    /\ f.pc \in Running => /\ f.url \in Addresses /\ f.at \in Addresses
                           /\ f.hops <= MaxRedirects /\ f.turns = f.hops + 1
    /\ f.pc \in Hoping => f.hops < MaxRedirects
    /\ f.pc \in Knowing => f.to \in Addresses
    /\ f.pc = "keep" => f.t - f.born <= DiskTtl
    /\ f.pc = "done" => f.url \in Addresses
    /\ f.pc \notin Running => f.turns = 0

RamOK(r) == r.used => r.from \in Addresses /\ r.to \in Addresses /\ r.stored - r.born <= DiskTtl

DiskOK(d) == d # Redirects!NoEntry => d.born = d.stored

Sound ==
    /\ \A t \in Threads : FetchOK(rth[t])
    /\ \A i \in 1 .. Slots : RamOK(ram[i])
    /\ \A u \in Addresses : DiskOK(disk[u])

Moved(s, u, v) == s[u].is = "moved" /\ s[u].to = v

(* What a fetch carries is what its address answers, and the rest of the way leads   *)
(* where the whole way does.                                                         *)
FetchTrue(f, s) ==
    /\ f.pc \in Knowing => Moved(s, f.at, f.to)
    /\ f.pc \in Running =>
          Redirects!Leads(s)[MaxRedirects][f.url] = Redirects!Leads(s)[MaxRedirects - f.hops][f.at]
    /\ f.pc = "done" => f.res \in {"failed", Redirects!Leads(s)[MaxRedirects][f.url]}

(* While nobody changes a redirect, neither memory holds anything but what is sent. *)
Agrees ==
    changes = 0 =>
        /\ \A t \in Threads : FetchTrue(rth[t], site)
        /\ \A i \in 1 .. Slots : ram[i].used => Moved(site, ram[i].from, ram[i].to)
        /\ \A u \in Addresses : disk[u] # Redirects!NoEntry => Moved(site, u, disk[u].to)

RedirectInv == RedirectTypes /\ Sound /\ Agrees /\ Redirects!Vouched

(* The constants are numbers. *)
LEMMA Bounds ==
    ASSUME Redirects!RedirectAssumption
    PROVE  Slots \in Nat /\ Slots # 0 /\ RamTtl \in Nat /\ DiskTtl \in Nat /\ MaxRedirects \in Nat
BY DEF Redirects!RedirectAssumption

(* The invariant at the start. *)
LEMMA InitRedirect ==
    ASSUME Redirects!RedirectAssumption, Redirects!Init
    PROVE  RedirectInv
<1> USE DEF Redirects!Init
<1>1. RedirectTypes
  <2>1. Redirects!Idle \in FetchRec
    BY DEF Redirects!Idle, FetchRec
  <2>2. Redirects!Empty \in RamRec
    BY DEF Redirects!Empty, RamRec
  <2> QED
    BY <2>1, <2>2, Bounds DEF RedirectTypes
<1>2. Sound
  BY DEF Sound, FetchOK, RamOK, DiskOK, Redirects!Idle, Redirects!Empty, Running, Knowing, Hoping
<1>3. Agrees
  BY DEF Agrees, FetchTrue, Redirects!Idle, Redirects!Empty, Running, Knowing
<1>4. Redirects!Vouched
  BY DEF Redirects!Vouched, Redirects!RedirectAssumption
<1> QED
  BY <1>1, <1>2, <1>3, <1>4 DEF RedirectInv

(* A thread at rest. *)
LEMMA IdleRec == Redirects!Idle \in FetchRec
BY DEF Redirects!Idle, FetchRec

(* A fetch that looks, at hop k. *)
LEMMA LookRec ==
    ASSUME MaxRedirects \in Nat, NEW u \in Addresses, NEW v \in Addresses, NEW k \in Nat, k <= MaxRedirects,
           NEW m \in Nat, m = k + 1,
           NEW h, h = [Redirects!Idle EXCEPT !.pc = "look", !.url = u, !.at = v, !.hops = k, !.turns = m]
    PROVE  h \in FetchRec /\ FetchOK(h)
<1>1. h \in FetchRec
  <2>1. u \in Addresses \cup {Redirects!NoUrl} /\ v \in Addresses \cup {Redirects!NoUrl}
    OBVIOUS
  <2>2. "look" \in Running \cup {"idle", "done"}
    BY DEF Running
  <2> QED
    BY <2>1, <2>2, IdleRec DEF FetchRec
<1>2. h.pc = "look" /\ h.url = u /\ h.at = v /\ h.hops = k /\ h.turns = m
  BY DEF Redirects!Idle
<1>3. FetchOK(h)
  BY <1>2 DEF FetchOK, Running, Knowing, Hoping
<1> QED
  BY <1>1, <1>3

(* A hop to where the address redirects. *)
LEMMA HopKeeps ==
    ASSUME Redirects!RedirectAssumption, NEW f \in FetchRec, FetchOK(f), f.pc \in Running,
           f.hops < MaxRedirects, NEW v \in Addresses
    PROVE  Redirects!Hop(f, v) \in FetchRec /\ FetchOK(Redirects!Hop(f, v))
<1>0. f.hops \in Nat
  BY DEF FetchRec
<1>1. f.url \in Addresses /\ f.turns = f.hops + 1
  BY DEF FetchOK
<1>2. f.hops + 1 \in Nat /\ f.hops + 1 <= MaxRedirects /\ MaxRedirects \in Nat
      /\ f.turns + 1 \in Nat /\ f.turns + 1 = (f.hops + 1) + 1
  BY <1>0, <1>1, Bounds
<1>3. Redirects!Hop(f, v) = [Redirects!Idle EXCEPT !.pc = "look", !.url = f.url, !.at = v, !.hops = f.hops + 1,
                               !.turns = f.turns + 1]
  BY DEF Redirects!Hop
<1> QED
  BY <1>1, <1>2, <1>3, LookRec, ZenonT(40)

(* and leads where asking leads. *)
LEMMA HopLeads ==
    ASSUME Redirects!RedirectAssumption, NEW f \in FetchRec, FetchOK(f), f.pc \in Running,
           f.hops < MaxRedirects, NEW v \in Addresses, NEW s, FetchTrue(f, s),
           s[f.at].is # "page", s[f.at].to = v
    PROVE  FetchTrue(Redirects!Hop(f, v), s)
<1> DEFINE n == MaxRedirects - f.hops
           h == Redirects!Hop(f, v)
           l == Redirects!Leads(s)
<1>1. n \in 0 .. MaxRedirects /\ n # 0 /\ n - 1 = MaxRedirects - (f.hops + 1)
  <2>1. f.hops \in Nat
    BY DEF FetchRec
  <2> QED
    BY <2>1, Bounds
<1>2. f.at \in Addresses
  BY DEF FetchOK
<1>3. l[n][f.at] = l[n - 1][v]
  BY <1>1, <1>2, LeadsIs DEF Redirects!RedirectAssumption
<1>4. h.pc = "look" /\ h.url = f.url /\ h.at = v /\ h.hops = f.hops + 1
  BY DEF Redirects!Hop, Redirects!Idle
<1>5. l[MaxRedirects][f.url] = l[n][f.at]
  BY DEF FetchTrue
<1> HIDE DEF h, l
<1>6. l[MaxRedirects][h.url] = l[MaxRedirects - h.hops][h.at]
  BY <1>1, <1>3, <1>4, <1>5
<1>7. h.pc \notin Knowing /\ h.pc # "done"
  BY <1>4 DEF Knowing
<1> QED
  BY <1>6, <1>7 DEF FetchTrue, h, l

(* The slot of an address holds its redirect. *)
LEMMA SlotIs ==
    ASSUME Redirects!RedirectAssumption, NEW u
    PROVE  /\ Redirects!SlotOf(u) \in 0 .. Slots
           /\ Redirects!SlotOf(u) # 0 => ram[Redirects!SlotOf(u)].used /\ ram[Redirects!SlotOf(u)].from = u
<1> DEFINE mine == {i \in 1 .. Slots : ram[i].used /\ ram[i].from = u}
<1>1. CASE mine = {}
  BY <1>1 DEF Redirects!SlotOf, Redirects!RedirectAssumption
<1>2. CASE mine # {}
  <2>1. mine \in SUBSET Nat
    OBVIOUS
  <2>2. \E x \in mine : \A y \in mine : x <= y
    BY <1>2, <2>1, NatMin
  <2>3. Redirects!Min(mine) \in mine
    BY <2>2 DEF Redirects!Min
  <2>4. Redirects!SlotOf(u) = Redirects!Min(mine)
    BY <1>2 DEF Redirects!SlotOf
  <2> QED
    BY <2>3, <2>4
<1> QED
  BY <1>1, <1>2

(* rcache_put_ram fills one slot. *)
LEMMA PutRamKeeps ==
    ASSUME Redirects!RedirectAssumption, ram \in [1 .. Slots -> RamRec], next \in 1 .. Slots,
           NEW from \in Addresses, NEW to \in Addresses, NEW t \in Nat, NEW b \in Nat, t - b <= DiskTtl,
           \A i \in 1 .. Slots : RamOK(ram[i]), Redirects!PutRam(from, to, t, b)
    PROVE  /\ ram' \in [1 .. Slots -> RamRec] /\ next' \in 1 .. Slots
           /\ \A i \in 1 .. Slots : RamOK(ram'[i])
           /\ \A i \in 1 .. Slots : ram'[i] = ram[i] \/ (ram'[i].from = from /\ ram'[i].to = to)
<1>1. CASE from = to
  BY <1>1 DEF Redirects!PutRam
<1>2. CASE from # to
  <2> DEFINE mine == Redirects!SlotOf(from)
             slot == IF mine # 0 THEN mine ELSE next
             r == [used |-> TRUE, from |-> from, to |-> to, stored |-> t, born |-> b]
  <2>1. ram' = [ram EXCEPT ![slot] = r] /\ next' = IF mine # 0 THEN next ELSE (next % Slots) + 1
    BY <1>2 DEF Redirects!PutRam
  <2>2. mine \in 0 .. Slots
    BY SlotIs
  <2> HIDE DEF mine
  <2>3. slot \in 1 .. Slots
    BY <2>2
  <2>4. next % Slots \in 0 .. Slots - 1
    BY DEF Redirects!RedirectAssumption
  <2>5. next' \in 1 .. Slots
    BY <2>1, <2>4 DEF Redirects!RedirectAssumption
  <2>6. r \in RamRec /\ RamOK(r) /\ r.from = from /\ r.to = to
    BY DEF RamRec, RamOK
  <2> HIDE DEF slot, r
  <2> QED
    BY <2>1, <2>3, <2>5, <2>6
<1> QED
  BY <1>1, <1>2

(* What a step must leave of the two memories. *)
RamKeeps ==
    /\ ram' \in [1 .. Slots -> RamRec] /\ next' \in 1 .. Slots
    /\ \A i \in 1 .. Slots : RamOK(ram'[i])
    /\ changes = 0 => \A i \in 1 .. Slots : ram'[i].used => Moved(site, ram'[i].from, ram'[i].to)

DiskKeeps ==
    /\ disk' \in [Addresses -> DiskRec \cup {Redirects!NoEntry}]
    /\ \A u \in Addresses : DiskOK(disk'[u])
    /\ changes = 0 => \A u \in Addresses : disk'[u] # Redirects!NoEntry => Moved(site, u, disk'[u].to)

(* Memories that do not change. *)
LEMMA RamStays == RedirectInv /\ UNCHANGED <<ram, next>> => RamKeeps
BY DEF RedirectInv, RedirectTypes, Sound, Agrees, RamKeeps

LEMMA DiskStays == RedirectInv /\ UNCHANGED disk => DiskKeeps
BY DEF RedirectInv, RedirectTypes, Sound, Agrees, DiskKeeps

(* A step of a thread that leaves it with f, and the memories with true redirects. *)
LEMMA ThreadStep ==
    ASSUME RedirectInv, NEW t \in Threads, NEW f \in FetchRec, FetchOK(f),
           changes = 0 => FetchTrue(f, site), rth' = [rth EXCEPT ![t] = f],
           RamKeeps, DiskKeeps, UNCHANGED <<site, now, changes>>,
           oldest' \in Nat, oldest' <= DiskTtl + RamTtl
    PROVE  RedirectInv'
<1>1. rth \in [Threads -> FetchRec] /\ site \in [Addresses -> Redirects!Answers] /\ now \in Nat /\ changes \in Nat
  BY DEF RedirectInv, RedirectTypes
<1>2. rth' \in [Threads -> FetchRec] /\ \A s \in Threads : rth'[s] = IF s = t THEN f ELSE rth[s]
  BY <1>1
<1>3. RedirectTypes'
  BY <1>1, <1>2 DEF RedirectTypes, RamKeeps, DiskKeeps
<1>4. Sound'
  BY <1>2 DEF RedirectInv, Sound, RamKeeps, DiskKeeps
<1>5. ASSUME changes' = 0, NEW s \in Threads PROVE FetchTrue(rth'[s], site)
  BY <1>2, <1>5 DEF RedirectInv, Agrees
<1>6. Agrees'
  <2>1. changes' = 0 => \A s \in Threads : FetchTrue(rth'[s], site')
    BY <1>5
  <2> QED
    BY <2>1 DEF Agrees, RamKeeps, DiskKeeps
<1>7. Redirects!Vouched'
  BY DEF Redirects!Vouched
<1> QED
  BY <1>3, <1>4, <1>6, <1>7 DEF RedirectInv

(* What the step of a thread starts from. *)
LEMMA ThreadHas ==
    ASSUME RedirectInv, NEW t \in Threads
    PROVE  /\ rth[t] \in FetchRec /\ FetchOK(rth[t]) /\ (changes = 0 => FetchTrue(rth[t], site))
           /\ oldest \in Nat /\ oldest <= DiskTtl + RamTtl /\ now \in Nat
           /\ \A u \in Addresses : site[u].is # "page" => site[u].to \in Addresses
<1>1. \A u \in Addresses : site[u] \in Redirects!Answers
  BY DEF RedirectInv, RedirectTypes
<1>2. \A u \in Addresses : site[u].is # "page" => site[u].to \in Addresses
  BY <1>1 DEF Redirects!Answers
<1> QED
  BY <1>2 DEF RedirectInv, RedirectTypes, Sound, Agrees, Redirects!Vouched

(* A change of a thread's point, its time and what it knows, within the same hop. *)
LEMMA SameHop ==
    ASSUME NEW f \in FetchRec, FetchOK(f), f.pc \in Running, NEW g \in FetchRec,
           g.pc \in Running, g.url = f.url, g.at = f.at, g.hops = f.hops, g.turns = f.turns,
           g.pc \in Hoping => f.hops < MaxRedirects,
           g.pc \in Knowing => g.to \in Addresses,
           g.pc = "keep" => g.t - g.born <= DiskTtl
    PROVE  /\ FetchOK(g)
           /\ \A s : FetchTrue(f, s) /\ (g.pc \in Knowing => Moved(s, g.at, g.to)) => FetchTrue(g, s)
<1>1. FetchOK(g)
  BY DEF FetchOK, Running
<1>2. ASSUME NEW s, FetchTrue(f, s), g.pc \in Knowing => Moved(s, g.at, g.to)
      PROVE  FetchTrue(g, s)
  BY <1>2 DEF FetchTrue, Running
<1> QED
  BY <1>1, <1>2

(* Each action keeps the invariant: a fetch begins at its own address, *)
LEMMA BeginKeeps ==
    ASSUME Redirects!RedirectAssumption, RedirectInv, NEW t \in Threads, NEW u \in Addresses, Redirects!Begin(t, u)
    PROVE  RedirectInv'
<1> DEFINE f == [Redirects!Idle EXCEPT !.pc = "look", !.url = u, !.at = u, !.turns = 1]
<1>0. MaxRedirects \in Nat
  BY Bounds
<1>1. f \in FetchRec
  <2>1. u \in Addresses \cup {Redirects!NoUrl} /\ "look" \in Running \cup {"idle", "done"}
    BY DEF Running
  <2> QED
    BY <2>1, IdleRec DEF FetchRec
<1>3. f.pc = "look" /\ f.url = u /\ f.at = u /\ f.hops = 0 /\ f.turns = 1
  BY DEF Redirects!Idle
<1> HIDE DEF f
<1>2. FetchOK(f)
  BY <1>0, <1>3 DEF FetchOK, Running, Knowing, Hoping
<1>4. FetchTrue(f, site)
  BY <1>0, <1>3 DEF FetchTrue, Knowing
<1>5. rth' = [rth EXCEPT ![t] = f]
  BY DEF Redirects!Begin, Redirects!Upd, f
<1>6. UNCHANGED <<site, ram, next, disk, now, changes, oldest>>
  BY DEF Redirects!Begin
<1>7. RamKeeps /\ DiskKeeps
  BY <1>6, RamStays, DiskStays
<1> QED
  BY <1>1, <1>2, <1>4, <1>5, <1>6, <1>7, ThreadStep, ThreadHas

(* asks the table, which may follow a redirect or drop one that is too old, *)
LEMMA LookKeeps ==
    ASSUME Redirects!RedirectAssumption, RedirectInv, NEW t \in Threads, Redirects!Look(t)
    PROVE  RedirectInv'
<1> DEFINE f == rth[t]
           i == Redirects!SlotOf(f.at)
<1>0. /\ f \in FetchRec /\ FetchOK(f) /\ (changes = 0 => FetchTrue(f, site))
      /\ oldest \in Nat /\ oldest <= DiskTtl + RamTtl /\ now \in Nat
  BY ThreadHas
<1>1. f.pc = "look" /\ UNCHANGED <<site, next, disk, now, changes, fetches>>
  BY DEF Redirects!Look
<1>2. f.pc \in Running /\ f.hops \in Nat
  BY <1>0, <1>1 DEF Running, FetchRec
<1>3. DiskKeeps
  BY <1>1, DiskStays
<1>4. ASSUME NEW g, g \in FetchRec, g.url = f.url, g.at = f.at, g.hops = f.hops, g.turns = f.turns,
             g.pc = "ask" \/ (g.pc = "disk" /\ f.hops < MaxRedirects)
      PROVE  FetchOK(g) /\ (changes = 0 => FetchTrue(g, site))
  <2>1. g.pc \in Running /\ g.pc \notin Knowing /\ (g.pc \in Hoping => f.hops < MaxRedirects) /\ g.pc # "keep"
    BY <1>4 DEF Running, Knowing, Hoping
  <2> QED
    BY <1>0, <1>2, <1>4, <2>1, SameHop
<1>5. CASE ~Redirects!MayLook(f)
  <2> DEFINE g == [f EXCEPT !.pc = "ask"]
  <2>1. rth' = [rth EXCEPT ![t] = g] /\ UNCHANGED <<ram, oldest>>
    BY <1>1, <1>5 DEF Redirects!Look, Redirects!Upd
  <2>2. g \in FetchRec /\ g.url = f.url /\ g.at = f.at /\ g.hops = f.hops /\ g.turns = f.turns /\ g.pc = "ask"
    BY <1>0 DEF FetchRec, Running
  <2> HIDE DEF g
  <2>3. RamKeeps
    BY <1>1, <2>1, RamStays
  <2> QED
    BY <1>0, <1>1, <1>3, <1>4, <2>1, <2>2, <2>3, ThreadStep
<1>6. ASSUME NEW g, g = [f EXCEPT !.pc = "disk", !.t = now], Redirects!MayLook(f)
      PROVE  g \in FetchRec /\ FetchOK(g) /\ (changes = 0 => FetchTrue(g, site))
  <2>1. g \in FetchRec /\ g.url = f.url /\ g.at = f.at /\ g.hops = f.hops /\ g.turns = f.turns /\ g.pc = "disk"
    BY <1>0, <1>6 DEF FetchRec, Running
  <2> QED
    BY <1>4, <1>6, <2>1 DEF Redirects!MayLook
<1>7. CASE Redirects!MayLook(f) /\ i = 0
  <2> DEFINE g == [f EXCEPT !.pc = "disk", !.t = now]
  <2>1. rth' = [rth EXCEPT ![t] = g] /\ UNCHANGED <<ram, oldest>>
    BY <1>1, <1>7 DEF Redirects!Look, Redirects!Upd
  <2>3. RamKeeps
    BY <1>1, <2>1, RamStays
  <2>2. g \in FetchRec /\ FetchOK(g) /\ (changes = 0 => FetchTrue(g, site))
    BY <1>6, <1>7
  <2> HIDE DEF g
  <2> QED
    BY <1>0, <1>1, <1>3, <2>1, <2>2, <2>3, ThreadStep
<1>8. CASE Redirects!MayLook(f) /\ i # 0 /\ now - ram[i].stored > RamTtl
  <2> DEFINE g == [f EXCEPT !.pc = "disk", !.t = now]
  <2>1. rth' = [rth EXCEPT ![t] = g] /\ ram' = [ram EXCEPT ![i] = Redirects!Empty] /\ UNCHANGED oldest
    BY <1>1, <1>8 DEF Redirects!Look, Redirects!Upd
  <2>2. g \in FetchRec /\ FetchOK(g) /\ (changes = 0 => FetchTrue(g, site))
    BY <1>6, <1>8
  <2> HIDE DEF g
  <2>3. Redirects!Empty \in RamRec /\ RamOK(Redirects!Empty) /\ ~Redirects!Empty.used
    BY DEF Redirects!Empty, RamRec, RamOK
  <2>4. RamKeeps
    BY <1>1, <2>1, <2>3 DEF RamKeeps, RedirectInv, RedirectTypes, Sound, Agrees
  <2> QED
    BY <1>0, <1>1, <1>3, <2>1, <2>2, <2>4, ThreadStep
<1>9. CASE Redirects!MayLook(f) /\ i # 0 /\ ~(now - ram[i].stored > RamTtl)
  <2> DEFINE g == Redirects!Hop(f, ram[i].to)
  <2>1. rth' = [rth EXCEPT ![t] = g] /\ Redirects!Remembered(ram[i].born) /\ UNCHANGED ram
    BY <1>1, <1>9 DEF Redirects!Look, Redirects!Upd
  <2>2. i \in 1 .. Slots /\ ram[i].used /\ ram[i].from = f.at
    BY <1>9, SlotIs
  <2> HIDE DEF i
  <2>3. ram[i] \in RamRec /\ RamOK(ram[i]) /\ (changes = 0 => Moved(site, f.at, ram[i].to))
    BY <2>2 DEF RedirectInv, RedirectTypes, Sound, Agrees
  <2>4. ram[i].to \in Addresses /\ ram[i].stored - ram[i].born <= DiskTtl
    BY <2>2, <2>3 DEF RamOK
  <2>5. f.hops < MaxRedirects
    BY <1>9 DEF Redirects!MayLook
  <2>6. g \in FetchRec /\ FetchOK(g)
    BY <1>0, <1>2, <2>4, <2>5, HopKeeps
  <2>7. changes = 0 => FetchTrue(g, site)
    <3> SUFFICES ASSUME changes = 0 PROVE FetchTrue(g, site)
      OBVIOUS
    <3>1. site[f.at].is # "page" /\ site[f.at].to = ram[i].to
      BY <2>3 DEF Moved
    <3> QED
      BY <1>0, <1>2, <2>4, <2>5, <3>1, HopLeads
  <2>8. ram[i].stored \in Nat /\ ram[i].born \in Nat
    BY <2>3 DEF RamRec
  <2>9. oldest' \in Nat /\ oldest' <= DiskTtl + RamTtl
    BY <1>0, <1>9, <2>1, <2>4, <2>8, Bounds DEF Redirects!Remembered, i
  <2>10. RamKeeps
    BY <1>1, <2>1, RamStays
  <2> HIDE DEF g
  <2> QED
    BY <1>0, <1>1, <1>3, <2>1, <2>6, <2>7, <2>9, <2>10, ThreadStep
<1> QED
  BY <1>5, <1>7, <1>8, <1>9

(* The table stays true when the origin sent what is put. *)
LEMMA PutTrue ==
    ASSUME Redirects!RedirectAssumption, RedirectInv, NEW from \in Addresses, NEW to \in Addresses, NEW t \in Nat,
           NEW b \in Nat, t - b <= DiskTtl, Redirects!PutRam(from, to, t, b),
           changes = 0 => Moved(site, from, to)
    PROVE  RamKeeps
<1>1. ram \in [1 .. Slots -> RamRec] /\ next \in 1 .. Slots /\ \A i \in 1 .. Slots : RamOK(ram[i])
  BY DEF RedirectInv, RedirectTypes, Sound
<1>2. /\ ram' \in [1 .. Slots -> RamRec] /\ next' \in 1 .. Slots
      /\ \A i \in 1 .. Slots : RamOK(ram'[i])
      /\ \A i \in 1 .. Slots : ram'[i] = ram[i] \/ (ram'[i].from = from /\ ram'[i].to = to)
  BY <1>1, PutRamKeeps
<1>3. changes = 0 => \A i \in 1 .. Slots : ram[i].used => Moved(site, ram[i].from, ram[i].to)
  BY DEF RedirectInv, Agrees
<1> QED
  BY <1>2, <1>3 DEF RamKeeps

(* A fetch that is over. *)
LEMMA DoneRec ==
    ASSUME NEW f, f.url \in Addresses, NEW r \in {"ok", "failed", "too many"}
    PROVE  /\ Redirects!Done(f, r) \in FetchRec /\ FetchOK(Redirects!Done(f, r))
           /\ Redirects!Done(f, r).pc = "done" /\ Redirects!Done(f, r).res = r /\ Redirects!Done(f, r).url = f.url
<1> DEFINE g == Redirects!Done(f, r)
<1>1. g \in FetchRec
  BY IdleRec DEF Redirects!Done, FetchRec
<1>2. g.pc = "done" /\ g.res = r /\ g.url = f.url /\ g.turns = 0
  BY DEF Redirects!Done, Redirects!Idle
<1> HIDE DEF g
<1>3. FetchOK(g)
  BY <1>2 DEF FetchOK, Running, Knowing, Hoping
<1> QED
  BY <1>1, <1>2, <1>3 DEF g

(* and the sealed cache behind it, *)
LEMMA LoadKeeps ==
    ASSUME Redirects!RedirectAssumption, RedirectInv, NEW t \in Threads, Redirects!Load(t)
    PROVE  RedirectInv'
<1> DEFINE f == rth[t]
<1>0. /\ f \in FetchRec /\ FetchOK(f) /\ (changes = 0 => FetchTrue(f, site))
      /\ oldest \in Nat /\ oldest <= DiskTtl + RamTtl /\ now \in Nat
  BY ThreadHas
<1>1. f.pc = "disk" /\ UNCHANGED <<site, ram, next, now, changes, fetches, oldest>>
  BY DEF Redirects!Load
<1>2. f.pc \in Running /\ f.at \in Addresses /\ f.hops < MaxRedirects /\ f.t \in Nat
  BY <1>0, <1>1 DEF Running, Hoping, FetchRec, FetchOK
<1>3. RamKeeps
  BY <1>1, RamStays
<1>4. CASE Redirects!OnDisk(f.at, f.t)
  <2> DEFINE d == disk[f.at]
             g == [f EXCEPT !.pc = "keep", !.to = d.to, !.born = d.born]
  <2>1. rth' = [rth EXCEPT ![t] = g] /\ UNCHANGED disk
    BY <1>1, <1>4 DEF Redirects!Load, Redirects!Upd
  <2>2. d # Redirects!NoEntry /\ f.t - d.stored <= DiskTtl
    BY <1>4 DEF Redirects!OnDisk, Redirects!NoEntry
  <2>3. d \in DiskRec /\ d.born = d.stored /\ (changes = 0 => Moved(site, f.at, d.to))
    BY <1>2, <2>2 DEF RedirectInv, RedirectTypes, Sound, DiskOK, Agrees
  <2> HIDE DEF d
  <2>4. d.to \in Addresses /\ d.born \in Nat
    BY <2>3 DEF DiskRec
  <2>5. g.url = f.url /\ g.at = f.at /\ g.hops = f.hops /\ g.turns = f.turns
        /\ g.pc = "keep" /\ g.to = d.to /\ g.t = f.t /\ g.born = d.born
    BY <1>0 DEF FetchRec
  <2>6. g \in FetchRec
    <3>1. d.to \in Addresses \cup {Redirects!NoUrl} /\ "keep" \in Running \cup {"idle", "done"}
      BY <2>4 DEF Running
    <3> QED
      BY <1>0, <2>4, <3>1 DEF FetchRec
  <2> HIDE DEF g
  <2>7. g.pc \in Running
    BY <2>5 DEF Running
  <2>8. FetchOK(g) /\ (changes = 0 => FetchTrue(g, site))
    BY <1>0, <1>2, <2>2, <2>3, <2>4, <2>5, <2>6, <2>7, SameHop
  <2>9. DiskKeeps
    BY <2>1, DiskStays
  <2> QED
    BY <1>0, <1>1, <1>3, <2>1, <2>6, <2>8, <2>9, ThreadStep
<1>5. CASE ~Redirects!OnDisk(f.at, f.t)
  <2> DEFINE g == [f EXCEPT !.pc = "ask", !.t = 0]
  <2>1. rth' = [rth EXCEPT ![t] = g] /\ disk' = [disk EXCEPT ![f.at] = Redirects!NoEntry]
    BY <1>1, <1>5 DEF Redirects!Load, Redirects!Upd
  <2>2. g \in FetchRec /\ g.url = f.url /\ g.at = f.at /\ g.hops = f.hops /\ g.turns = f.turns /\ g.pc = "ask"
    BY <1>0 DEF FetchRec, Running
  <2> HIDE DEF g
  <2>3. g.pc \in Running /\ g.pc \notin Knowing /\ g.pc \notin Hoping /\ g.pc # "keep"
    BY <2>2 DEF Running, Knowing, Hoping
  <2>4. FetchOK(g) /\ (changes = 0 => FetchTrue(g, site))
    BY <1>0, <1>2, <2>2, <2>3, SameHop
  <2>5. DiskKeeps
    <3>1. disk \in [Addresses -> DiskRec \cup {Redirects!NoEntry}]
      BY DEF RedirectInv, RedirectTypes
    <3>2. disk' \in [Addresses -> DiskRec \cup {Redirects!NoEntry}]
          /\ \A u \in Addresses : disk'[u] = IF u = f.at THEN Redirects!NoEntry ELSE disk[u]
      BY <1>2, <2>1, <3>1
    <3> QED
      BY <3>2 DEF DiskKeeps, RedirectInv, Sound, Agrees, DiskOK
  <2> QED
    BY <1>0, <1>1, <1>3, <2>1, <2>2, <2>4, <2>5, ThreadStep
<1> QED
  BY <1>4, <1>5

(* whose redirect goes to the table and is followed; *)
LEMMA KeepKeeps ==
    ASSUME Redirects!RedirectAssumption, RedirectInv, NEW t \in Threads, Redirects!Keep(t)
    PROVE  RedirectInv'
<1> DEFINE f == rth[t]
           g == Redirects!Hop(f, f.to)
<1>0. /\ f \in FetchRec /\ FetchOK(f) /\ (changes = 0 => FetchTrue(f, site))
      /\ oldest \in Nat /\ oldest <= DiskTtl + RamTtl /\ now \in Nat
  BY ThreadHas
<1>1. /\ f.pc = "keep" /\ UNCHANGED <<site, disk, now, changes, fetches>>
      /\ Redirects!PutRam(f.at, f.to, f.t, f.born) /\ rth' = [rth EXCEPT ![t] = g]
      /\ oldest' = IF f.t - f.born > oldest THEN f.t - f.born ELSE oldest
  BY DEF Redirects!Keep, Redirects!Upd
<1>2. /\ f.pc \in Running /\ f.at \in Addresses /\ f.to \in Addresses /\ f.hops < MaxRedirects
      /\ f.t - f.born <= DiskTtl
  BY <1>0, <1>1 DEF Running, Hoping, Knowing, FetchOK
<1>3. f.t \in Nat /\ f.born \in Nat
  BY <1>0 DEF FetchRec
<1>4. changes = 0 => Moved(site, f.at, f.to)
  BY <1>0, <1>1 DEF FetchTrue, Knowing
<1>5. g \in FetchRec /\ FetchOK(g)
  BY <1>0, <1>2, HopKeeps
<1>6. changes = 0 => FetchTrue(g, site)
  <2> SUFFICES ASSUME changes = 0 PROVE FetchTrue(g, site)
    OBVIOUS
  <2>1. site[f.at].is # "page" /\ site[f.at].to = f.to
    BY <1>4 DEF Moved
  <2> QED
    BY <1>0, <1>2, <2>1, HopLeads
<1>7. RamKeeps
  BY <1>1, <1>2, <1>3, <1>4, PutTrue
<1>8. oldest' \in Nat /\ oldest' <= DiskTtl + RamTtl
  BY <1>0, <1>1, <1>2, <1>3, Bounds
<1>9. DiskKeeps
  BY <1>1, DiskStays
<1> HIDE DEF f, g
<1> QED
  BY <1>1, <1>5, <1>6, <1>7, <1>8, <1>9, ThreadStep

(* the request fails, *)
LEMMA FailKeeps ==
    ASSUME Redirects!RedirectAssumption, RedirectInv, NEW t \in Threads, Redirects!Fail(t)
    PROVE  RedirectInv'
<1> DEFINE f == rth[t]
           g == Redirects!Done(f, "failed")
<1>0. /\ f \in FetchRec /\ FetchOK(f) /\ oldest \in Nat /\ oldest <= DiskTtl + RamTtl
  BY ThreadHas
<1>1. /\ f.pc = "ask" /\ UNCHANGED <<site, ram, next, disk, now, changes, fetches, oldest>>
      /\ rth' = [rth EXCEPT ![t] = g]
  BY DEF Redirects!Fail, Redirects!Upd
<1>2. f.url \in Addresses
  BY <1>0, <1>1 DEF Running, FetchOK
<1>3. g \in FetchRec /\ FetchOK(g) /\ g.pc = "done" /\ g.res = "failed"
  BY <1>2, DoneRec
<1>4. FetchTrue(g, site)
  BY <1>3 DEF FetchTrue, Running, Knowing
<1>5. RamKeeps /\ DiskKeeps
  BY <1>1, RamStays, DiskStays
<1> HIDE DEF f, g
<1> QED
  BY <1>0, <1>1, <1>3, <1>4, <1>5, ThreadStep

(* (the last two branches of Ask) *)
LEMMA CaseIs ==
    ASSUME NEW A, NEW B, NEW C, NEW e1, NEW e2, NEW e3, NEW e4, ~A, ~C
    PROVE  /\ B => (CASE A -> e1 [] B -> e2 [] C -> e3 [] OTHER -> e4) = e2
           /\ ~B => (CASE A -> e1 [] B -> e2 [] C -> e3 [] OTHER -> e4) = e4
OBVIOUS

(* or the origin answers: a page, a hop, or one hop too many; *)
LEMMA AskKeeps ==
    ASSUME Redirects!RedirectAssumption, RedirectInv, NEW t \in Threads, Redirects!Ask(t)
    PROVE  RedirectInv'
<1> DEFINE f == rth[t]
           a == site[f.at]
           m == Redirects!Leads(site)
<1>0. /\ f \in FetchRec /\ FetchOK(f) /\ (changes = 0 => FetchTrue(f, site))
      /\ oldest \in Nat /\ oldest <= DiskTtl + RamTtl /\ now \in Nat
      /\ \A u \in Addresses : site[u].is # "page" => site[u].to \in Addresses
  BY ThreadHas
<1>1. f.pc = "ask" /\ UNCHANGED <<site, ram, next, disk, now, changes, fetches, oldest>>
  BY DEF Redirects!Ask
<1>2. /\ f.pc \in Running /\ f.at \in Addresses /\ f.url \in Addresses /\ f.hops <= MaxRedirects
      /\ (a.is # "page" => a.to \in Addresses)
  BY <1>0, <1>1 DEF Running, FetchOK
<1>3. f.hops \in Nat /\ MaxRedirects \in Nat
  BY <1>0, Bounds DEF FetchRec
<1>4. RamKeeps /\ DiskKeeps
  BY <1>1, RamStays, DiskStays
<1>5. MaxRedirects - f.hops \in 0 .. MaxRedirects
  BY <1>2, <1>3
<1>6. changes = 0 => m[MaxRedirects][f.url] = m[MaxRedirects - f.hops][f.at]
  BY <1>0, <1>2 DEF FetchTrue
<1>7. m[MaxRedirects - f.hops][f.at] =
        IF a.is = "page" THEN "ok" ELSE IF MaxRedirects - f.hops = 0 THEN "too many"
        ELSE m[(MaxRedirects - f.hops) - 1][a.to]
  BY <1>2, <1>3, <1>5, LeadsIs
<1>8. ASSUME NEW r \in {"ok", "too many"}, rth' = [rth EXCEPT ![t] = Redirects!Done(f, r)],
             m[MaxRedirects - f.hops][f.at] = r
      PROVE  RedirectInv'
  <2> DEFINE g == Redirects!Done(f, r)
  <2>r. r \in {"ok", "failed", "too many"}
    OBVIOUS
  <2>1. g \in FetchRec /\ FetchOK(g) /\ g.pc = "done" /\ g.res = r /\ g.url = f.url
    BY <1>2, <2>r, DoneRec
  <2> HIDE DEF g, m
  <2>2. changes = 0 => g.res \in {"failed", m[MaxRedirects][g.url]}
    BY <1>6, <1>8, <2>1
  <2>3. changes = 0 => FetchTrue(g, site)
    BY <2>1, <2>2 DEF FetchTrue, Running, Knowing, m
  <2> QED
    BY <1>0, <1>1, <1>4, <1>8, <2>1, <2>3, ThreadStep DEF g
<1>9. CASE a.is = "page"
  <2>1. rth' = [rth EXCEPT ![t] = Redirects!Done(f, "ok")]
    BY <1>1, <1>9 DEF Redirects!Ask, Redirects!Upd
  <2> QED
    BY <1>7, <1>8, <1>9, <2>1
<1>10. CASE a.is # "page" /\ f.hops >= MaxRedirects
  <2>0. ~(a.is = "page") /\ (a.is # "page" /\ f.hops >= MaxRedirects)
        /\ ~(a.is = "found" /\ f.hops < MaxRedirects)
    BY <1>2, <1>3, <1>10
  <2>1. rth' = [rth EXCEPT ![t] = Redirects!Done(f, "too many")]
    BY <2>0, CaseIs DEF Redirects!Ask, Redirects!Upd
  <2>2. MaxRedirects - f.hops = 0
    BY <1>2, <1>3, <1>10
  <2>3. m[MaxRedirects - f.hops][f.at] = "too many"
    BY <1>7, <1>10, <2>2
  <2> QED
    BY <1>8, <2>1, <2>3
<1>11. CASE a.is = "found" /\ f.hops < MaxRedirects
  <2> DEFINE g == Redirects!Hop(f, a.to)
  <2>1. rth' = [rth EXCEPT ![t] = g]
    BY <1>1, <1>3, <1>11 DEF Redirects!Ask, Redirects!Upd
  <2>2. g \in FetchRec /\ FetchOK(g)
    BY <1>0, <1>2, <1>11, HopKeeps
  <2>3. changes = 0 => FetchTrue(g, site)
    <3> SUFFICES ASSUME changes = 0 PROVE FetchTrue(g, site)
      OBVIOUS
    <3>1. site[f.at].is # "page"
      BY <1>11
    <3> QED
      BY <1>0, <1>2, <1>11, <3>1, HopLeads
  <2> HIDE DEF g
  <2> QED
    BY <1>0, <1>1, <1>4, <2>1, <2>2, <2>3, ThreadStep
<1>12. CASE a.is # "page" /\ a.is # "found" /\ f.hops < MaxRedirects
  <2> DEFINE g == [f EXCEPT !.pc = "put", !.to = a.to]
  <2>0. ~(a.is = "page") /\ ~(a.is # "page" /\ f.hops >= MaxRedirects)
        /\ ~(a.is = "found" /\ f.hops < MaxRedirects)
    BY <1>2, <1>3, <1>12
  <2>1. rth' = [rth EXCEPT ![t] = g]
    BY <2>0, CaseIs DEF Redirects!Ask, Redirects!Upd
  <2>2. a.to \in Addresses /\ a.is = "moved"
    <3>1. a \in Redirects!Answers
      BY <1>2 DEF RedirectInv, RedirectTypes
    <3> QED
      BY <1>12, <3>1 DEF Redirects!Answers
  <2> HIDE DEF a
  <2>3. g.url = f.url /\ g.at = f.at /\ g.hops = f.hops /\ g.turns = f.turns /\ g.pc = "put" /\ g.to = a.to
    BY <1>0 DEF FetchRec
  <2>4. g \in FetchRec
    <3>1. a.to \in Addresses \cup {Redirects!NoUrl} /\ "put" \in Running \cup {"idle", "done"}
      BY <2>2 DEF Running
    <3> QED
      BY <1>0, <3>1 DEF FetchRec
  <2> HIDE DEF g
  <2>5. g.pc \in Running /\ g.pc # "keep"
    BY <2>3 DEF Running
  <2>6. Moved(site, g.at, g.to)
    BY <2>2, <2>3 DEF Moved, a
  <2>7. FetchOK(g) /\ (changes = 0 => FetchTrue(g, site))
    BY <1>0, <1>2, <1>12, <2>2, <2>3, <2>4, <2>5, <2>6, SameHop
  <2> QED
    BY <1>0, <1>1, <1>4, <2>1, <2>4, <2>7, ThreadStep
<1> QED
  BY <1>2, <1>3, <1>9, <1>10, <1>11, <1>12

(* a permanent redirect is put in the table *)
LEMMA TablePutKeeps ==
    ASSUME Redirects!RedirectAssumption, RedirectInv, NEW t \in Threads, Redirects!Put(t)
    PROVE  RedirectInv'
<1> DEFINE f == rth[t]
<1>0. /\ f \in FetchRec /\ FetchOK(f) /\ (changes = 0 => FetchTrue(f, site))
      /\ oldest \in Nat /\ oldest <= DiskTtl + RamTtl /\ now \in Nat
  BY ThreadHas
<1>1. /\ f.pc = "put" /\ UNCHANGED <<site, disk, now, changes, fetches, oldest>>
      /\ Redirects!PutRam(f.at, f.to, now, now)
      /\ rth' = [rth EXCEPT ![t] = IF f.at = f.to THEN Redirects!Hop(f, f.to)
                                  ELSE [f EXCEPT !.pc = "save", !.t = now]]
  BY DEF Redirects!Put, Redirects!Upd
<1>2. f.pc \in Running /\ f.at \in Addresses /\ f.to \in Addresses /\ f.hops < MaxRedirects
  BY <1>0, <1>1 DEF Running, Hoping, Knowing, FetchOK
<1>3. now - now <= DiskTtl
  BY <1>0, Bounds
<1>4. changes = 0 => Moved(site, f.at, f.to)
  BY <1>0, <1>1 DEF FetchTrue, Knowing
<1>5. RamKeeps
  BY <1>0, <1>1, <1>2, <1>3, <1>4, PutTrue
<1>6. DiskKeeps
  BY <1>1, DiskStays
<1>7. CASE f.at = f.to
  <2> DEFINE g == Redirects!Hop(f, f.to)
  <2>1. g \in FetchRec /\ FetchOK(g)
    BY <1>0, <1>2, HopKeeps
  <2>2. changes = 0 => FetchTrue(g, site)
    <3> SUFFICES ASSUME changes = 0 PROVE FetchTrue(g, site)
      OBVIOUS
    <3>1. site[f.at].is # "page" /\ site[f.at].to = f.to
      BY <1>4 DEF Moved
    <3> QED
      BY <1>0, <1>2, <3>1, HopLeads
  <2>3. rth' = [rth EXCEPT ![t] = g]
    BY <1>1, <1>7
  <2> HIDE DEF g
  <2> QED
    BY <1>0, <1>1, <1>5, <1>6, <2>1, <2>2, <2>3, ThreadStep
<1>8. CASE f.at # f.to
  <2> DEFINE g == [f EXCEPT !.pc = "save", !.t = now]
  <2>1. rth' = [rth EXCEPT ![t] = g]
    BY <1>1, <1>8
  <2>3. g.url = f.url /\ g.at = f.at /\ g.hops = f.hops /\ g.turns = f.turns /\ g.pc = "save" /\ g.to = f.to
    BY <1>0 DEF FetchRec
  <2>4. g \in FetchRec
    BY <1>0 DEF FetchRec, Running
  <2> HIDE DEF g
  <2>5. g.pc \in Running /\ g.pc # "keep"
    BY <2>3 DEF Running
  <2>7. FetchOK(g) /\ (changes = 0 => FetchTrue(g, site))
    BY <1>0, <1>2, <1>4, <2>3, <2>4, <2>5, SameHop
  <2> QED
    BY <1>0, <1>1, <1>5, <1>6, <2>1, <2>4, <2>7, ThreadStep
<1> QED
  BY <1>7, <1>8

(* and on the disk, and is followed; *)
LEMMA SaveKeeps ==
    ASSUME Redirects!RedirectAssumption, RedirectInv, NEW t \in Threads, Redirects!Save(t)
    PROVE  RedirectInv'
<1> DEFINE f == rth[t]
           g == Redirects!Hop(f, f.to)
           d == [is |-> "redirect", to |-> f.to, stored |-> f.t, born |-> f.t]
<1>0. /\ f \in FetchRec /\ FetchOK(f) /\ (changes = 0 => FetchTrue(f, site))
      /\ oldest \in Nat /\ oldest <= DiskTtl + RamTtl /\ now \in Nat
  BY ThreadHas
<1>1. /\ f.pc = "save" /\ UNCHANGED <<site, ram, next, now, changes, fetches, oldest>>
      /\ disk' = [disk EXCEPT ![f.at] = d] /\ rth' = [rth EXCEPT ![t] = g]
  BY DEF Redirects!Save, Redirects!Upd
<1>2. f.pc \in Running /\ f.at \in Addresses /\ f.to \in Addresses /\ f.hops < MaxRedirects
  BY <1>0, <1>1 DEF Running, Hoping, Knowing, FetchOK
<1>3. f.t \in Nat
  BY <1>0 DEF FetchRec
<1>4. changes = 0 => Moved(site, f.at, f.to)
  BY <1>0, <1>1 DEF FetchTrue, Knowing
<1>5. g \in FetchRec /\ FetchOK(g)
  BY <1>0, <1>2, HopKeeps
<1>6. changes = 0 => FetchTrue(g, site)
  <2> SUFFICES ASSUME changes = 0 PROVE FetchTrue(g, site)
    OBVIOUS
  <2>1. site[f.at].is # "page" /\ site[f.at].to = f.to
    BY <1>4 DEF Moved
  <2> QED
    BY <1>0, <1>2, <2>1, HopLeads
<1>7. RamKeeps
  BY <1>1, RamStays
<1>8. d \in DiskRec /\ DiskOK(d) /\ d.to = f.to
  BY <1>2, <1>3 DEF DiskRec, DiskOK
<1>9. DiskKeeps
  <2> HIDE DEF d
  <2>1. disk \in [Addresses -> DiskRec \cup {Redirects!NoEntry}]
    BY DEF RedirectInv, RedirectTypes
  <2>2. disk' \in [Addresses -> DiskRec \cup {Redirects!NoEntry}]
        /\ \A u \in Addresses : disk'[u] = IF u = f.at THEN d ELSE disk[u]
    BY <1>1, <1>2, <1>8, <2>1
  <2> QED
    BY <1>4, <1>8, <2>2 DEF DiskKeeps, RedirectInv, Sound, Agrees
<1> HIDE DEF f, g
<1> QED
  BY <1>0, <1>1, <1>5, <1>6, <1>7, <1>9, ThreadStep

(* the fetch returns. *)
LEMMA ReturnKeeps ==
    ASSUME Redirects!RedirectAssumption, RedirectInv, NEW t \in Threads, Redirects!Return(t)
    PROVE  RedirectInv'
<1>1. /\ UNCHANGED <<site, ram, next, disk, now, changes, fetches, oldest>>
      /\ rth' = [rth EXCEPT ![t] = Redirects!Idle]
  BY DEF Redirects!Return, Redirects!Upd
<1>2. FetchOK(Redirects!Idle) /\ FetchTrue(Redirects!Idle, site)
  BY DEF Redirects!Idle, FetchOK, FetchTrue, Running, Knowing, Hoping
<1>3. RamKeeps /\ DiskKeeps
  BY <1>1, RamStays, DiskStays
<1> QED
  BY <1>1, <1>2, <1>3, IdleRec, ThreadHas, ThreadStep

(* Time, a new session, an entry lost, and an origin that changes its mind. *)
LEMMA AroundKeeps ==
    ASSUME Redirects!RedirectAssumption, RedirectInv,
           \/ Redirects!Tick \/ Redirects!Restart \/ UNCHANGED Redirects!vars
           \/ \E u \in Addresses : Redirects!Lose(u)
           \/ \E u \in Addresses, a \in Redirects!Answers : Redirects!Change(u, a)
    PROVE  RedirectInv'
<1>1. CASE Redirects!Tick \/ UNCHANGED Redirects!vars
  <2>1. UNCHANGED <<site, rth, ram, next, disk, changes, oldest>> /\ now' \in Nat
    BY <1>1 DEF Redirects!Tick, Redirects!vars, RedirectInv, RedirectTypes
  <2> QED
    BY <2>1 DEF RedirectInv, RedirectTypes, Sound, Agrees, Redirects!Vouched
<1>2. ASSUME NEW u \in Addresses, NEW a \in Redirects!Answers, Redirects!Change(u, a) PROVE RedirectInv'
  <2>1. UNCHANGED <<rth, ram, next, disk, now, oldest>> /\ changes' = changes + 1
        /\ site' = [site EXCEPT ![u] = a]
    BY <1>2 DEF Redirects!Change
  <2>2. site' \in [Addresses -> Redirects!Answers] /\ changes' \in Nat /\ changes' # 0
    BY <2>1 DEF RedirectInv, RedirectTypes
  <2> QED
    BY <2>1, <2>2 DEF RedirectInv, RedirectTypes, Sound, Agrees, Redirects!Vouched
<1>3. CASE Redirects!Restart
  <2>1. UNCHANGED <<site, disk, now, changes, oldest>> /\ next' = 1
        /\ ram' = [i \in 1 .. Slots |-> Redirects!Empty]
        /\ rth' = [t \in Threads |-> Redirects!Idle]
    BY <1>3 DEF Redirects!Restart
  <2>0. FetchOK(Redirects!Idle) /\ FetchTrue(Redirects!Idle, site)
    BY DEF Redirects!Idle, FetchOK, FetchTrue, Running, Knowing, Hoping
  <2>2. Redirects!Empty \in RamRec /\ RamOK(Redirects!Empty) /\ ~Redirects!Empty.used
    BY DEF Redirects!Empty, RamRec, RamOK
  <2>3. next' \in 1 .. Slots
    BY <2>1, Bounds
  <2>4. RedirectTypes'
    BY <2>1, <2>2, <2>3, IdleRec DEF RedirectInv, RedirectTypes
  <2>5. Sound'
    BY <2>0, <2>1, <2>2 DEF RedirectInv, Sound
  <2>6. Agrees'
    BY <2>0, <2>1, <2>2 DEF RedirectInv, Agrees
  <2> QED
    BY <2>1, <2>4, <2>5, <2>6 DEF RedirectInv, Redirects!Vouched
<1>4. ASSUME NEW u \in Addresses, Redirects!Lose(u) PROVE RedirectInv'
  <2>1. UNCHANGED <<site, rth, ram, next, now, changes, oldest>>
        /\ disk' = [disk EXCEPT ![u] = Redirects!NoEntry]
    BY <1>4 DEF Redirects!Lose
  <2>2. /\ disk' \in [Addresses -> DiskRec \cup {Redirects!NoEntry}]
        /\ \A v \in Addresses : disk'[v] = disk[v] \/ disk'[v] = Redirects!NoEntry
    BY <2>1 DEF RedirectInv, RedirectTypes
  <2>3. DiskOK(Redirects!NoEntry)
    BY DEF DiskOK
  <2>4. RedirectTypes'
    BY <2>1, <2>2 DEF RedirectInv, RedirectTypes
  <2>5. Sound'
    BY <2>1, <2>2, <2>3 DEF RedirectInv, Sound
  <2>6. Agrees'
    BY <2>1, <2>2 DEF RedirectInv, Agrees
  <2> QED
    BY <2>1, <2>4, <2>5, <2>6 DEF RedirectInv, Redirects!Vouched
<1> QED
  BY <1>1, <1>2, <1>3, <1>4

(* The invariant is strong enough for what the run checks. *)
LEMMA RedirectHolds ==
    ASSUME Redirects!RedirectAssumption, RedirectInv
    PROVE  Redirects!RedirectsTrue
<1>1. ASSUME NEW t \in Threads PROVE rth[t].turns <= MaxRedirects + 1
  <2>1. rth[t] \in FetchRec /\ FetchOK(rth[t])
    BY ThreadHas
  <2>2. rth[t].hops \in Nat
    BY <2>1 DEF FetchRec
  <2> QED
    BY <2>1, <2>2, Bounds DEF FetchOK
<1>2. ASSUME changes = 0, NEW t \in Threads, rth[t].pc = "done"
      PROVE  rth[t].res \in {"failed", Redirects!Leads(site)[MaxRedirects][rth[t].url]}
  BY <1>2, ThreadHas DEF FetchTrue
<1>3. Redirects!Transparent
  BY <1>2 DEF Redirects!Transparent, Redirects!Reached
<1>4. Redirects!Ends
  BY <1>1 DEF Redirects!Ends
<1> QED
  BY <1>3, <1>4 DEF Redirects!RedirectsTrue, RedirectInv

(* A remembered redirect is followed at most DiskTtl + RamTtl after its origin sent it,
   the memory makes no difference to where a fetch ends while no origin changes its
   redirects, and the loop of sf_get_follow turns at most MaxRedirects + 1 times
   whatever the memory holds, for any number of threads, addresses and slots. *)
THEOREM RedirectsTold ==
    ASSUME Redirects!RedirectAssumption
    PROVE  Redirects!Spec => []RedirectsTrue
<1>1. Redirects!Init => RedirectInv
  BY InitRedirect
<1>2. RedirectInv /\ [Redirects!Next]_(Redirects!vars) => RedirectInv'
  <2> SUFFICES ASSUME RedirectInv, [Redirects!Next]_(Redirects!vars) PROVE RedirectInv'
    OBVIOUS
  <2>1. ASSUME NEW t \in Threads, Redirects!Run(t) PROVE RedirectInv'
    BY <2>1, LookKeeps, LoadKeeps, KeepKeeps, FailKeeps, AskKeeps, TablePutKeeps,
       SaveKeeps, ReturnKeeps DEF Redirects!Run
  <2>2. CASE UNCHANGED Redirects!vars
    BY <2>2, AroundKeeps
  <2> QED
    BY <2>1, <2>2, AroundKeeps, BeginKeeps DEF Redirects!Next
<1>3. RedirectInv => RedirectsTrue
  BY RedirectHolds DEF RedirectsTrue
<1> QED
  BY <1>1, <1>2, <1>3, PTL DEF Redirects!Spec
=============================================================================
