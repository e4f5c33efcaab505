---------------------------- MODULE PrefetchPool ----------------------------
(***************************************************************************)
(* The parallel subresource pool of src/src/prefetch.c.                    *)
(*                                                                         *)
(* One page load starts a pool over the references of the page; worker     *)
(* threads claim jobs in order, fetch them with the lock released, queue   *)
(* the static imports of every module they fetch, and publish the result.  *)
(* The threads that serve the page's requests (the load thread, and the    *)
(* threads of its request batch) take published results out of the pool.   *)
(* pf_pool_finish closes the pool, joins the workers and frees the rest.   *)
(*                                                                         *)
(* Every critical section of the code is one action; a wait on a condition *)
(* variable ends one action, and the re-check of its predicate starts the  *)
(* next.  Allocation is assumed to succeed.                                *)
(***************************************************************************)
EXTENDS Naturals, Sequences, FiniteSets

CONSTANTS
    Threads,    \* pool worker threads (the code has PF_MAX_THREADS = 6)
    Callers,    \* threads that call pf_pooled_fetch while the load runs
    Urls,       \* absolute URLs, the keys of the pool
    Asks,       \* Asks[c]: the URLs caller c may request
    PageRefs,   \* the possible results of pf_scan: sequences of [kind, url]
    Modules,    \* the URLs whose body pf_is_js recognises as JavaScript
    Imports,    \* Imports[u]: resolved static imports of module u, in order
    MaxJobs     \* PF_MAX_JOBS, the capacity of the job array

Kinds == {"stylesheet", "script"}

ASSUME PoolAssumption ==
    /\ Threads # {}
    /\ Callers # {}
    /\ MaxJobs \in Nat \ {0}
    /\ Asks \in [Callers -> SUBSET Urls]
    /\ PageRefs \subseteq Seq([kind : Kinds, url : Urls])
    /\ Modules \subseteq Urls
    /\ Imports \in [Urls -> Seq(Urls)]

VARIABLES
    jobs,     \* pf_pool.jobs[0..count): url, state, outcome, body still owned
    next,     \* pf_pool.next: how many jobs have been claimed
    started,  \* pf_pool.started
    closing,  \* pf_pool.closing
    grants,   \* the kinds this load may fetch (css_grant, js_grant)
    refs,     \* page references pool_start has still to queue
    thr,      \* per worker thread: pc, claimed job, next import, outcome
    cl,       \* per caller: pc, requested URL, job it waits for
    workCv,   \* worker threads blocked on work_cv
    doneCv,   \* callers blocked on done_cv
    taken     \* history: how often the result of job i was handed out

vars == <<jobs, next, started, closing, grants, refs, thr, cl, workCv, doneCv, taken>>
-----------------------------------------------------------------------------
States   == {"PENDING", "RUNNING", "DONE", "CONSUMED"}
\* What p->fetch produced: a 2xx body, a body with another status, or rc # 0.
Outcomes == {"ok", "status", "fail"}
HasBody(o) == o \in {"ok", "status"}

Job(u) == [url |-> u, state |-> "PENDING", out |-> "fail", body |-> FALSE]

NoThread == [pc |-> "off", job |-> 0, imp |-> 0, out |-> "fail"]
NoCall   == [pc |-> "idle", job |-> 0]

Queued(js, u) == \E i \in 1..Len(js) : js[i].url = u

\* Faulty variant: the duplicate check left out.
EnqueueNoDedup(js, u) == IF Len(js) < MaxJobs THEN Append(js, Job(u)) ELSE js

\* Queueing one URL on a job list: skipped when the list is full or has it.
Enqueue(js, u) ==
    IF Len(js) < MaxJobs /\ ~Queued(js, u) THEN Append(js, Job(u)) ELSE js

\* The job a take of u finds: the first one not yet consumed with that URL.
Found(u) ==
    {i \in 1..Len(jobs) :
        /\ jobs[i].url = u
        /\ jobs[i].state # "CONSUMED"
        /\ \A k \in 1..(i - 1) : jobs[k].url # u \/ jobs[k].state = "CONSUMED"}

\* pthread_cond_signal(&work_cv) wakes one waiter if there is one.
SignalWork ==
    \/ workCv = {} /\ workCv' = {}
    \/ \E t \in workCv : workCv' = workCv \ {t}

\* pthread_cond_broadcast(&work_cv) when the pool closes.
WakeWorkers == workCv' = {}

\* Faulty variant: a signal where every waiting take must be woken.
WakeOneTaker ==
    \/ doneCv = {} /\ doneCv' = {}
    \/ \E c \in doneCv : doneCv' = doneCv \ {c}

\* pthread_cond_broadcast(&done_cv) when a result is published.
WakeTakers == doneCv' = {}
-----------------------------------------------------------------------------
Init ==
    /\ jobs = <<>> /\ next = 0
    /\ started = FALSE /\ closing = FALSE /\ grants = {} /\ refs = <<>>
    /\ thr = [t \in Threads |-> NoThread]
    /\ cl = [c \in Callers |-> NoCall]
    /\ workCv = {} /\ doneCv = {}
    /\ taken = [i \in 1..MaxJobs |-> 0]

(***************************************************************************)
(* pf_pool_start_page scans the page and, with some grant, calls           *)
(* pool_start, which queues the granted references one by one (FillOne)    *)
(* and then creates the threads.  The pool starts when there is a job and  *)
(* at least one thread; otherwise it is left zeroed and the load fetches   *)
(* serially.  Threads that could not be created stay off.                  *)
(***************************************************************************)
StartPage(r, g) ==
    /\ ~started /\ refs = <<>> /\ jobs = <<>>
    /\ g # {}
    /\ refs' = r /\ grants' = g
    /\ UNCHANGED <<jobs, next, started, closing, thr, cl, workCv, doneCv, taken>>

FillOne ==
    /\ ~started /\ refs # <<>>
    /\ jobs' = IF Head(refs).kind \in grants THEN Enqueue(jobs, Head(refs).url) ELSE jobs
    /\ refs' = Tail(refs)
    /\ UNCHANGED <<next, started, closing, grants, thr, cl, workCv, doneCv, taken>>

Launch(up) ==
    /\ ~started /\ refs = <<>> /\ jobs # <<>>
    /\ started' = (up # {})
    /\ jobs' = IF up # {} THEN jobs ELSE <<>>
    /\ thr' = [t \in Threads |->
                  IF t \in up THEN [NoThread EXCEPT !.pc = "loop"] ELSE NoThread]
    /\ UNCHANGED <<next, closing, grants, refs, cl, workCv, doneCv, taken>>

ClaimNext(t) ==
    /\ next < Len(jobs)
    /\ next' = next + 1
    /\ jobs' = [jobs EXCEPT ![next + 1].state = "RUNNING"]
    /\ thr' = [thr EXCEPT ![t].pc = "fetch", ![t].job = next + 1]
    /\ UNCHANGED workCv

Exit(t) ==
    /\ next >= Len(jobs) /\ closing
    /\ thr' = [thr EXCEPT ![t].pc = "exit"]
    /\ UNCHANGED <<jobs, next, workCv>>

\* Faulty variant: the wait starts with one job still unclaimed.
WaitOffByOne(t) ==
    /\ next + 1 >= Len(jobs) /\ ~closing
    /\ workCv' = workCv \cup {t}
    /\ UNCHANGED <<jobs, next, thr>>

WaitForWork(t) ==
    /\ next >= Len(jobs) /\ ~closing
    /\ workCv' = workCv \cup {t}
    /\ UNCHANGED <<jobs, next, thr>>

\* pf_worker, the first critical section: claim the next job, or exit when
\* the pool is closing and every job was claimed, or wait for work.
Claim(t) ==
    /\ thr[t].pc = "loop" /\ t \notin workCv
    /\ ClaimNext(t) \/ Exit(t) \/ WaitForWork(t)
    /\ UNCHANGED <<started, closing, grants, refs, cl, doneCv, taken>>

\* Faulty variant: a module is published before its imports are queued.
AfterFetchPublish(t, o) == "publish"

\* The imports are followed only for a 2xx JavaScript body.
AfterFetch(t, o) ==
    IF o = "ok" /\ jobs[thr[t].job].url \in Modules THEN "follow" ELSE "publish"

\* pf_worker, the fetch with the lock released: any outcome.
Fetch(t) ==
    /\ thr[t].pc = "fetch"
    /\ \E o \in Outcomes :
          thr' = [thr EXCEPT ![t].pc = AfterFetch(t, o), ![t].imp = 1, ![t].out = o]
    /\ UNCHANGED <<jobs, next, started, closing, grants, refs, cl, workCv, doneCv, taken>>

\* pf_follow_imports, one iteration: pf_pool_add of the next import.
Follow(t) ==
    LET imps == Imports[jobs[thr[t].job].url]
    IN  /\ thr[t].pc = "follow"
        /\ IF thr[t].imp > Len(imps)
           THEN /\ thr' = [thr EXCEPT ![t].pc = "publish"]
                /\ UNCHANGED <<jobs, workCv>>
           ELSE /\ thr' = [thr EXCEPT ![t].imp = @ + 1]
                /\ LET js == IF started /\ ~closing
                             THEN Enqueue(jobs, imps[thr[t].imp]) ELSE jobs
                   IN  /\ jobs' = js
                       /\ IF js # jobs THEN SignalWork ELSE UNCHANGED workCv
        /\ UNCHANGED <<next, started, closing, grants, refs, cl, doneCv, taken>>

\* pf_worker, the publication: store the result and wake every waiting take.
Publish(t) ==
    /\ thr[t].pc = "publish"
    /\ jobs' = [jobs EXCEPT ![thr[t].job] =
                   [url |-> @.url, state |-> "DONE",
                    out |-> thr[t].out, body |-> HasBody(thr[t].out)]]
    /\ WakeTakers
    /\ thr' = [thr EXCEPT ![t] = [NoThread EXCEPT !.pc = "loop"]]
    /\ UNCHANGED <<next, started, closing, grants, refs, cl, workCv, taken>>

\* Faulty variant: the handed-out job is not marked CONSUMED.
HandOverKeep(c, i) ==
    /\ taken' = [taken EXCEPT ![i] = @ + 1]
    /\ cl' = [cl EXCEPT ![c] = NoCall]
    /\ UNCHANGED <<jobs, doneCv>>

\* The end of pf_pool_take: move the result of job i out to caller c.
HandOver(c, i) ==
    /\ jobs' = [jobs EXCEPT ![i].body = FALSE, ![i].state = "CONSUMED"]
    /\ taken' = [taken EXCEPT ![i] = @ + 1]
    /\ cl' = [cl EXCEPT ![c] = NoCall]
    /\ UNCHANGED doneCv

\* pf_pool_take waits: the lock is released with c blocked on done_cv.
Block(c, i) ==
    /\ cl' = [cl EXCEPT ![c] = [pc |-> "wait", job |-> i]]
    /\ doneCv' = doneCv \cup {c}
    /\ UNCHANGED <<jobs, taken>>

(***************************************************************************)
(* pf_pooled_fetch of a GET of u: a job of the pool is taken, waiting for  *)
(* it if need be; on a miss, or with no pool, the inner fetcher is called  *)
(* directly, with the pool's lock released.  ~closing is the contract of   *)
(* prefetch.h: take and finish belong to the load, which does not take     *)
(* while it finishes.                                                      *)
(***************************************************************************)
Take(c, u) ==
    /\ cl[c].pc = "idle" /\ ~closing
    /\ u \in Asks[c]
    /\ \/ /\ started
          /\ \E i \in Found(u) :
                IF jobs[i].state = "DONE" THEN HandOver(c, i) ELSE Block(c, i)
       \/ /\ ~started \/ Found(u) = {}
          /\ cl' = [cl EXCEPT ![c].pc = "inner"]
          /\ UNCHANGED <<jobs, doneCv, taken>>
    /\ UNCHANGED <<next, started, closing, grants, refs, thr, workCv>>

\* pf_pool_take woken up: re-check of the predicate j->state == PF_JOB_DONE.
Retake(c) ==
    /\ cl[c].pc = "wait" /\ c \notin doneCv
    /\ IF jobs[cl[c].job].state = "DONE"
       THEN HandOver(c, cl[c].job)
       ELSE Block(c, cl[c].job)
    /\ UNCHANGED <<next, started, closing, grants, refs, thr, workCv>>

\* The inner fetcher returns to a caller that missed the pool.
InnerFetch(c) ==
    /\ cl[c].pc = "inner"
    /\ cl' = [cl EXCEPT ![c] = NoCall]
    /\ UNCHANGED <<jobs, next, started, closing, grants, refs, thr, workCv, doneCv, taken>>

(***************************************************************************)
(* pf_pool_finish: close and wake the workers; then, once they have all    *)
(* exited, free every job and zero the pool.  The callers' contract is     *)
(* that no take is in progress by then.                                    *)
(***************************************************************************)
Close ==
    /\ started /\ ~closing
    /\ \A c \in Callers : cl[c].pc # "wait"
    /\ closing' = TRUE
    /\ WakeWorkers
    /\ UNCHANGED <<jobs, next, started, grants, refs, thr, cl, doneCv, taken>>

Joined == \A t \in Threads : thr[t].pc \in {"off", "exit"}

Free ==
    /\ started /\ closing /\ Joined
    /\ jobs' = <<>> /\ next' = 0
    /\ started' = FALSE /\ closing' = FALSE
    /\ thr' = [t \in Threads |-> NoThread]
    /\ taken' = [i \in 1..MaxJobs |-> 0]
    /\ UNCHANGED <<grants, refs, cl, workCv, doneCv>>

\* POSIX allows pthread_cond_wait to return without a signal.
Spurious ==
    /\ \/ \E t \in workCv : workCv' = workCv \ {t} /\ UNCHANGED doneCv
       \/ \E c \in doneCv : doneCv' = doneCv \ {c} /\ UNCHANGED workCv
    /\ UNCHANGED <<jobs, next, started, closing, grants, refs, thr, cl, taken>>

Worker(t) == Claim(t) \/ Fetch(t) \/ Follow(t) \/ Publish(t)
Caller(c) == Retake(c) \/ InnerFetch(c)

Next ==
    \/ \E r \in PageRefs, g \in SUBSET Kinds : StartPage(r, g)
    \/ FillOne
    \/ \E up \in SUBSET Threads : Launch(up)
    \/ \E t \in Threads : Worker(t)
    \/ \E c \in Callers : Caller(c)
    \/ \E c \in Callers, u \in Urls : Take(c, u)
    \/ Close
    \/ Free
    \/ Spurious

(***************************************************************************)
(* Threads are scheduled and fetches end (secure_fetch bounds each with a  *)
(* timeout), so workers and callers inside a call make progress, and the   *)
(* join of a closing pool returns.  Nothing forces a request, a close or a *)
(* spurious wake-up.                                                       *)
(***************************************************************************)
Fairness ==
    /\ \A t \in Threads : WF_vars(Worker(t))
    /\ \A c \in Callers : WF_vars(Caller(c))
    /\ WF_vars(Free)

Spec == Init /\ [][Next]_vars /\ Fairness
-----------------------------------------------------------------------------
JobRec    == [url : Urls, state : States, out : Outcomes, body : BOOLEAN]
RefRec    == [kind : Kinds, url : Urls]
ThreadRec == [pc : {"off", "loop", "fetch", "follow", "publish", "exit"},
              job : 0..MaxJobs, imp : Nat, out : Outcomes]
CallRec   == [pc : {"idle", "wait", "inner"}, job : 0..MaxJobs]

\* The shape of the pool, of its threads and of its callers.
TypeOK ==
    /\ jobs \in Seq(JobRec) /\ Len(jobs) <= MaxJobs
    /\ next \in 0..MaxJobs
    /\ started \in BOOLEAN /\ closing \in BOOLEAN /\ grants \subseteq Kinds
    /\ refs \in Seq(RefRec)
    /\ thr \in [Threads -> ThreadRec]
    /\ cl \in [Callers -> CallRec]
    /\ workCv \subseteq Threads
    /\ doneCv \subseteq Callers
    /\ taken \in [1..MaxJobs -> Nat]

\* A URL has at most one job, so the pool downloads it at most once however
\* the page references and the imports of concurrently fetched modules overlap
\* (the dedup of pool_start and of pf_pool_add).
FetchedOnce ==
    \A i, k \in 1..Len(jobs) : jobs[i].url = jobs[k].url => i = k

\* The result of a job has exactly one owner: it is handed out at most once,
\* exactly when the job is CONSUMED, and only a published, untaken job still
\* owns a body that pf_pool_finish will free.
OneOwner ==
    \A i \in 1..MaxJobs :
        /\ taken[i] <= 1
        /\ taken[i] = 1 <=> (i <= Len(jobs) /\ jobs[i].state = "CONSUMED")
        /\ i <= Len(jobs) /\ jobs[i].body => jobs[i].state = "DONE"

\* Exactly the claimed and unpublished jobs are being fetched, each by exactly
\* one thread: no job is lost between the claim counter and the threads.
ClaimedByOne ==
    \A i \in 1..Len(jobs) :
        /\ jobs[i].state = "PENDING" <=> i > next
        /\ jobs[i].state = "RUNNING" <=>
              \E t \in Threads : thr[t].pc \in {"fetch", "follow", "publish"} /\ thr[t].job = i
        /\ \A t, u \in Threads :
              thr[t].job = i /\ thr[u].job = i => t = u

\* "Queue this module's imports BEFORE publishing it": whoever can take a
\* module finds all its imports in the pool, unless the pool was full or is
\* closing.
ImportsQueuedFirst ==
    \A i \in 1..Len(jobs) :
        /\ jobs[i].state \in {"DONE", "CONSUMED"}
        /\ jobs[i].out = "ok" /\ jobs[i].url \in Modules
        => \/ closing \/ Len(jobs) = MaxJobs
           \/ \A k \in 1..Len(Imports[jobs[i].url]) : Queued(jobs, Imports[jobs[i].url][k])

\* A worker leaves only when the pool is closing and every job was claimed,
\* so jobs queued just before the close are still fetched by somebody.
NoEarlyExit ==
    \A t \in Threads : thr[t].pc = "exit" => closing /\ next = Len(jobs)

\* While work is queued and unclaimed, some worker is awake to claim it or
\* busy and will come back to it, whatever the order of the claims, the waits
\* on work_cv and the jobs that pf_pool_add queues.
NoLostWakeup ==
    started /\ next < Len(jobs) =>
        \E t \in Threads : thr[t].pc \notin {"off", "exit"} /\ t \notin workCv

\* A take that waits for a job is answered (pf_pool_take returns) unless another
\* take of the same URL, which woke up first, has consumed the job.
TakeReturns ==
    \A c \in Callers :
        cl[c].pc = "wait" ~> cl[c].pc # "wait" \/ jobs[cl[c].job].state = "CONSUMED"

\* "Single owner: a second take of the same URL is a miss" (prefetch.h): a
\* take that finds its job consumed by another returns, to fetch directly.
SecondTakeMisses ==
    \A c \in Callers :
        cl[c].pc = "wait" /\ jobs[cl[c].job].state = "CONSUMED" ~> cl[c].pc # "wait"

\* pf_pool_finish returns: the drain ends and every worker is joined.
FinishReturns == closing ~> ~started
-----------------------------------------------------------------------------
(***************************************************************************)
(* The inductive invariant.  Links ties the program counters to the pool   *)
(* they refer to; Followed is the loop invariant of pf_follow_imports.     *)
(***************************************************************************)
Busy(t) == thr[t].pc \in {"fetch", "follow", "publish"}

ThreadOK(t) ==
    /\ Busy(t) => thr[t].job \in 1..Len(jobs)
    /\ ~Busy(t) => thr[t].job = 0
    /\ thr[t].pc = "follow" => thr[t].imp >= 1
    /\ t \in workCv => thr[t].pc = "loop"
    /\ ~started => thr[t].pc = "off"

CallOK(c) ==
    cl[c].pc = "wait" => started /\ ~closing /\ cl[c].job \in 1..Len(jobs)

Links ==
    /\ next <= Len(jobs)
    /\ closing => started
    /\ ~started => next = 0
    /\ started => \E t \in Threads : thr[t].pc # "off"
    /\ \A t \in Threads : ThreadOK(t)
    /\ \A c \in Callers : CallOK(c)

\* The imports of module u below position n are in job list js, or the pool
\* stopped accepting jobs.
ImportsIn(js, closed, u, n) ==
    \/ closed \/ Len(js) = MaxJobs
    \/ \A k \in 1..Len(Imports[u]) : k < n => Queued(js, Imports[u][k])

Followed ==
    \A t \in Threads :
        /\ thr[t].pc = "follow" =>
              /\ thr[t].out = "ok"
              /\ ImportsIn(jobs, closing, jobs[thr[t].job].url, thr[t].imp)
        /\ thr[t].pc = "publish" /\ thr[t].out = "ok" /\ jobs[thr[t].job].url \in Modules =>
              ImportsIn(jobs, closing, jobs[thr[t].job].url, Len(Imports[jobs[thr[t].job].url]) + 1)

PoolInv ==
    /\ TypeOK /\ Links
    /\ FetchedOnce /\ ClaimedByOne /\ OneOwner
    /\ Followed /\ ImportsQueuedFirst
    /\ NoEarlyExit /\ NoLostWakeup
=============================================================================
