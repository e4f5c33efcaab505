------------------------- MODULE PrefetchPool_proofs -------------------------
(***************************************************************************)
(* Machine-checked proofs about PrefetchPool: for any number of worker     *)
(* threads, callers, URLs, imports and any capacity, PoolInv is inductive. *)
(***************************************************************************)
EXTENDS PrefetchPool, TLAPS

LEMMA MaxJobsNat == MaxJobs \in Nat /\ MaxJobs >= 1
BY PoolAssumption

LEMMA ImportsType == \A u \in Urls : Imports[u] \in Seq(Urls)
BY PoolAssumption

LEMMA RefsType == \A r \in PageRefs : r \in Seq(RefRec)
BY PoolAssumption DEF RefRec

LEMMA JobType ==
    ASSUME NEW js \in Seq(JobRec), NEW i \in 1..Len(js)
    PROVE  /\ js[i] \in JobRec
           /\ js[i].url \in Urls /\ js[i].state \in States
           /\ js[i].out \in Outcomes /\ js[i].body \in BOOLEAN
<1>1. js[i] \in JobRec OBVIOUS
<1> QED BY <1>1 DEF JobRec

\* Updating one job of a list with a job keeps it a job list.
LEMMA JobUpdate ==
    ASSUME NEW js \in Seq(JobRec), NEW i \in 1..Len(js), NEW j \in JobRec
    PROVE  /\ [js EXCEPT ![i] = j] \in Seq(JobRec)
           /\ Len([js EXCEPT ![i] = j]) = Len(js)
OBVIOUS

\* Queueing a URL keeps the list well-formed and within its capacity, leaves
\* the jobs already there alone, and appends at most one pending job, whose URL
\* was not queued; afterwards the URL is queued unless the list is full.
LEMMA EnqueueFacts ==
    ASSUME NEW js \in Seq(JobRec), Len(js) <= MaxJobs, NEW u \in Urls
    PROVE  LET new == Enqueue(js, u)
           IN  /\ new \in Seq(JobRec)
               /\ Len(new) <= MaxJobs
               /\ Len(js) <= Len(new) /\ Len(new) <= Len(js) + 1
               /\ \A i \in 1..Len(js) : new[i] = js[i]
               /\ Len(new) # Len(js) =>
                     /\ Len(new) = Len(js) + 1
                     /\ new[Len(new)] = Job(u)
                     /\ \A i \in 1..Len(js) : js[i].url # u
               /\ Len(new) = Len(js) => new = js
               /\ Len(new) = MaxJobs \/ Queued(new, u)
<1>1. Job(u) \in JobRec
  BY DEF Job, JobRec, States, Outcomes
<1>2. CASE Len(js) < MaxJobs /\ ~Queued(js, u)
  <2>1. Enqueue(js, u) = Append(js, Job(u))
    BY <1>2 DEF Enqueue
  <2>2. Append(js, Job(u))[Len(js) + 1].url = u
    BY <1>1 DEF Job
  <2> QED
    BY <1>1, <1>2, <2>1, <2>2, MaxJobsNat DEF Queued
<1>3. CASE ~(Len(js) < MaxJobs /\ ~Queued(js, u))
  BY <1>3, MaxJobsNat DEF Enqueue
<1> QED
  BY <1>2, <1>3

\* One iteration of pf_follow_imports either leaves the job list alone or
\* queues the next import on it.
LEMMA FollowJobs ==
    ASSUME NEW t \in Threads, Follow(t), jobs \in Seq(JobRec), Len(jobs) <= MaxJobs,
           thr[t].job \in 1..Len(jobs), thr[t].imp \in Nat, thr[t].imp >= 1
    PROVE  LET u == jobs[thr[t].job].url
           IN  /\ jobs' \in Seq(JobRec) /\ Len(jobs') <= MaxJobs
               /\ Len(jobs) <= Len(jobs')
               /\ \A i \in 1..Len(jobs) : jobs'[i] = jobs[i]
               /\ jobs' # jobs => Len(jobs') = Len(jobs) + 1
                     /\ jobs'[Len(jobs')].state = "PENDING" /\ ~jobs'[Len(jobs')].body
                     /\ \A i \in 1..Len(jobs) : jobs[i].url # jobs'[Len(jobs')].url
               /\ thr[t].imp <= Len(Imports[u]) /\ started /\ ~closing =>
                     Len(jobs') = MaxJobs \/ Queued(jobs', Imports[u][thr[t].imp])
<1> DEFINE u == jobs[thr[t].job].url
<1>1. u \in Urls /\ Imports[u] \in Seq(Urls)
  BY JobType, ImportsType
<1>2. CASE jobs' = jobs /\ ~(thr[t].imp <= Len(Imports[u]) /\ started /\ ~closing)
  BY <1>2
<1>3. CASE /\ thr[t].imp <= Len(Imports[u])
           /\ jobs' = Enqueue(jobs, Imports[u][thr[t].imp])
  <2> DEFINE v == Imports[u][thr[t].imp]
  <2>1. v \in Urls
    BY <1>1, <1>3
  <2>2. Job(v).state = "PENDING" /\ ~Job(v).body /\ Job(v).url = v
    BY DEF Job
  <2> HIDE DEF v
  <2>3. jobs' = Enqueue(jobs, v)
    BY <1>3 DEF v
  <2>4. jobs' # jobs => Len(jobs') # Len(jobs)
    BY <2>1, <2>3, EnqueueFacts
  <2>5. /\ jobs' \in Seq(JobRec) /\ Len(jobs') <= MaxJobs
        /\ Len(jobs) <= Len(jobs')
        /\ \A i \in 1..Len(jobs) : jobs'[i] = jobs[i]
        /\ Len(jobs') = MaxJobs \/ Queued(jobs', v)
    BY <2>1, <2>3, EnqueueFacts
  <2>6. ASSUME jobs' # jobs
        PROVE  /\ Len(jobs') = Len(jobs) + 1
               /\ jobs'[Len(jobs')] = Job(v)
               /\ \A i \in 1..Len(jobs) : jobs[i].url # v
    BY <2>1, <2>3, <2>4, <2>6, EnqueueFacts
  <2> QED
    BY <2>2, <2>5, <2>6 DEF v
<1>4. \/ jobs' = jobs /\ ~(thr[t].imp <= Len(Imports[u]) /\ started /\ ~closing)
      \/ thr[t].imp <= Len(Imports[u]) /\ jobs' = Enqueue(jobs, Imports[u][thr[t].imp])
  BY <1>1 DEF Follow
<1> QED BY <1>2, <1>3, <1>4

Struct == TypeOK /\ Links

LEMMA NoThreadType == NoThread \in ThreadRec /\ NoThread.pc = "off" /\ NoThread.job = 0
BY PoolAssumption DEF NoThread, ThreadRec, Outcomes

LEMMA NoCallType == NoCall \in CallRec /\ NoCall.pc = "idle"
BY PoolAssumption DEF NoCall, CallRec

LEMMA EmptyJobs == <<>> \in Seq(JobRec) /\ Len(<<>>) = 0
OBVIOUS

LEMMA InitStruct == Init => Struct
<1> SUFFICES ASSUME Init PROVE Struct OBVIOUS
<1>1. /\ jobs \in Seq(JobRec) /\ Len(jobs) = 0 /\ refs \in Seq(RefRec)
      /\ taken \in [1..MaxJobs -> Nat]
  BY DEF Init
<1>0. /\ next \in 0..MaxJobs /\ grants \subseteq Kinds /\ workCv = {} /\ doneCv = {}
      /\ started \in BOOLEAN /\ closing \in BOOLEAN
  <2>1. /\ next = 0 /\ grants = {} /\ workCv = {} /\ doneCv = {}
        /\ started = FALSE /\ closing = FALSE
    BY DEF Init
  <2>2. next \in 0..MaxJobs BY <2>1, MaxJobsNat
  <2>3. grants \subseteq Kinds BY <2>1
  <2>4. started \in BOOLEAN BY <2>1
  <2> QED BY <2>1, <2>2, <2>3, <2>4
<1>2. thr \in [Threads -> ThreadRec] /\ cl \in [Callers -> CallRec]
  BY NoThreadType, NoCallType DEF Init
<1>3. TypeOK
  BY <1>1, <1>0, <1>2, MaxJobsNat DEF TypeOK
<1>4. Links
  BY <1>1, NoThreadType, NoCallType DEF Init, Links, ThreadOK, CallOK, Busy
<1> QED BY <1>3, <1>4 DEF Struct

\* What a thread's own step must show for Links: the other threads only see the
\* job list grow.
LEMMA ThreadFrame ==
    ASSUME TypeOK, Links, NEW t \in Threads,
           \A u \in Threads : u # t => thr'[u] = thr[u],
           UNCHANGED <<started, closing, cl>>,
           jobs' \in Seq(JobRec), Len(jobs) <= Len(jobs'),
           next' \in Nat, next' <= Len(jobs'), started,
           \A u \in Threads : u # t /\ u \in workCv' => u \in workCv,
           thr'[t].pc # "off", ThreadOK(t)'
    PROVE  Links'
<1>1. \A u \in Threads : ThreadOK(u)'
  BY SMTT(20) DEF Links, ThreadOK, Busy, TypeOK
<1>2. \A c \in Callers : CallOK(c)'
  BY DEF Links, CallOK, TypeOK
<1> QED BY <1>1, <1>2 DEF Links

\* Every step keeps the pool well-formed and its threads and callers tied to
\* jobs that exist.
LEMMA StepStruct == Struct /\ [Next]_vars => Struct'
<1> SUFFICES ASSUME TypeOK, Links, [Next]_vars PROVE TypeOK' /\ Links'
  BY DEF Struct
<1> USE MaxJobsNat
<1>1. ASSUME NEW r \in PageRefs, NEW g \in SUBSET Kinds, StartPage(r, g)
      PROVE  TypeOK' /\ Links'
  BY <1>1, RefsType DEF StartPage, TypeOK, Links, ThreadOK, CallOK, Busy
<1>2. CASE FillOne
  <2>1. Head(refs) \in RefRec /\ Tail(refs) \in Seq(RefRec)
    BY <1>2 DEF FillOne, TypeOK
  <2>2. jobs' \in Seq(JobRec) /\ Len(jobs') <= MaxJobs /\ Len(jobs) <= Len(jobs')
    <3>1. CASE Head(refs).kind \in grants
      <4>1. Head(refs).url \in Urls BY <2>1 DEF RefRec
      <4> QED BY <1>2, <3>1, <4>1, EnqueueFacts DEF FillOne, TypeOK
    <3>2. CASE Head(refs).kind \notin grants
      BY <1>2, <3>2 DEF FillOne, TypeOK
    <3> QED BY <3>1, <3>2
  <2>3. UNCHANGED <<next, started, closing, grants, thr, cl, workCv, doneCv, taken>>
        /\ ~started /\ refs' = Tail(refs)
    BY <1>2 DEF FillOne
  <2>4. TypeOK'
    BY <2>1, <2>2, <2>3 DEF TypeOK
  <2>5. Links'
    BY <2>2, <2>3 DEF Links, ThreadOK, CallOK, TypeOK, Busy
  <2> QED BY <2>4, <2>5
<1>3. ASSUME NEW up \in SUBSET Threads, Launch(up)
      PROVE  TypeOK' /\ Links'
  <2>1. thr' \in [Threads -> ThreadRec]
        /\ \A t \in Threads : thr'[t].job = 0 /\ thr'[t].pc = IF t \in up THEN "loop" ELSE "off"
    BY <1>3 DEF Launch, NoThread, ThreadRec, Outcomes
  <2>2. jobs' \in Seq(JobRec) /\ Len(jobs') \in 0..MaxJobs
    BY <1>3, EmptyJobs DEF Launch, TypeOK
  <2>3. /\ UNCHANGED <<next, closing, grants, refs, cl, workCv, doneCv, taken>>
        /\ ~started /\ started' = (up # {}) /\ next = 0
    BY <1>3 DEF Launch, Links
  <2>4. TypeOK'
    BY <2>1, <2>2, <2>3 DEF TypeOK
  <2>5. \A t \in Threads : t \notin workCv
    BY <2>3 DEF Links, ThreadOK
  <2>6. \A t \in Threads : ThreadOK(t)'
    BY <2>1, <2>3, <2>5 DEF ThreadOK, Busy
  <2>7. \A c \in Callers : CallOK(c)'
    BY <2>3 DEF Links, CallOK
  <2>8. started' => \E t \in Threads : thr'[t].pc # "off"
    BY <2>1, <2>3
  <2> QED BY <2>2, <2>3, <2>4, <2>6, <2>7, <2>8 DEF Links
<1>4. ASSUME NEW t \in Threads, Claim(t)
      PROVE  TypeOK' /\ Links'
  <2>0. thr[t].pc = "loop" /\ t \notin workCv /\ started
        /\ UNCHANGED <<started, closing, grants, refs, cl, doneCv, taken>>
    BY <1>4 DEF Claim, Links, ThreadOK
  <2>1. CASE ClaimNext(t)
    <3>1. next \in Nat /\ next + 1 \in 1..Len(jobs) /\ next' = next + 1
      BY <2>1 DEF ClaimNext, TypeOK
    <3>2. jobs' \in Seq(JobRec) /\ Len(jobs') = Len(jobs)
      <4>1. jobs' = [jobs EXCEPT ![next + 1] = [jobs[next + 1] EXCEPT !.state = "RUNNING"]]
        BY <2>1 DEF ClaimNext
      <4>2. [jobs[next + 1] EXCEPT !.state = "RUNNING"] \in JobRec
        BY <3>1, JobType DEF TypeOK, JobRec, States
      <4> QED BY <3>1, <4>1, <4>2, JobUpdate DEF TypeOK
    <3>3. thr' \in [Threads -> ThreadRec]
          /\ thr'[t].pc = "fetch" /\ thr'[t].job = next + 1
          /\ \A u \in Threads : u # t => thr'[u] = thr[u]
      <4>1. thr' = [thr EXCEPT ![t] = [thr[t] EXCEPT !.pc = "fetch", !.job = next + 1]]
        BY <2>1 DEF ClaimNext
      <4>2. next + 1 \in 0..MaxJobs
        BY <3>1 DEF TypeOK
      <4> QED BY <4>1, <4>2 DEF TypeOK, ThreadRec
    <3>4. workCv' = workCv
      BY <2>1 DEF ClaimNext
    <3>5. TypeOK'
      BY <2>0, <3>1, <3>2, <3>3, <3>4 DEF TypeOK
    <3>6. ThreadOK(t)'
      BY <2>0, <3>1, <3>2, <3>3, <3>4 DEF ThreadOK, Busy
    <3>7. Links'
      BY <2>0, <3>1, <3>2, <3>3, <3>4, <3>6, ThreadFrame DEF TypeOK
    <3> QED BY <3>5, <3>7
  <2>2. CASE Exit(t)
    <3>1. thr' \in [Threads -> ThreadRec]
          /\ thr'[t].pc = "exit" /\ thr'[t].job = thr[t].job
          /\ \A u \in Threads : u # t => thr'[u] = thr[u]
      BY <2>2 DEF Exit, TypeOK, ThreadRec
    <3>2. UNCHANGED <<jobs, next, workCv>>
      BY <2>2 DEF Exit
    <3>3. TypeOK'
      BY <2>0, <3>1, <3>2 DEF TypeOK
    <3>4. Links'
      BY <2>0, <3>1, <3>2 DEF TypeOK, Links, ThreadOK, CallOK, Busy
    <3> QED BY <3>3, <3>4
  <2>3. CASE WaitForWork(t)
    BY <2>0, <2>3 DEF WaitForWork, TypeOK, Links, ThreadOK, CallOK, Busy
  <2> QED BY <1>4, <2>1, <2>2, <2>3 DEF Claim
<1>5. ASSUME NEW t \in Threads, Fetch(t)
      PROVE  TypeOK' /\ Links'
  <2>1. PICK o \in Outcomes : thr' = [thr EXCEPT ![t].pc = AfterFetch(t, o), ![t].imp = 1, ![t].out = o]
    BY <1>5 DEF Fetch
  <2>2. AfterFetch(t, o) \in {"follow", "publish"}
    BY DEF AfterFetch
  <2>3. thr' \in [Threads -> ThreadRec]
        /\ thr'[t].pc \in {"follow", "publish"} /\ thr'[t].job = thr[t].job /\ thr'[t].imp = 1
        /\ \A u \in Threads : u # t => thr'[u] = thr[u]
    BY <2>1, <2>2 DEF TypeOK, ThreadRec
  <2>4. UNCHANGED <<jobs, next, started, closing, grants, refs, cl, workCv, doneCv, taken>>
        /\ thr[t].pc = "fetch" /\ started
    BY <1>5 DEF Fetch, Links, ThreadOK
  <2>5. TypeOK'
    BY <2>3, <2>4 DEF TypeOK
  <2>6. ThreadOK(t)'
    BY <2>3, <2>4 DEF Links, ThreadOK, Busy
  <2>7. Links'
    <3>1. next' \in Nat /\ next' <= Len(jobs') /\ jobs' \in Seq(JobRec) /\ Len(jobs) <= Len(jobs')
      BY <2>4 DEF TypeOK, Links
    <3> QED BY <2>3, <2>4, <2>6, <3>1, ThreadFrame
  <2> QED BY <2>5, <2>7
<1>6. ASSUME NEW t \in Threads, Follow(t)
      PROVE  TypeOK' /\ Links'
  <2>1. thr[t].pc = "follow" /\ started
        /\ UNCHANGED <<next, started, closing, grants, refs, cl, doneCv, taken>>
    BY <1>6 DEF Follow, Links, ThreadOK
  <2>2. thr[t].job \in 1..Len(jobs) /\ thr[t].imp \in Nat /\ thr[t].imp >= 1 /\ t \notin workCv
    BY <2>1 DEF Links, ThreadOK, Busy, TypeOK, ThreadRec
  <2>3. jobs' \in Seq(JobRec) /\ Len(jobs') <= MaxJobs /\ Len(jobs) <= Len(jobs')
    BY <1>6, <2>2, FollowJobs DEF TypeOK
  <2>4. thr' \in [Threads -> ThreadRec]
        /\ thr'[t].pc \in {"follow", "publish"} /\ thr'[t].job = thr[t].job
        /\ thr'[t].imp >= 1
        /\ \A u \in Threads : u # t => thr'[u] = thr[u]
    <3>1. \/ thr' = [thr EXCEPT ![t].pc = "publish"]
          \/ thr' = [thr EXCEPT ![t].imp = thr[t].imp + 1]
      BY <1>6 DEF Follow
    <3>2. CASE thr' = [thr EXCEPT ![t].pc = "publish"]
      BY <2>1, <2>2, <3>2 DEF TypeOK, ThreadRec
    <3>3. CASE thr' = [thr EXCEPT ![t].imp = thr[t].imp + 1]
      <4>1. thr[t].imp + 1 \in Nat /\ thr[t].imp + 1 >= 1
        BY <2>2
      <4> QED BY <2>1, <3>3, <4>1 DEF TypeOK, ThreadRec
    <3> QED BY <3>1, <3>2, <3>3
  <2>5. workCv' \subseteq workCv
    BY <1>6 DEF Follow, SignalWork
  <2>6. TypeOK'
    BY <2>1, <2>3, <2>4, <2>5 DEF TypeOK
  <2>7. ThreadOK(t)'
    BY <2>1, <2>2, <2>3, <2>4, <2>5 DEF ThreadOK, Busy, TypeOK
  <2>8. next' \in Nat /\ next' <= Len(jobs')
    BY <2>1, <2>3 DEF TypeOK, Links
  <2>9. Links'
    BY <2>1, <2>3, <2>4, <2>5, <2>7, <2>8, ThreadFrame
  <2> QED BY <2>6, <2>9
<1>7. ASSUME NEW t \in Threads, Publish(t)
      PROVE  TypeOK' /\ Links'
  <2>1. thr[t].pc = "publish" /\ thr[t].job \in 1..Len(jobs) /\ started /\ t \notin workCv
        /\ UNCHANGED <<next, started, closing, grants, refs, cl, workCv, taken>>
    BY <1>7 DEF Publish, Links, ThreadOK, Busy
  <2>2. jobs' \in Seq(JobRec) /\ Len(jobs') = Len(jobs)
    <3> DEFINE j == [url |-> jobs[thr[t].job].url, state |-> "DONE",
                     out |-> thr[t].out, body |-> HasBody(thr[t].out)]
    <3>1. jobs' = [jobs EXCEPT ![thr[t].job] = j]
      BY <1>7 DEF Publish
    <3>2. thr[t].out \in Outcomes
      BY DEF TypeOK, ThreadRec
    <3>3. j \in JobRec
      <4>1. jobs[thr[t].job].url \in Urls
        BY <2>1, JobType DEF TypeOK
      <4>2. HasBody(thr[t].out) \in BOOLEAN
        BY DEF HasBody
      <4> QED BY <3>2, <4>1, <4>2 DEF JobRec, States
    <3> QED BY <2>1, <3>1, <3>3, JobUpdate DEF TypeOK
  <2>3. thr' \in [Threads -> ThreadRec]
        /\ thr'[t].pc = "loop" /\ thr'[t].job = 0
        /\ \A u \in Threads : u # t => thr'[u] = thr[u]
    BY <1>7, SMTT(20) DEF Publish, TypeOK, ThreadRec, NoThread, Outcomes
  <2>4. TypeOK'
    BY <1>7, <2>1, <2>2, <2>3 DEF Publish, WakeTakers, TypeOK
  <2>5. ThreadOK(t)'
    BY <2>1, <2>3 DEF ThreadOK, Busy
  <2>6. Links'
    BY <2>1, <2>2, <2>3, <2>5, ThreadFrame, SMTT(20) DEF TypeOK, Links
  <2> QED BY <2>4, <2>6
<1>8. ASSUME NEW c \in Callers, NEW i \in 1..Len(jobs), HandOver(c, i),
             UNCHANGED <<next, started, closing, grants, refs, thr, workCv>>
      PROVE  TypeOK' /\ Links'
  <2>1. jobs' \in Seq(JobRec) /\ Len(jobs') = Len(jobs)
    <3>1. jobs' = [jobs EXCEPT ![i] = [jobs[i] EXCEPT !.body = FALSE, !.state = "CONSUMED"]]
      BY <1>8 DEF HandOver
    <3>2. [jobs[i] EXCEPT !.body = FALSE, !.state = "CONSUMED"] \in JobRec
      BY JobType DEF TypeOK, JobRec, States
    <3> QED BY <3>1, <3>2, JobUpdate DEF TypeOK
  <2>2. cl' \in [Callers -> CallRec] /\ cl'[c].pc = "idle"
        /\ \A d \in Callers : d # c => cl'[d] = cl[d]
    BY <1>8, NoCallType DEF HandOver, TypeOK
  <2>3. taken' \in [1..MaxJobs -> Nat]
    BY <1>8 DEF HandOver, TypeOK
  <2>4. TypeOK'
    BY <1>8, <2>1, <2>2, <2>3 DEF HandOver, TypeOK
  <2>5. Links'
    BY <1>8, <2>1, <2>2 DEF TypeOK, Links, ThreadOK, CallOK, Busy
  <2> QED BY <2>4, <2>5
<1>9. ASSUME NEW c \in Callers, NEW i \in 1..Len(jobs), Block(c, i), started, ~closing,
             UNCHANGED <<next, started, closing, grants, refs, thr, workCv>>
      PROVE  TypeOK' /\ Links'
  <2>1. cl' \in [Callers -> CallRec] /\ cl'[c].job = i
        /\ \A d \in Callers : d # c => cl'[d] = cl[d]
    BY <1>9 DEF Block, TypeOK, CallRec
  <2>2. TypeOK'
    BY <1>9, <2>1 DEF Block, TypeOK
  <2>3. Links'
    BY <1>9, <2>1 DEF Block, TypeOK, Links, ThreadOK, CallOK, Busy
  <2> QED BY <2>2, <2>3
<1>10. ASSUME NEW c \in Callers, NEW u \in Urls, Take(c, u)
      PROVE  TypeOK' /\ Links'
  <2>1. CASE started /\ \E i \in Found(u) :
                IF jobs[i].state = "DONE" THEN HandOver(c, i) ELSE Block(c, i)
    BY <1>8, <1>9, <1>10, <2>1 DEF Take, Found
  <2>2. CASE cl' = [cl EXCEPT ![c].pc = "inner"] /\ UNCHANGED <<jobs, doneCv, taken>>
    <3>1. cl' \in [Callers -> CallRec] /\ cl'[c].pc = "inner"
          /\ \A d \in Callers : d # c => cl'[d] = cl[d]
      BY <2>2 DEF TypeOK, CallRec
    <3>2. TypeOK'
      BY <1>10, <2>2, <3>1 DEF Take, TypeOK
    <3>3. Links'
      BY <1>10, <2>2, <3>1 DEF Take, Links, ThreadOK, CallOK, Busy
    <3> QED BY <3>2, <3>3
  <2> QED BY <1>10, <2>1, <2>2 DEF Take
<1>11. ASSUME NEW c \in Callers, Retake(c)
      PROVE  TypeOK' /\ Links'
  BY <1>8, <1>9, <1>11 DEF Retake, Links, CallOK
<1>12. ASSUME NEW c \in Callers, InnerFetch(c)
      PROVE  TypeOK' /\ Links'
  <2>1. cl' \in [Callers -> CallRec] /\ cl'[c].pc = "idle"
        /\ \A d \in Callers : d # c => cl'[d] = cl[d]
    BY <1>12, NoCallType DEF InnerFetch, TypeOK
  <2> QED BY <1>12, <2>1 DEF InnerFetch, TypeOK, Links, ThreadOK, CallOK, Busy
<1>13. CASE Close
  BY <1>13 DEF Close, WakeWorkers, TypeOK, Links, ThreadOK, CallOK, Busy
<1>14. CASE Free
  <2>1. jobs' = <<>> /\ next' = 0 /\ started' = FALSE /\ closing' = FALSE /\ thr' = [t \in Threads |-> NoThread]
        /\ taken' = [i \in 1..MaxJobs |-> 0]
        /\ UNCHANGED <<grants, refs, cl, workCv, doneCv>> /\ closing
    BY <1>14 DEF Free
  <2>2. \A t \in Threads : t \notin workCv
    BY <1>14 DEF Free, Joined, Links, ThreadOK
  <2>3. taken' \in [1..MaxJobs -> Nat]
    BY <2>1
  <2>4. TypeOK'
    <3>1. jobs' \in Seq(JobRec) /\ Len(jobs') = 0 /\ next' \in 0..MaxJobs
      BY <2>1, EmptyJobs
    <3>2. thr' \in [Threads -> ThreadRec]
      BY <2>1, NoThreadType
    <3>3. started' \in BOOLEAN /\ closing' \in BOOLEAN
          /\ UNCHANGED <<grants, refs, cl, workCv, doneCv>>
      BY <2>1
    <3> QED BY <2>3, <3>1, <3>2, <3>3 DEF TypeOK
  <2>5. Links'
    BY <2>1, <2>2, NoThreadType, EmptyJobs DEF Links, ThreadOK, CallOK, Busy
  <2> QED BY <2>4, <2>5
<1>15. CASE Spurious
  BY <1>15 DEF Spurious, TypeOK, Links, ThreadOK, CallOK, Busy
<1>16. CASE UNCHANGED vars
  BY <1>16 DEF vars, TypeOK, Links, ThreadOK, CallOK, Busy
<1> QED
  BY <1>1, <1>2, <1>3, <1>4, <1>5, <1>6, <1>7, <1>10, <1>11, <1>12, <1>13, <1>14, <1>15, <1>16
     DEF Next, Worker, Caller

-----------------------------------------------------------------------------
\* The four ways a step treats the job list: leave it alone, append one fresh
\* pending job, drop everything, or rewrite one job without touching its URL.
Same     == jobs' = jobs
Appended == /\ Len(jobs') = Len(jobs) + 1
            /\ \A i \in 1..Len(jobs) : jobs'[i] = jobs[i]
            /\ jobs'[Len(jobs')].state = "PENDING" /\ ~jobs'[Len(jobs')].body
            /\ \A i \in 1..Len(jobs) : jobs[i].url # jobs'[Len(jobs')].url
Dropped  == jobs' = <<>>
Rewritten(i) ==
    /\ i \in 1..Len(jobs) /\ Len(jobs') = Len(jobs)
    /\ \A k \in 1..Len(jobs) : jobs'[k].url = jobs[k].url /\ (k # i => jobs'[k] = jobs[k])

LEMMA ClaimJobs ==
    ASSUME TypeOK, Links, NEW t \in Threads, ClaimNext(t)
    PROVE  Rewritten(next + 1) /\ jobs'[next + 1].state = "RUNNING"
           /\ jobs'[next + 1].body = jobs[next + 1].body /\ jobs'[next + 1].out = jobs[next + 1].out
<1>1. next + 1 \in 1..Len(jobs)
  BY DEF ClaimNext, TypeOK
<1>2. jobs' = [jobs EXCEPT ![next + 1] = [jobs[next + 1] EXCEPT !.state = "RUNNING"]]
  BY DEF ClaimNext
<1>3. jobs[next + 1] \in JobRec
  BY <1>1, JobType DEF TypeOK
<1> QED BY <1>1, <1>2, <1>3 DEF Rewritten, TypeOK, JobRec

LEMMA PublishJobs ==
    ASSUME TypeOK, Links, NEW t \in Threads, Publish(t)
    PROVE  /\ Busy(t) /\ Rewritten(thr[t].job)
           /\ jobs'[thr[t].job].state = "DONE" /\ jobs'[thr[t].job].out = thr[t].out
<1>1. Busy(t) /\ thr[t].job \in 1..Len(jobs)
  BY DEF Publish, Links, ThreadOK, Busy
<1> DEFINE j == [url |-> jobs[thr[t].job].url, state |-> "DONE",
                 out |-> thr[t].out, body |-> HasBody(thr[t].out)]
<1>2. jobs' = [jobs EXCEPT ![thr[t].job] = j]
  BY DEF Publish
<1>3. j.url = jobs[thr[t].job].url /\ j.state = "DONE" /\ j.out = thr[t].out
  OBVIOUS
<1> HIDE DEF j
<1> QED BY <1>1, <1>2, <1>3 DEF Rewritten, TypeOK

LEMMA HandOverJobs ==
    ASSUME TypeOK, Links, NEW c \in Callers, NEW i \in 1..Len(jobs), HandOver(c, i)
    PROVE  /\ Rewritten(i) /\ jobs'[i].out = jobs[i].out
           /\ jobs'[i].state = "CONSUMED" /\ jobs'[i].body = FALSE
<1>2. jobs' = [jobs EXCEPT ![i] = [jobs[i] EXCEPT !.body = FALSE, !.state = "CONSUMED"]]
  BY DEF HandOver
<1>3. jobs[i] \in JobRec
  BY JobType DEF TypeOK
<1> QED BY <1>2, <1>3 DEF Rewritten, TypeOK, JobRec

LEMMA FollowFacts ==
    ASSUME TypeOK, Links, NEW t \in Threads, Follow(t)
    PROVE  /\ Same \/ Appended
           /\ Busy(t) /\ Busy(t)' /\ thr'[t].job = thr[t].job /\ thr'[t].out = thr[t].out
           /\ \A u \in Threads : u # t => thr'[u] = thr[u]
<1>1. thr[t].pc = "follow" /\ thr[t].job \in 1..Len(jobs) /\ thr[t].imp \in Nat /\ thr[t].imp >= 1
  BY DEF Follow, Links, ThreadOK, Busy, TypeOK, ThreadRec
<1>2. Same \/ Appended
  BY <1>1, FollowJobs DEF TypeOK, Same, Appended
<1>3. \/ thr' = [thr EXCEPT ![t].pc = "publish"]
      \/ thr' = [thr EXCEPT ![t].imp = thr[t].imp + 1]
  BY DEF Follow
<1> QED BY <1>1, <1>2, <1>3 DEF TypeOK, ThreadRec, Busy

LEMMA FillJobs == TypeOK /\ FillOne => Same \/ Appended
<1> SUFFICES ASSUME TypeOK, FillOne PROVE Same \/ Appended
  OBVIOUS
<1>1. Head(refs).url \in Urls
  <2>1. Head(refs) \in RefRec BY DEF FillOne, TypeOK
  <2> QED BY <2>1 DEF RefRec
<1>2. Job(Head(refs).url).state = "PENDING" /\ ~Job(Head(refs).url).body
      /\ Job(Head(refs).url).url = Head(refs).url
  BY DEF Job
<1>3. CASE Head(refs).kind \in grants
  <2>1. jobs' = Enqueue(jobs, Head(refs).url)
    BY <1>3 DEF FillOne
  <2> QED BY <1>1, <1>2, <2>1, EnqueueFacts, SMTT(20) DEF Same, Appended, TypeOK
<1>4. CASE Head(refs).kind \notin grants
  BY <1>4 DEF FillOne, Same
<1> QED BY <1>3, <1>4

\* Every step is one of the four.
LEMMA JobSteps ==
    TypeOK /\ Links /\ [Next]_vars => Same \/ Appended \/ Dropped \/ \E i \in 1..Len(jobs) : Rewritten(i)
<1> SUFFICES ASSUME TypeOK, Links, [Next]_vars
             PROVE  Same \/ Appended \/ Dropped \/ \E i \in 1..Len(jobs) : Rewritten(i)
  OBVIOUS
<1>1. ASSUME NEW t \in Threads, Claim(t)
      PROVE  Same \/ \E i \in 1..Len(jobs) : Rewritten(i)
  BY <1>1, ClaimJobs DEF Claim, Exit, WaitForWork, Same, Rewritten
<1>2. ASSUME NEW t \in Threads, Publish(t)
      PROVE  \E i \in 1..Len(jobs) : Rewritten(i)
  BY <1>2, PublishJobs DEF Rewritten
<1>3. ASSUME NEW c \in Callers, NEW u \in Urls, Take(c, u)
      PROVE  Same \/ \E i \in 1..Len(jobs) : Rewritten(i)
  BY <1>3, HandOverJobs DEF Take, Found, Block, Same
<1>4. ASSUME NEW c \in Callers, Retake(c)
      PROVE  Same \/ \E i \in 1..Len(jobs) : Rewritten(i)
  BY <1>4, HandOverJobs DEF Retake, Block, Same, Links, CallOK
<1>5. ASSUME NEW t \in Threads, Follow(t) PROVE Same \/ Appended
  BY <1>5, FollowFacts
<1>6. ASSUME NEW up \in SUBSET Threads, Launch(up) PROVE Same \/ Dropped
  BY <1>6 DEF Launch, Same, Dropped
<1> QED
  BY <1>1, <1>2, <1>3, <1>4, <1>5, <1>6, FillJobs
     DEF Next, Worker, Caller, StartPage, Fetch, InnerFetch, Close, Free, Spurious, vars, Same, Dropped

LEMMA StepFetchedOnce == TypeOK /\ Links /\ FetchedOnce /\ [Next]_vars => FetchedOnce'
<1> SUFFICES ASSUME TypeOK, Links, FetchedOnce, [Next]_vars PROVE FetchedOnce'
  OBVIOUS
<1>1. CASE Same
  BY <1>1 DEF Same, FetchedOnce
<1>2. CASE Appended
  <2> SUFFICES ASSUME NEW i \in 1..Len(jobs'), NEW k \in 1..Len(jobs'), jobs'[i].url = jobs'[k].url
               PROVE  i = k
    BY DEF FetchedOnce
  <2>1. Len(jobs) \in Nat /\ Len(jobs') = Len(jobs) + 1
    BY <1>2 DEF Appended, TypeOK
  <2>2. CASE i \in 1..Len(jobs) /\ k \in 1..Len(jobs)
    BY <1>2, <2>2 DEF Appended, FetchedOnce
  <2>3. CASE i = Len(jobs') /\ k \in 1..Len(jobs)
    BY <1>2, <2>3 DEF Appended
  <2>4. CASE i \in 1..Len(jobs) /\ k = Len(jobs')
    BY <1>2, <2>4 DEF Appended
  <2> QED BY <2>1, <2>2, <2>3, <2>4
<1>3. CASE Dropped
  BY <1>3 DEF Dropped, FetchedOnce
<1>4. ASSUME NEW i \in 1..Len(jobs), Rewritten(i) PROVE FetchedOnce'
  BY <1>4 DEF Rewritten, FetchedOnce
<1> QED BY <1>1, <1>2, <1>3, <1>4, JobSteps

-----------------------------------------------------------------------------
LEMMA StepClaimedByOne == TypeOK /\ Links /\ ClaimedByOne /\ [Next]_vars => ClaimedByOne'
<1> SUFFICES ASSUME TypeOK, Links, ClaimedByOne, [Next]_vars PROVE ClaimedByOne'
  OBVIOUS
<1> USE DEF Busy
<1>0. Len(jobs) \in Nat /\ next \in Nat /\ next <= Len(jobs)
  BY DEF TypeOK, Links
\* A step that leaves the threads and the counter alone keeps ClaimedByOne if
\* the jobs it rewrites stay neither pending nor running.
<1>1. ASSUME UNCHANGED <<next, thr>>, NEW i \in 1..Len(jobs), Rewritten(i),
             jobs[i].state \in {"DONE", "CONSUMED"}, jobs'[i].state \in {"DONE", "CONSUMED"}
      PROVE  ClaimedByOne'
  BY <1>0, <1>1 DEF ClaimedByOne, Rewritten
<1>2. ASSUME UNCHANGED <<next, thr>>, Same
      PROVE  ClaimedByOne'
  BY <1>2 DEF ClaimedByOne, Same
<1>3. ASSUME Appended, next' = next,
             \A u \in Threads : thr'[u].job = thr[u].job /\ (Busy(u)' <=> Busy(u))
      PROVE  ClaimedByOne'
  <2>1. \A u \in Threads : thr[u].job # Len(jobs')
    BY <1>0, <1>3 DEF Links, ThreadOK, Appended
  <2>2. Len(jobs') = Len(jobs) + 1 /\ jobs'[Len(jobs')].state = "PENDING"
        /\ \A i \in 1..Len(jobs) : jobs'[i] = jobs[i]
    BY <1>3 DEF Appended
  <2>3. ASSUME NEW i \in 1..Len(jobs)
        PROVE  /\ jobs'[i].state = "PENDING" <=> i > next'
               /\ jobs'[i].state = "RUNNING" <=> \E t \in Threads : Busy(t)' /\ thr'[t].job = i
               /\ \A t, u \in Threads : thr'[t].job = i /\ thr'[u].job = i => t = u
    BY <1>3, <2>2, <2>3 DEF ClaimedByOne
  <2>4. /\ jobs'[Len(jobs')].state = "PENDING" <=> Len(jobs') > next'
        /\ jobs'[Len(jobs')].state = "RUNNING" <=>
              \E t \in Threads : Busy(t)' /\ thr'[t].job = Len(jobs')
        /\ \A t, u \in Threads : thr'[t].job = Len(jobs') /\ thr'[u].job = Len(jobs') => t = u
    BY <1>0, <1>3, <2>1, <2>2
  <2> QED BY <1>0, <2>2, <2>3, <2>4 DEF ClaimedByOne
<1>4. ASSUME NEW t \in Threads, Claim(t) PROVE ClaimedByOne'
  <2>1. CASE ClaimNext(t)
    <3>1. /\ next' = next + 1 /\ next + 1 \in 1..Len(jobs) /\ ~Busy(t) /\ thr[t].job = 0
          /\ thr'[t].job = next + 1 /\ Busy(t)'
          /\ \A u \in Threads : u # t => thr'[u] = thr[u]
      <4>1. next' = next + 1 /\ next + 1 \in 1..Len(jobs)
        BY <1>0, <2>1 DEF ClaimNext
      <4>2. ~Busy(t) /\ thr[t].job = 0
        BY <1>4 DEF Claim, Links, ThreadOK
      <4>3. thr' = [thr EXCEPT ![t] = [thr[t] EXCEPT !.pc = "fetch", !.job = next + 1]]
        BY <2>1 DEF ClaimNext
      <4> QED BY <4>1, <4>2, <4>3 DEF TypeOK, ThreadRec
    <3>2. \A u \in Threads : thr[u].job # next + 1
      <4>1. jobs[next + 1].state = "PENDING"
        BY <1>0, <3>1 DEF ClaimedByOne
      <4>2. ASSUME NEW u \in Threads, thr[u].job = next + 1 PROVE FALSE
        <5>1. Busy(u)
          BY <1>0, <4>2 DEF Links, ThreadOK
        <5> QED BY <3>1, <4>1, <4>2, <5>1 DEF ClaimedByOne
      <4> QED BY <4>2
    <3>3. Rewritten(next + 1) /\ jobs'[next + 1].state = "RUNNING"
      BY <2>1, ClaimJobs
    <3>4. ASSUME NEW i \in 1..Len(jobs), i # next + 1
          PROVE  /\ jobs'[i].state = "PENDING" <=> i > next'
                 /\ jobs'[i].state = "RUNNING" <=> \E u \in Threads : Busy(u)' /\ thr'[u].job = i
                 /\ \A u, v \in Threads : thr'[u].job = i /\ thr'[v].job = i => u = v
      <4>1. jobs'[i] = jobs[i]
        BY <3>3, <3>4 DEF Rewritten
      <4>2. \A u \in Threads : thr'[u].job = i => u # t
        BY <3>1, <3>4
      <4>3. \A u \in Threads : thr[u].job = i => u # t
        BY <3>1, <3>4
      <4> QED BY <1>0, <3>1, <3>4, <4>1, <4>2, <4>3 DEF ClaimedByOne
    <3>5. \A u, v \in Threads : thr'[u].job = next + 1 /\ thr'[v].job = next + 1 => u = v
      BY <3>1, <3>2
    <3>6. Len(jobs') = Len(jobs)
      BY <3>3 DEF Rewritten
    <3>7. /\ jobs'[next + 1].state = "PENDING" <=> next + 1 > next'
          /\ jobs'[next + 1].state = "RUNNING" <=> \E u \in Threads : Busy(u)' /\ thr'[u].job = next + 1
      BY <1>0, <3>1, <3>3
    <3> QED BY <3>4, <3>5, <3>6, <3>7 DEF ClaimedByOne
  <2>2. CASE Exit(t)
    <3>1. UNCHANGED <<jobs, next>> /\ \A u \in Threads : thr'[u].job = thr[u].job /\ (Busy(u)' <=> Busy(u))
      BY <1>4, <2>2 DEF Claim, Exit, TypeOK, ThreadRec
    <3> QED BY <3>1 DEF ClaimedByOne
  <2>3. CASE WaitForWork(t)
    BY <1>2, <2>3 DEF WaitForWork, Same
  <2> QED BY <1>4, <2>1, <2>2, <2>3 DEF Claim
<1>5. ASSUME NEW t \in Threads, Fetch(t) PROVE ClaimedByOne'
  <2>1. PICK o \in Outcomes : thr' = [thr EXCEPT ![t].pc = AfterFetch(t, o), ![t].imp = 1, ![t].out = o]
    BY <1>5 DEF Fetch
  <2>2. AfterFetch(t, o) \in {"follow", "publish"}
    BY DEF AfterFetch
  <2>3. \A u \in Threads : thr'[u].job = thr[u].job /\ (Busy(u)' <=> Busy(u))
    BY <1>5, <2>1, <2>2 DEF Fetch, TypeOK, ThreadRec
  <2>4. UNCHANGED <<jobs, next>>
    BY <1>5 DEF Fetch
  <2> QED BY <2>3, <2>4 DEF ClaimedByOne
<1>6. ASSUME NEW t \in Threads, Follow(t) PROVE ClaimedByOne'
  <2>1. /\ \A u \in Threads : thr'[u].job = thr[u].job /\ (Busy(u)' <=> Busy(u))
        /\ next' = next
    BY <1>6, FollowFacts DEF Follow
  <2>2. CASE Same
    BY <2>1, <2>2 DEF Same, ClaimedByOne
  <2> QED BY <1>3, <1>6, <2>1, <2>2, FollowFacts
<1>7. ASSUME NEW t \in Threads, Publish(t) PROVE ClaimedByOne'
  <2> DEFINE i == thr[t].job
  <2>1. Busy(t) /\ i \in 1..Len(jobs) /\ Rewritten(i) /\ jobs'[i].state = "DONE" /\ next' = next
    BY <1>7, PublishJobs DEF Publish, Links, ThreadOK
  <2>2. thr'[t].job = 0 /\ ~Busy(t)' /\ \A u \in Threads : u # t => thr'[u] = thr[u]
    BY <1>7 DEF Publish, TypeOK, NoThread
  <2>3. \A u \in Threads : u # t => thr[u].job # i
    BY <2>1 DEF ClaimedByOne
  <2>4. i <= next
    BY <1>0, <2>1 DEF ClaimedByOne
  <2> HIDE DEF i
  <2>5. ASSUME NEW k \in 1..Len(jobs), k # i
        PROVE  /\ jobs'[k].state = "PENDING" <=> k > next'
               /\ jobs'[k].state = "RUNNING" <=> \E u \in Threads : Busy(u)' /\ thr'[u].job = k
               /\ \A u, v \in Threads : thr'[u].job = k /\ thr'[v].job = k => u = v
    <3>1. jobs'[k] = jobs[k]
      BY <2>1, <2>5 DEF Rewritten
    <3>2. \A u \in Threads : thr[u].job = k \/ thr'[u].job = k => u # t
      BY <2>2, <2>5 DEF i
    <3> QED BY <2>1, <2>2, <3>1, <3>2 DEF ClaimedByOne
  <2>6. \A u \in Threads : thr'[u].job # i
    BY <2>1, <2>2, <2>3
  <2>7. Len(jobs') = Len(jobs)
    BY <2>1 DEF Rewritten
  <2> QED BY <1>0, <2>1, <2>4, <2>5, <2>6, <2>7 DEF ClaimedByOne
<1>8. ASSUME NEW c \in Callers, NEW i \in 1..Len(jobs), HandOver(c, i), jobs[i].state = "DONE",
             UNCHANGED <<next, thr>>
      PROVE  ClaimedByOne'
  BY <1>1, <1>8, HandOverJobs
<1>9. ASSUME NEW c \in Callers, NEW u \in Urls, Take(c, u) PROVE ClaimedByOne'
  BY <1>2, <1>8, <1>9 DEF Take, Found, Block, Same
<1>10. ASSUME NEW c \in Callers, Retake(c) PROVE ClaimedByOne'
  BY <1>2, <1>8, <1>10 DEF Retake, Block, Same, Links, CallOK
<1>11. CASE FillOne
  <2>1. UNCHANGED <<next, thr>>
    BY <1>11 DEF FillOne
  <2> QED BY <1>2, <1>3, <1>11, <2>1, FillJobs
<1>12. ASSUME NEW up \in SUBSET Threads, Launch(up) PROVE ClaimedByOne'
  <2>1. next' = next /\ \A u \in Threads : thr'[u].job = 0 /\ ~Busy(u)' /\ ~Busy(u) /\ thr[u].job = 0
    BY <1>12 DEF Launch, NoThread, Links, ThreadOK
  <2>2. CASE jobs' = <<>>
    BY <2>2 DEF ClaimedByOne
  <2>3. CASE jobs' = jobs
    BY <2>1, <2>3 DEF ClaimedByOne
  <2> QED BY <1>12, <2>2, <2>3 DEF Launch
<1>13. CASE Free
  BY <1>13 DEF Free, ClaimedByOne
<1> QED
  BY <1>2, <1>4, <1>5, <1>6, <1>7, <1>9, <1>10, <1>11, <1>12, <1>13
     DEF Next, Worker, Caller, StartPage, InnerFetch, Close, Spurious, vars, Same

-----------------------------------------------------------------------------
LEMMA StepOneOwner == TypeOK /\ Links /\ ClaimedByOne /\ OneOwner /\ [Next]_vars => OneOwner'
<1> SUFFICES ASSUME TypeOK, Links, ClaimedByOne, OneOwner, [Next]_vars PROVE OneOwner'
  OBVIOUS
<1>0. Len(jobs) \in Nat /\ Len(jobs) <= MaxJobs /\ MaxJobs \in Nat
  BY MaxJobsNat DEF TypeOK
<1>1. ASSUME Same, taken' = taken PROVE OneOwner'
  BY <1>1 DEF Same, OneOwner
<1>2. ASSUME Appended, taken' = taken PROVE OneOwner'
  <2>1. \A i \in 1..MaxJobs : i <= Len(jobs) => i \in 1..Len(jobs) /\ jobs'[i] = jobs[i]
    BY <1>0, <1>2 DEF Appended
  <2>2. Len(jobs') = Len(jobs) + 1 /\ jobs'[Len(jobs')].state = "PENDING" /\ ~jobs'[Len(jobs')].body
    BY <1>2 DEF Appended
  <2> QED BY <1>0, <1>2, <2>1, <2>2 DEF OneOwner
<1>3. ASSUME NEW i \in 1..Len(jobs), Rewritten(i), taken' = taken,
             jobs[i].state # "CONSUMED", jobs'[i].state # "CONSUMED",
             jobs'[i].body => jobs'[i].state = "DONE"
      PROVE  OneOwner'
  BY <1>0, <1>3 DEF OneOwner, Rewritten
<1>4. ASSUME NEW c \in Callers, NEW i \in 1..Len(jobs), HandOver(c, i), jobs[i].state = "DONE"
      PROVE  OneOwner'
  <2>1. Rewritten(i) /\ jobs'[i].state = "CONSUMED" /\ jobs'[i].body = FALSE
    BY <1>4, HandOverJobs
  <2>2. taken' = [taken EXCEPT ![i] = taken[i] + 1]
    BY <1>4 DEF HandOver
  <2>3. i \in 1..MaxJobs /\ taken[i] \in Nat /\ taken[i] = 0
    BY <1>0, <1>4 DEF OneOwner, TypeOK
  <2> QED BY <1>0, <2>1, <2>2, <2>3, SMTT(20) DEF OneOwner, Rewritten, TypeOK
<1>5. ASSUME NEW t \in Threads, Claim(t) PROVE OneOwner'
  <2>1. taken' = taken
    BY <1>5 DEF Claim
  <2>2. CASE ClaimNext(t)
    <3>1. next + 1 \in 1..Len(jobs)
      BY <2>2, ClaimJobs DEF Rewritten
    <3>2. jobs[next + 1].state = "PENDING"
      BY <3>1 DEF ClaimedByOne, TypeOK
    <3>3. ~jobs[next + 1].body
      BY <1>0, <3>1, <3>2 DEF OneOwner
    <3> QED BY <1>3, <2>1, <2>2, <3>1, <3>2, <3>3, ClaimJobs
  <2>3. CASE Same
    BY <1>1, <2>1, <2>3
  <2> QED BY <1>5, <2>2, <2>3 DEF Claim, Exit, WaitForWork, Same
<1>6. ASSUME NEW t \in Threads, Publish(t) PROVE OneOwner'
  <2>1. Busy(t) /\ thr[t].job \in 1..Len(jobs) /\ Rewritten(thr[t].job)
        /\ jobs'[thr[t].job].state = "DONE" /\ taken' = taken
    BY <1>6, PublishJobs DEF Publish, Links, ThreadOK
  <2>2. jobs[thr[t].job].state = "RUNNING"
    BY <2>1 DEF ClaimedByOne, Busy
  <2> QED BY <1>3, <2>1, <2>2
<1>7. ASSUME NEW t \in Threads, Follow(t) PROVE OneOwner'
  BY <1>1, <1>2, <1>7, FollowFacts DEF Follow
<1>8. ASSUME NEW c \in Callers, NEW u \in Urls, Take(c, u) PROVE OneOwner'
  BY <1>1, <1>4, <1>8 DEF Take, Found, Block, Same
<1>9. ASSUME NEW c \in Callers, Retake(c) PROVE OneOwner'
  BY <1>1, <1>4, <1>9 DEF Retake, Block, Same, Links, CallOK
<1>10. CASE FillOne
  BY <1>1, <1>2, <1>10, FillJobs DEF FillOne
<1>11. ASSUME NEW up \in SUBSET Threads, Launch(up) PROVE OneOwner'
  <2>1. CASE jobs' = <<>> /\ taken' = taken
    <3>1. \A i \in 1..Len(jobs) : jobs[i].state = "PENDING"
      BY <1>0, <1>11 DEF Launch, Links, ClaimedByOne
    <3>2. \A i \in 1..MaxJobs : taken[i] # 1 /\ taken[i] <= 1
      BY <1>0, <3>1 DEF OneOwner
    <3>3. Len(jobs') = 0
      BY <2>1
    <3> QED BY <1>0, <2>1, <3>2, <3>3 DEF OneOwner
  <2> QED BY <1>1, <1>11, <2>1 DEF Launch, Same
<1>12. CASE Free
  <2>1. Len(jobs') = 0 /\ \A i \in 1..MaxJobs : taken'[i] = 0
    BY <1>12 DEF Free
  <2> QED BY <1>0, <2>1 DEF OneOwner
<1> QED
  BY <1>1, <1>5, <1>6, <1>7, <1>8, <1>9, <1>10, <1>11, <1>12
     DEF Next, Worker, Caller, StartPage, Fetch, InnerFetch, Close, Spurious, vars, Same

LEMMA StepNoEarlyExit == TypeOK /\ Links /\ NoEarlyExit /\ [Next]_vars => NoEarlyExit'
<1> SUFFICES ASSUME TypeOK, Links, NoEarlyExit, [Next]_vars PROVE NoEarlyExit'
  OBVIOUS
<1>0. Len(jobs) \in Nat /\ next \in Nat /\ next <= Len(jobs)
  BY DEF TypeOK, Links
<1>1. ASSUME NEW t \in Threads, Claim(t) PROVE NoEarlyExit'
  <2>1. CASE ClaimNext(t)
    <3>1. \A u \in Threads : thr[u].pc # "exit"
      BY <1>0, <2>1 DEF ClaimNext, NoEarlyExit
    <3>2. \A u \in Threads : thr'[u].pc # "exit"
      BY <2>1, <3>1 DEF ClaimNext, TypeOK, ThreadRec
    <3> QED BY <3>2 DEF NoEarlyExit
  <2>2. CASE Exit(t)
    BY <1>0, <1>1, <2>2 DEF Claim, Exit, NoEarlyExit, TypeOK
  <2>3. CASE WaitForWork(t)
    BY <1>1, <2>3 DEF Claim, WaitForWork, NoEarlyExit
  <2> QED BY <1>1, <2>1, <2>2, <2>3 DEF Claim
<1>2. ASSUME NEW t \in Threads, Fetch(t) PROVE NoEarlyExit'
  <2>1. PICK o \in Outcomes : thr' = [thr EXCEPT ![t].pc = AfterFetch(t, o), ![t].imp = 1, ![t].out = o]
    BY <1>2 DEF Fetch
  <2>2. AfterFetch(t, o) # "exit"
    BY DEF AfterFetch
  <2> QED BY <1>2, <2>1, <2>2 DEF Fetch, NoEarlyExit, TypeOK, ThreadRec
<1>3. ASSUME NEW t \in Threads, Follow(t) PROVE NoEarlyExit'
  <2>1. /\ \A u \in Threads : thr'[u].pc = "exit" => thr[u].pc = "exit"
        /\ next' = next /\ closing' = closing
    BY <1>3, FollowFacts DEF Follow, Busy
  <2>2. closing => jobs' = jobs
    BY <1>3 DEF Follow
  <2> QED BY <2>1, <2>2 DEF NoEarlyExit
<1>4. ASSUME NEW t \in Threads, Publish(t) PROVE NoEarlyExit'
  <2>1. Len(jobs') = Len(jobs) /\ next' = next /\ closing' = closing
    BY <1>4, PublishJobs DEF Publish, Rewritten
  <2>2. \A u \in Threads : thr'[u].pc = "exit" => thr[u].pc = "exit"
    BY <1>4 DEF Publish, NoThread, TypeOK
  <2> QED BY <2>1, <2>2 DEF NoEarlyExit
<1>5. ASSUME NEW c \in Callers, NEW i \in 1..Len(jobs), HandOver(c, i), UNCHANGED <<next, closing, thr>>
      PROVE  NoEarlyExit'
  BY <1>5, HandOverJobs DEF NoEarlyExit, Rewritten
<1>6. ASSUME NEW c \in Callers, NEW u \in Urls, Take(c, u) PROVE NoEarlyExit'
  BY <1>5, <1>6 DEF Take, Found, Block, NoEarlyExit
<1>7. ASSUME NEW c \in Callers, Retake(c) PROVE NoEarlyExit'
  BY <1>5, <1>7 DEF Retake, Block, Links, CallOK, NoEarlyExit
<1>8. CASE FillOne
  BY <1>8 DEF FillOne, NoEarlyExit, Links, ThreadOK
<1>9. ASSUME NEW up \in SUBSET Threads, Launch(up) PROVE NoEarlyExit'
  BY <1>9 DEF Launch, NoThread, NoEarlyExit
<1>10. CASE Free
  BY <1>10 DEF Free, NoThread, NoEarlyExit
<1>11. CASE Close
  BY <1>11 DEF Close, NoEarlyExit
<1> QED
  BY <1>1, <1>2, <1>3, <1>4, <1>6, <1>7, <1>8, <1>9, <1>10, <1>11
     DEF Next, Worker, Caller, StartPage, InnerFetch, Spurious, vars, NoEarlyExit

LEMMA StepNoLostWakeup ==
    TypeOK /\ Links /\ NoEarlyExit /\ NoLostWakeup /\ [Next]_vars => NoLostWakeup'
<1> SUFFICES ASSUME TypeOK, Links, NoEarlyExit, NoLostWakeup, [Next]_vars PROVE NoLostWakeup'
  OBVIOUS
<1>0. Len(jobs) \in Nat /\ next \in Nat /\ next <= Len(jobs)
  BY DEF TypeOK, Links
<1> DEFINE Awake(t) == thr[t].pc \notin {"off", "exit"} /\ t \notin workCv
\* A thread that ends a step awake is a witness.
<1>1. ASSUME NEW t \in Threads, Awake(t)' PROVE NoLostWakeup'
  BY <1>1 DEF NoLostWakeup
<1>2. ASSUME NEW t \in Threads, Claim(t) PROVE NoLostWakeup'
  <2>1. CASE ClaimNext(t)
    <3>1. Awake(t)'
      BY <1>2, <2>1 DEF Claim, ClaimNext, TypeOK, ThreadRec
    <3> QED BY <1>1, <3>1
  <2>2. CASE Exit(t) \/ WaitForWork(t)
    <3>1. ~(next' < Len(jobs'))
      BY <1>0, <2>2 DEF Exit, WaitForWork
    <3> QED BY <3>1 DEF NoLostWakeup
  <2> QED BY <1>2, <2>1, <2>2 DEF Claim
<1>3. ASSUME NEW t \in Threads, Fetch(t) PROVE NoLostWakeup'
  <2>1. PICK o \in Outcomes : thr' = [thr EXCEPT ![t].pc = AfterFetch(t, o), ![t].imp = 1, ![t].out = o]
    BY <1>3 DEF Fetch
  <2>2. AfterFetch(t, o) \in {"follow", "publish"}
    BY DEF AfterFetch
  <2>3. Awake(t)'
    BY <1>3, <2>1, <2>2 DEF Fetch, TypeOK, ThreadRec, Links, ThreadOK
  <2> QED BY <1>1, <2>3
<1>4. ASSUME NEW t \in Threads, Follow(t) PROVE NoLostWakeup'
  <2>1. thr'[t].pc \notin {"off", "exit"}
    BY <1>4, FollowFacts DEF Busy
  <2>2. t \notin workCv'
    BY <1>4 DEF Follow, SignalWork, Links, ThreadOK
  <2> QED BY <1>1, <2>1, <2>2
<1>5. ASSUME NEW t \in Threads, Publish(t) PROVE NoLostWakeup'
  <2>1. Awake(t)'
    BY <1>5 DEF Publish, NoThread, TypeOK, ThreadRec, Links, ThreadOK
  <2> QED BY <1>1, <2>1
<1>6. ASSUME NEW c \in Callers, NEW i \in 1..Len(jobs), HandOver(c, i),
             UNCHANGED <<next, started, thr, workCv>>
      PROVE  NoLostWakeup'
  BY <1>6, HandOverJobs DEF NoLostWakeup, Rewritten
<1>7. ASSUME NEW c \in Callers, NEW u \in Urls, Take(c, u) PROVE NoLostWakeup'
  BY <1>6, <1>7 DEF Take, Found, Block, NoLostWakeup
<1>8. ASSUME NEW c \in Callers, Retake(c) PROVE NoLostWakeup'
  BY <1>6, <1>8 DEF Retake, Block, Links, CallOK, NoLostWakeup
<1>9. CASE FillOne
  BY <1>9 DEF FillOne, NoLostWakeup
<1>10. ASSUME NEW up \in SUBSET Threads, Launch(up) PROVE NoLostWakeup'
  <2>1. CASE up = {}
    BY <1>10, <2>1 DEF Launch, NoLostWakeup
  <2>2. ASSUME NEW t \in up PROVE NoLostWakeup'
    <3>1. Awake(t)'
      BY <1>10, <2>2 DEF Launch, NoThread, Links, ThreadOK
    <3> QED BY <1>1, <3>1
  <2> QED BY <2>1, <2>2
<1>11. CASE Free
  BY <1>11 DEF Free, NoLostWakeup
<1>12. CASE Close
  <2>1. PICK t \in Threads : thr[t].pc # "off"
    BY <1>12 DEF Close, Links
  <2>2. thr[t].pc # "exit"
    BY <1>12 DEF Close, NoEarlyExit
  <2>3. Awake(t)'
    BY <1>12, <2>1, <2>2 DEF Close, WakeWorkers
  <2> QED BY <1>1, <2>3
<1>13. CASE Spurious
  BY <1>13 DEF Spurious, NoLostWakeup
<1> QED
  BY <1>2, <1>3, <1>4, <1>5, <1>7, <1>8, <1>9, <1>10, <1>11, <1>12, <1>13
     DEF Next, Worker, Caller, StartPage, InnerFetch, vars, NoLostWakeup

-----------------------------------------------------------------------------
\* As long as the list is not dropped, what is queued stays queued.
Kept == Same \/ Appended \/ \E i \in 1..Len(jobs) : Rewritten(i)

LEMMA ImportsKept ==
    ASSUME TypeOK, TypeOK', Kept, closing => closing'
    PROVE  \A u, n : ImportsIn(jobs, closing, u, n) => ImportsIn(jobs', closing', u, n)
<1> SUFFICES ASSUME NEW u, NEW n, ImportsIn(jobs, closing, u, n)
             PROVE  ImportsIn(jobs', closing', u, n)
  OBVIOUS
<1>1. CASE closing
  BY <1>1 DEF ImportsIn
<1>2. CASE Len(jobs) = MaxJobs
  BY <1>2, MaxJobsNat DEF ImportsIn, TypeOK, Kept, Same, Appended, Rewritten
<1>3. CASE \A k \in 1..Len(Imports[u]) : k < n => Queued(jobs, Imports[u][k])
  <2>1. ASSUME NEW v, Queued(jobs, v) PROVE Queued(jobs', v)
    <3>1. PICK i \in 1..Len(jobs) : jobs[i].url = v
      BY <2>1 DEF Queued
    <3>2. i \in 1..Len(jobs') /\ jobs'[i].url = v
      BY <3>1 DEF TypeOK, Kept, Same, Appended, Rewritten
    <3> QED BY <3>2 DEF Queued
  <2> QED BY <1>3, <2>1 DEF ImportsIn
<1> QED BY <1>1, <1>2, <1>3 DEF ImportsIn

\* The URL of a claimed job never changes while it is in the pool.
LEMMA UrlKept ==
    ASSUME TypeOK, Kept, NEW i \in 1..Len(jobs)
    PROVE  i \in 1..Len(jobs') /\ jobs'[i].url = jobs[i].url
BY DEF TypeOK, Kept, Same, Appended, Rewritten

\* What Followed and ImportsQueuedFirst say of one thread and of one job.
FollowedBy(t) ==
    /\ thr[t].pc = "follow" =>
          thr[t].out = "ok" /\ ImportsIn(jobs, closing, jobs[thr[t].job].url, thr[t].imp)
    /\ thr[t].pc = "publish" /\ thr[t].out = "ok" /\ jobs[thr[t].job].url \in Modules =>
          ImportsIn(jobs, closing, jobs[thr[t].job].url, Len(Imports[jobs[thr[t].job].url]) + 1)

ImportsFirst(i) ==
    jobs[i].state \in {"DONE", "CONSUMED"} /\ jobs[i].out = "ok" /\ jobs[i].url \in Modules =>
        ImportsIn(jobs, closing, jobs[i].url, Len(Imports[jobs[i].url]) + 1)

LEMMA FollowedParts == Followed <=> \A t \in Threads : FollowedBy(t)
BY DEF Followed, FollowedBy

LEMMA ImportsParts ==
    ASSUME TypeOK
    PROVE  ImportsQueuedFirst <=> \A i \in 1..Len(jobs) : ImportsFirst(i)
<1>1. \A i \in 1..Len(jobs) : Len(Imports[jobs[i].url]) \in Nat
  BY JobType, ImportsType DEF TypeOK
<1> QED BY <1>1, SMTT(20) DEF ImportsQueuedFirst, ImportsFirst, ImportsIn

LEMMA ImportsPartsNext ==
    TypeOK' => ((\A i \in 1..Len(jobs) : ImportsFirst(i)) => ImportsQueuedFirst)'
<1>1. TypeOK => ((\A i \in 1..Len(jobs) : ImportsFirst(i)) => ImportsQueuedFirst)
  BY ImportsParts
<1> QED BY <1>1, PTL

\* A thread the step leaves alone keeps its loop invariant.
LEMMA FollowedFrame ==
    ASSUME TypeOK, TypeOK', Links, Kept, closing => closing', NEW t \in Threads,
           FollowedBy(t), thr'[t] = thr[t]
    PROVE  FollowedBy(t)'
<1>1. CASE ~Busy(t)
  BY <1>1 DEF Busy, FollowedBy
<1>2. CASE Busy(t)
  <2>1. jobs'[thr[t].job].url = jobs[thr[t].job].url
    BY <1>2, UrlKept DEF Links, ThreadOK
  <2> QED BY <2>1, ImportsKept DEF FollowedBy
<1> QED BY <1>1, <1>2

LEMMA ImportsFrame ==
    ASSUME TypeOK, TypeOK', Kept, closing => closing', NEW i \in 1..Len(jobs), ImportsFirst(i),
           jobs'[i].state \in {"DONE", "CONSUMED"} =>
              jobs[i].state \in {"DONE", "CONSUMED"} /\ jobs'[i].out = jobs[i].out
    PROVE  ImportsFirst(i)'
<1>1. jobs'[i].url = jobs[i].url
  BY UrlKept
<1> QED BY <1>1, ImportsKept DEF ImportsFirst

LEMMA StepImports ==
    /\ TypeOK /\ TypeOK' /\ Links /\ ClaimedByOne /\ Followed /\ ImportsQueuedFirst /\ [Next]_vars
    => Followed' /\ ImportsQueuedFirst'
<1> SUFFICES ASSUME TypeOK, TypeOK', Links, ClaimedByOne, Followed, ImportsQueuedFirst, [Next]_vars
             PROVE  (\A t \in Threads : FollowedBy(t)') /\ (\A i \in 1..Len(jobs') : ImportsFirst(i)')
  <2>1. (\A t \in Threads : FollowedBy(t)') => Followed'
    BY DEF Followed, FollowedBy
  <2>2. TypeOK' => ((\A i \in 1..Len(jobs') : ImportsFirst(i)') => ImportsQueuedFirst')
    BY ImportsPartsNext
  <2> QED BY <2>1, <2>2
<1>0. Len(jobs) \in Nat
  BY DEF TypeOK
<1>70. \A t \in Threads : FollowedBy(t)
  BY FollowedParts
<1>71. \A i \in 1..Len(jobs) : ImportsFirst(i)
  BY ImportsParts
\* Steps that leave the threads alone, rewriting at most a finished job.
<1>1. ASSUME thr' = thr, closing => closing', Kept,
             \A i \in 1..Len(jobs) : jobs'[i].state \in {"DONE", "CONSUMED"} =>
                jobs[i].state \in {"DONE", "CONSUMED"} /\ jobs'[i].out = jobs[i].out,
             \A i \in 1..Len(jobs') : i \notin 1..Len(jobs) => jobs'[i].state = "PENDING"
      PROVE  (\A t \in Threads : FollowedBy(t)') /\ (\A i \in 1..Len(jobs') : ImportsFirst(i)')
  <2>1. \A t \in Threads : FollowedBy(t)'
    BY <1>70, <1>1, FollowedFrame
  <2>2. \A i \in 1..Len(jobs) : ImportsFirst(i)'
    BY <1>71, <1>1, ImportsFrame
  <2>3. \A i \in 1..Len(jobs') : i \notin 1..Len(jobs) => ImportsFirst(i)'
    BY <1>1 DEF ImportsFirst
  <2> QED BY <2>1, <2>2, <2>3
<1>2. ASSUME thr' = thr, closing => closing', Same
      PROVE  (\A t \in Threads : FollowedBy(t)') /\ (\A i \in 1..Len(jobs') : ImportsFirst(i)')
  BY <1>1, <1>2 DEF Same, Kept
<1>3. ASSUME NEW t \in Threads, Claim(t)
      PROVE  (\A u \in Threads : FollowedBy(u)') /\ (\A i \in 1..Len(jobs') : ImportsFirst(i)')
  <2>1. closing' = closing
    BY <1>3 DEF Claim
  <2>2. CASE ClaimNext(t)
    <3>1. Rewritten(next + 1) /\ jobs'[next + 1].state = "RUNNING" /\ Kept
      BY <2>2, ClaimJobs DEF Kept, Rewritten
    <3>2. thr'[t].pc = "fetch" /\ \A u \in Threads : u # t => thr'[u] = thr[u]
      BY <2>2 DEF ClaimNext, TypeOK, ThreadRec
    <3>3. \A u \in Threads : FollowedBy(u)'
      BY <1>70, <2>1, <3>1, <3>2, FollowedFrame DEF FollowedBy
    <3>4. \A i \in 1..Len(jobs) : ImportsFirst(i)'
      BY <1>71, <2>1, <3>1, ImportsFrame DEF Rewritten
    <3> QED BY <3>1, <3>3, <3>4 DEF Rewritten
  <2>3. CASE Exit(t)
    <3>1. Same /\ Kept
      BY <2>3 DEF Exit, Same, Kept
    <3>2. thr'[t].pc = "exit" /\ \A u \in Threads : u # t => thr'[u] = thr[u]
      BY <2>3 DEF Exit, TypeOK, ThreadRec
    <3>3. \A u \in Threads : FollowedBy(u)'
      BY <1>70, <2>1, <3>1, <3>2, FollowedFrame DEF FollowedBy
    <3>4. \A i \in 1..Len(jobs) : ImportsFirst(i)'
      BY <1>71, <2>1, <3>1, ImportsFrame DEF Same
    <3> QED BY <3>1, <3>3, <3>4 DEF Same
  <2>4. CASE WaitForWork(t)
    BY <1>2, <2>1, <2>4 DEF WaitForWork, Same
  <2> QED BY <1>3, <2>2, <2>3, <2>4 DEF Claim
<1>4. ASSUME NEW t \in Threads, Fetch(t)
      PROVE  (\A u \in Threads : FollowedBy(u)') /\ (\A i \in 1..Len(jobs') : ImportsFirst(i)')
  <2>1. closing' = closing /\ Same /\ Kept /\ thr[t].pc = "fetch"
    BY <1>4 DEF Fetch, Same, Kept
  <2>2. PICK o \in Outcomes : thr' = [thr EXCEPT ![t].pc = AfterFetch(t, o), ![t].imp = 1, ![t].out = o]
    BY <1>4 DEF Fetch
  <2>3. /\ thr'[t].pc = AfterFetch(t, o) /\ thr'[t].out = o /\ thr'[t].imp = 1 /\ thr'[t].job = thr[t].job
        /\ \A u \in Threads : u # t => thr'[u] = thr[u]
    BY <2>2 DEF TypeOK, ThreadRec
  <2>4. FollowedBy(t)'
    <3>1. CASE o = "ok" /\ jobs[thr[t].job].url \in Modules
      <4>1. thr'[t].pc = "follow"
        BY <2>3, <3>1 DEF AfterFetch
      <4>2. \A w : ImportsIn(jobs', closing', w, 1)
        BY DEF ImportsIn
      <4> QED BY <2>3, <3>1, <4>1, <4>2 DEF FollowedBy
    <3>2. CASE ~(o = "ok" /\ jobs[thr[t].job].url \in Modules)
      <4>1. thr'[t].pc = "publish"
        BY <2>3, <3>2 DEF AfterFetch
      <4> QED BY <2>1, <2>3, <3>2, <4>1 DEF FollowedBy, Same
    <3> QED BY <3>1, <3>2
  <2>5. \A u \in Threads : FollowedBy(u)'
    BY <1>70, <2>1, <2>3, <2>4, FollowedFrame
  <2>6. \A i \in 1..Len(jobs) : ImportsFirst(i)'
    BY <1>71, <2>1, ImportsFrame DEF Same
  <2> QED BY <2>1, <2>5, <2>6 DEF Same
<1>5. ASSUME NEW t \in Threads, Follow(t)
      PROVE  (\A u \in Threads : FollowedBy(u)') /\ (\A i \in 1..Len(jobs') : ImportsFirst(i)')
  <2> DEFINE v == jobs[thr[t].job].url
  <2>1. /\ thr[t].pc = "follow" /\ thr[t].job \in 1..Len(jobs) /\ started
        /\ thr[t].imp \in Nat /\ thr[t].imp >= 1 /\ closing' = closing
    BY <1>5 DEF Follow, Links, ThreadOK, Busy, TypeOK, ThreadRec
  <2>2. Kept /\ \A u \in Threads : u # t => thr'[u] = thr[u]
    BY <1>5, FollowFacts DEF Kept
  <2>3. /\ thr'[t].job = thr[t].job /\ thr'[t].out = thr[t].out /\ jobs'[thr[t].job].url = v
        /\ v \in Urls /\ Len(Imports[v]) \in Nat
    BY <1>5, <2>1, <2>2, FollowFacts, UrlKept, JobType, ImportsType, SMTT(20) DEF TypeOK
  <2>4. ImportsIn(jobs, closing, v, thr[t].imp) /\ thr[t].out = "ok"
    BY <1>70, <2>1 DEF FollowedBy
  <2>5. ImportsIn(jobs', closing', v, thr[t].imp)
    BY <2>1, <2>2, <2>4, ImportsKept
  <2> HIDE DEF v
  <2>6. FollowedBy(t)'
    <3>1. CASE thr[t].imp > Len(Imports[v])
      <4>1. thr'[t].pc = "publish"
        BY <1>5, <3>1 DEF Follow, TypeOK, ThreadRec, v
      <4>2. ImportsIn(jobs', closing', v, Len(Imports[v]) + 1)
        BY <2>1, <2>3, <2>5, <3>1 DEF ImportsIn
      <4> QED BY <2>3, <4>1, <4>2 DEF FollowedBy
    <3>2. CASE thr[t].imp <= Len(Imports[v])
      <4>1. thr'[t].pc = "follow" /\ thr'[t].imp = thr[t].imp + 1
        BY <1>5, <2>1, <2>3, <3>2 DEF Follow, TypeOK, ThreadRec, v
      <4>2. closing \/ Len(jobs') = MaxJobs \/ Queued(jobs', Imports[v][thr[t].imp])
        BY <1>5, <2>1, <3>2, FollowJobs DEF TypeOK, v
      <4>3. ImportsIn(jobs', closing', v, thr[t].imp + 1)
        BY <2>1, <2>3, <2>5, <3>2, <4>2 DEF ImportsIn
      <4> QED BY <2>3, <2>4, <4>1, <4>3 DEF FollowedBy
    <3> QED BY <2>1, <2>3, <3>1, <3>2
  <2>7. \A u \in Threads : FollowedBy(u)'
    BY <1>70, <2>1, <2>2, <2>6, FollowedFrame
  <2>8. \A i \in 1..Len(jobs) : ImportsFirst(i)' /\ jobs'[i] = jobs[i]
    BY <1>71, <1>5, <2>1, <2>2, ImportsFrame, FollowFacts DEF Same, Appended
  <2>9. \A i \in 1..Len(jobs') : i \notin 1..Len(jobs) => ImportsFirst(i)'
    BY <1>0, <1>5, FollowFacts DEF Same, Appended, ImportsFirst
  <2> QED BY <2>7, <2>8, <2>9
<1>6. ASSUME NEW t \in Threads, Publish(t)
      PROVE  (\A u \in Threads : FollowedBy(u)') /\ (\A i \in 1..Len(jobs') : ImportsFirst(i)')
  <2>0. PICK k : k = thr[t].job
    OBVIOUS
  <2>1. /\ thr[t].pc = "publish" /\ k \in 1..Len(jobs) /\ Rewritten(k) /\ Kept /\ closing' = closing
        /\ jobs'[k].out = thr[t].out
    BY <1>6, <2>0, PublishJobs DEF Publish, Links, ThreadOK, Busy, Kept
  <2>2. thr'[t].pc = "loop" /\ \A u \in Threads : u # t => thr'[u] = thr[u]
    BY <1>6 DEF Publish, NoThread, TypeOK
  <2>3. \A u \in Threads : FollowedBy(u)'
    BY <1>70, <2>1, <2>2, FollowedFrame DEF FollowedBy
  <2>4. \A i \in 1..Len(jobs) : i # k => ImportsFirst(i)'
    BY <1>71, <2>1, ImportsFrame DEF Rewritten
  <2>5. ImportsFirst(k)'
    <3>1. jobs'[k].url = jobs[k].url
      BY <2>1, UrlKept
    <3>2. thr[t].out = "ok" /\ jobs[k].url \in Modules => ImportsIn(jobs, closing, jobs[k].url, Len(Imports[jobs[k].url]) + 1)
      BY <1>70, <2>0, <2>1 DEF FollowedBy
    <3>3. \A w, n : ImportsIn(jobs, closing, w, n) => ImportsIn(jobs', closing', w, n)
      BY <2>1, ImportsKept
    <3> QED BY <2>1, <3>1, <3>2, <3>3 DEF ImportsFirst
  <2>6. Len(jobs') = Len(jobs)
    BY <2>1 DEF Rewritten
  <2> QED BY <2>3, <2>4, <2>5, <2>6
<1>7. ASSUME NEW c \in Callers, NEW i \in 1..Len(jobs), HandOver(c, i), jobs[i].state = "DONE",
             UNCHANGED <<closing, thr>>
      PROVE  (\A t \in Threads : FollowedBy(t)') /\ (\A k \in 1..Len(jobs') : ImportsFirst(k)')
  <2>1. Rewritten(i) /\ jobs'[i].out = jobs[i].out /\ Kept
    BY <1>7, HandOverJobs DEF Kept
  <2> QED BY <1>1, <1>7, <2>1 DEF Rewritten
<1>8. ASSUME NEW c \in Callers, NEW u \in Urls, Take(c, u)
      PROVE  (\A t \in Threads : FollowedBy(t)') /\ (\A i \in 1..Len(jobs') : ImportsFirst(i)')
  BY <1>2, <1>7, <1>8 DEF Take, Found, Block, Same
<1>9. ASSUME NEW c \in Callers, Retake(c)
      PROVE  (\A t \in Threads : FollowedBy(t)') /\ (\A i \in 1..Len(jobs') : ImportsFirst(i)')
  BY <1>2, <1>7, <1>9 DEF Retake, Block, Same, Links, CallOK
<1>10. ASSUME \A t \in Threads : thr'[t].pc \notin {"follow", "publish"},
              \A i \in 1..Len(jobs') : jobs'[i].state = "PENDING"
      PROVE  (\A t \in Threads : FollowedBy(t)') /\ (\A i \in 1..Len(jobs') : ImportsFirst(i)')
  BY <1>10 DEF FollowedBy, ImportsFirst
<1>11. CASE ~started /\ ~started'
  <2>1. CASE Same /\ UNCHANGED <<thr, closing>>
    BY <1>2, <2>1
  <2>2. CASE FillOne
    <3>1. (Same \/ Appended) /\ thr' = thr /\ closing' = closing /\ Kept
      BY <2>2, FillJobs DEF FillOne, Kept
    <3> QED BY <1>0, <1>1, <3>1 DEF Same, Appended
  <2>3. ASSUME NEW up \in SUBSET Threads, Launch(up)
        PROVE  (\A t \in Threads : FollowedBy(t)') /\ (\A i \in 1..Len(jobs') : ImportsFirst(i)')
    <3>1. jobs' = <<>> /\ \A t \in Threads : thr'[t].pc \notin {"follow", "publish"}
      BY <1>11, <2>3 DEF Launch, NoThread
    <3> QED BY <1>10, <3>1
  <2>4. ASSUME NEW t \in Threads, Worker(t) PROVE FALSE
    BY <1>11, <2>4 DEF Worker, Claim, Fetch, Follow, Publish, Links, ThreadOK
  <2> QED
    BY <1>8, <1>9, <1>11, <2>1, <2>2, <2>3, <2>4
       DEF Next, Caller, StartPage, InnerFetch, Close, Free, Spurious, vars, Same
<1>12. ASSUME NEW up \in SUBSET Threads, Launch(up), started'
      PROVE  (\A t \in Threads : FollowedBy(t)') /\ (\A i \in 1..Len(jobs') : ImportsFirst(i)')
  <2>1. jobs' = jobs /\ \A t \in Threads : thr'[t].pc \notin {"follow", "publish"}
    BY <1>12 DEF Launch, NoThread
  <2>2. \A i \in 1..Len(jobs) : jobs[i].state = "PENDING"
    BY <1>0, <1>12 DEF Launch, Links, ClaimedByOne
  <2> QED BY <1>10, <2>1, <2>2
<1>13. CASE Free
  <2>1. jobs' = <<>> /\ \A t \in Threads : thr'[t].pc \notin {"follow", "publish"}
    BY <1>13 DEF Free, NoThread
  <2> QED BY <1>10, <2>1
<1>14. CASE Same /\ thr' = thr /\ (closing => closing')
  BY <1>2, <1>14
<1> QED
  BY <1>3, <1>4, <1>5, <1>6, <1>8, <1>9, <1>11, <1>12, <1>13, <1>14
     DEF Next, Worker, Caller, StartPage, FillOne, Launch, InnerFetch, Close, Spurious, vars, Same

-----------------------------------------------------------------------------
LEMMA InitPoolInv == Init => PoolInv
<1> SUFFICES ASSUME Init PROVE PoolInv
  OBVIOUS
<1>1. TypeOK /\ Links
  BY InitStruct DEF Struct
<1>2. jobs = <<>> /\ Len(jobs) = 0 /\ \A t \in Threads : thr[t].pc = "off"
  BY NoThreadType DEF Init
<1>3. started = FALSE /\ \A i \in 1..MaxJobs : taken[i] = 0
  BY DEF Init
<1>4. FetchedOnce /\ ClaimedByOne /\ ImportsQueuedFirst /\ Followed /\ NoEarlyExit /\ NoLostWakeup
  BY <1>2, <1>3 DEF FetchedOnce, ClaimedByOne, ImportsQueuedFirst, Followed, NoEarlyExit, NoLostWakeup
<1>5. OneOwner
  BY <1>2, <1>3, MaxJobsNat DEF OneOwner
<1> QED BY <1>1, <1>4, <1>5 DEF PoolInv

\* PoolInv is inductive: one lemma per conjunct.
LEMMA StepPoolInv == PoolInv /\ [Next]_vars => PoolInv'
<1> SUFFICES ASSUME PoolInv, [Next]_vars PROVE PoolInv'
  OBVIOUS
<1>1. TypeOK' /\ Links'
  BY StepStruct DEF PoolInv, Struct
<1>2. FetchedOnce' BY StepFetchedOnce DEF PoolInv
<1>3. ClaimedByOne' BY StepClaimedByOne DEF PoolInv
<1>4. OneOwner' BY StepOneOwner DEF PoolInv
<1>5. Followed' /\ ImportsQueuedFirst' BY <1>1, StepImports DEF PoolInv
<1>6. NoEarlyExit' BY StepNoEarlyExit DEF PoolInv
<1>7. NoLostWakeup' BY StepNoLostWakeup DEF PoolInv
<1> QED BY <1>1, <1>2, <1>3, <1>4, <1>5, <1>6, <1>7 DEF PoolInv

LEMMA PoolInvariance == Spec => []PoolInv
BY InitPoolInv, StepPoolInv, PTL DEF Spec

\* The pool of prefetch.c stays well-formed and within PF_MAX_JOBS, whatever
\* the page, the number of threads and the number of callers.
THEOREM PoolTypeCorrect == Spec => []TypeOK
<1>1. PoolInv => TypeOK BY DEF PoolInv
<1> QED BY <1>1, PoolInvariance, PTL

\* No URL is ever downloaded twice by the pool of one load (FetchedOnce), and
\* every claimed, unpublished job is in the hands of exactly one worker thread
\* (ClaimedByOne).
THEOREM PoolFetchesOnce == Spec => [](FetchedOnce /\ ClaimedByOne)
<1>1. PoolInv => FetchedOnce /\ ClaimedByOne BY DEF PoolInv
<1> QED BY <1>1, PoolInvariance, PTL

\* A fetched body has one owner (OneOwner): pf_pool_take hands a result out at
\* most once even when several threads ask for the same URL.
THEOREM PoolSingleOwner == Spec => []OneOwner
<1>1. PoolInv => OneOwner BY DEF PoolInv
<1> QED BY <1>1, PoolInvariance, PTL

\* The ordering pf_worker's comment asks for (ImportsQueuedFirst): a module
\* that can be taken has its imports in the pool, unless full or closing.
THEOREM PoolImportsFirst == Spec => []ImportsQueuedFirst
<1>1. PoolInv => ImportsQueuedFirst BY DEF PoolInv
<1> QED BY <1>1, PoolInvariance, PTL

\* The condition-variable discipline of pf_worker loses no wake-up
\* (NoLostWakeup) and abandons no job when the pool closes (NoEarlyExit).
THEOREM PoolNoLostWork == Spec => [](NoLostWakeup /\ NoEarlyExit)
<1>1. PoolInv => NoLostWakeup /\ NoEarlyExit BY DEF PoolInv
<1> QED BY <1>1, PoolInvariance, PTL
=============================================================================
