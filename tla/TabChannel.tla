----------------------------- MODULE TabChannel -----------------------------
(***************************************************************************)
(* One tab: the trusted parent and its confined worker process, connected  *)
(* by two pipes (src/src/tab.c), and the batch of deferred subresource     *)
(* requests the parent fetches on threads (src/src/subreq_batch.c).        *)
(*                                                                         *)
(* The parent sends one operation at a time and serves the frames the      *)
(* worker sends while it runs the page's scripts, up to TAG_RESULT.  A     *)
(* synchronous request is fetched and answered at once; a deferred one     *)
(* starts a thread, and TAG_NETWAIT asks for the replies of all deferred   *)
(* requests in issue order.  Requests are numbered in issue order; a pipe  *)
(* message stands for one frame, and a pipe holds PipeCap of them.         *)
(***************************************************************************)
EXTENDS Naturals, Sequences, SequencesExt, FiniteSets

CONSTANTS
    PipeCap,     \* messages a pipe holds before write_full blocks
    Slots,       \* TAB_ASYNC_THREADS
    MaxJobs,     \* SQB_MAX_JOBS = TAB_MAX_ASYNC_PENDING
    MaxSubreq,   \* TAB_MAX_SUBREQ, requests per operation
    MaxRounds,   \* TAB_MAX_NET_ROUNDS, drain rounds per operation
    MaxBytes,    \* TAB_MAX_BATCH_BYTES, in bodies
    MaxOps,      \* model bound: operations the parent sends
    MaxIssue,    \* model bound: requests the worker issues in all
    Ops          \* the operations the parent may send

ASSUME ChannelAssumption ==
    /\ {PipeCap, Slots, MaxJobs, MaxSubreq, MaxRounds, MaxBytes, MaxOps} \subseteq Nat \ {0}
    /\ MaxIssue \in Nat
    /\ Ops \subseteq {"load", "mutate", "geom", "quiet"}

VARIABLES
    req,     \* the pipe parent -> worker: operations and replies
    resp,    \* the pipe worker -> parent: request frames and results
    par,     \* parent: pc, operation, replies still to write, request served
    tab,     \* struct tab: alive, grants, fetcher, net budget, batch bytes
    batch,   \* sqb.jobs in issue order: id, st, ok, ctx (fetcher it runs with)
    frame,   \* the caller's pf_gated_fetch and pf_pool are still in scope
    wrk,     \* worker: pc, phase, operation, and the counters of child_state
    nq,      \* NQ of js_fetch.c: requests whose callback is registered
    got,     \* replies read by child_net_drain and not delivered yet
    seq,     \* number of requests issued so far
    done,    \* history: the last operation finished and whose result it got
    slip     \* history: what broke the exchange, see Slips

vars == <<req, resp, par, tab, batch, frame, wrk, nq, got, seq, done, slip>>
-----------------------------------------------------------------------------
OpMsg(n, o, r)  == [t |-> "op", id |-> n, op |-> o, net |-> r.net, css |-> r.css, js |-> r.js]
Reply(i, k)     == [t |-> "reply", id |-> i, ok |-> k]
Frame(tag, i, m) == [t |-> tag, id |-> i, method |-> m]

Dead   == wrk.pc = "dead"
Joined == \A i \in 1..Len(batch) : batch[i].st \in {"refused", "done"}
Running == {i \in 1..Len(batch) : batch[i].st = "run"}

NoGrant == [net |-> FALSE, css |-> FALSE, js |-> FALSE]
NoServe == [pc |-> "idle", op |-> "quiet", out |-> <<>>, id |-> 0]
Fresh   == [pc |-> "idle", phase |-> "result", op |-> "quiet", n |-> 0, js |-> FALSE,
            last_net |-> FALSE, net_active |-> FALSE, used |-> 0, pending |-> 0,
            round |-> 0, need |-> 0, wait |-> 0]

\* tab_subreq_permitted: net grants any method, css exactly GET.
Permitted(net, css, method) == net \/ (css /\ method = "GET")

Init ==
    /\ req = <<>> /\ resp = <<>> /\ par = NoServe
    /\ tab = [alive |-> TRUE, net |-> FALSE, css |-> FALSE, fetcher |-> "base",
              over |-> FALSE, bytes |-> 0, opn |-> 0, page |-> 0]
    /\ batch = <<>> /\ frame = FALSE
    /\ wrk = Fresh /\ nq = <<>> /\ got = <<>> /\ seq = 0
    /\ done = [n |-> 0, ok |-> FALSE, of |-> 0] /\ slip = "none"
-----------------------------------------------------------------------------
(***************************************************************************)
(* The parent's side.                                                      *)
(***************************************************************************)
UnchangedWorker == UNCHANGED <<wrk, nq, got, seq, slip>>

(***************************************************************************)
(* The public operations.  A load binds the pooled fetcher, which points   *)
(* into the caller's frame, and first discards the previous page's batch.  *)
(***************************************************************************)
BeginOp(op) ==
    /\ par.pc = "idle" /\ op \in Ops /\ tab.opn < MaxOps
    /\ ~Dead                               \* tab_refresh_alive
    /\ par' = [NoServe EXCEPT !.pc = IF op = "load" THEN "discard" ELSE "send", !.op = op]
    /\ tab' = [tab EXCEPT !.opn = @ + 1,
                          !.over = FALSE,  \* tab_await_result: a fresh budget
                          !.fetcher = IF op = "load" THEN "frame" ELSE @]
    /\ frame' = (op = "load")
    /\ UNCHANGED <<req, resp, batch, done>> /\ UnchangedWorker

\* Faulty variant: the load does not wait for the threads of the old batch.
DiscardNoJoin ==
    /\ par.pc = "discard"
    /\ par' = [par EXCEPT !.pc = "send"]
    /\ tab' = [tab EXCEPT !.bytes = 0]
    /\ UNCHANGED <<req, resp, batch, frame, done>> /\ UnchangedWorker

\* tab_batch_discard: joins the threads of the old page and empties the batch.
Discard ==
    /\ par.pc = "discard" /\ Joined
    /\ par' = [par EXCEPT !.pc = "send"]
    /\ batch' = <<>>
    /\ tab' = [tab EXCEPT !.bytes = 0]
    /\ UNCHANGED <<req, resp, frame, done>> /\ UnchangedWorker

\* The request is written; for a load the parent decides and keeps its grants.
Send(r) ==
    /\ par.pc = "send" /\ ~Dead /\ Len(req) < PipeCap
    /\ IF par.op = "load" THEN r.net => r.js ELSE r = NoGrant
    /\ req' = Append(req, OpMsg(tab.opn, par.op, r))
    /\ tab' = IF par.op = "load" THEN [tab EXCEPT !.net = r.net, !.css = r.css, !.page = tab.opn] ELSE tab
    /\ par' = [par EXCEPT !.pc = "serve"]
    /\ UNCHANGED <<resp, batch, frame, done>> /\ UnchangedWorker

\* The operation returns to the caller: with result `of`, or failed (io_failure).
Return(ok, of) ==
    /\ par' = [NoServe EXCEPT !.pc = IF par.op = "load" THEN "unbind" ELSE "idle"]
    /\ done' = [n |-> tab.opn, ok |-> ok, of |-> of]

Fail ==
    /\ Return(FALSE, 0)
    /\ tab' = [tab EXCEPT !.alive = ~Dead]

\* A pipe to or from a dead worker: writes get EPIPE, reads end at EOF.
Broken ==
    /\ Dead
    /\ \/ par.pc \in {"send", "reply"}
       \/ par.pc = "serve" /\ resp = <<>>
    /\ Fail
    /\ UNCHANGED <<req, resp, batch, frame>> /\ UnchangedWorker

\* The grants the current operation's requests are gated on: the load's own,
\* or after the load the page's net grant only.
Granted(m) == Permitted(tab.net, tab.css /\ par.op = "load", m)

\* tab_serve_subreq, first half: a refused request is answered without a fetch.
ServeSubreq(m) ==
    /\ par' = IF ~tab.over /\ Granted(m.method)
              THEN [par EXCEPT !.pc = "fetch", !.id = m.id]
              ELSE [par EXCEPT !.pc = "reply", !.out = <<Reply(m.id, FALSE)>>]
    /\ UNCHANGED <<tab, batch, frame, done, slip>>

\* The synchronous fetch ends; the time it took may exhaust the budget.
SyncFetched ==
    /\ par.pc = "fetch"
    /\ \E ok \in BOOLEAN : par' = [par EXCEPT !.pc = "reply", !.out = <<Reply(par.id, ok)>>]
    /\ \E o \in BOOLEAN : tab' = [tab EXCEPT !.over = @ \/ (o /\ par.op # "load")]
    /\ UNCHANGED <<req, resp, batch, frame, done>> /\ UnchangedWorker

Job(i, refused) == [id |-> i, page |-> tab.page, ok |-> FALSE, ctx |-> "none",
                    st |-> IF refused THEN "refused" ELSE "queued"]

\* Faulty variant: a request over the budget or without grant gets no slot in
\* the batch, so it is never answered.
SubmitDropped(m) ==
    /\ Len(batch) < MaxJobs
    /\ batch' = IF tab.over \/ ~Granted(m.method) THEN batch ELSE Append(batch, Job(m.id, FALSE))
    /\ UNCHANGED <<par, tab, frame, done, slip>>

\* Faulty variant: a refusal is answered at once, as for a synchronous request.
SubmitAnswered(m) ==
    IF tab.over \/ ~Granted(m.method)
    THEN /\ par' = [par EXCEPT !.pc = "reply", !.out = <<Reply(m.id, FALSE)>>]
         /\ UNCHANGED <<tab, batch, frame, done, slip>>
    ELSE /\ Len(batch) < MaxJobs
         /\ batch' = Append(batch, Job(m.id, FALSE))
         /\ UNCHANGED <<par, tab, frame, done, slip>>

\* tab_submit_async: a refused request still takes its place in the batch; when
\* the batch is full, or a thread cannot be created, the operation fails.
Submit(m) ==
    \/ /\ Len(batch) < MaxJobs
       /\ batch' = Append(batch, Job(m.id, tab.over \/ ~Granted(m.method)))
       /\ UNCHANGED <<par, tab, frame, done, slip>>
    \/ /\ Len(batch) >= MaxJobs \/ (~tab.over /\ Granted(m.method))
       /\ Fail
       /\ slip' = "refused"
       /\ UNCHANGED <<batch, frame>>

ServeResult(m) ==
    /\ Return(TRUE, m.id)
    /\ UNCHANGED <<tab, batch, frame, slip>>

\* One turn of the loops of tab_load_full and tab_await_result_inner: the next
\* tag of the response pipe.  A quiet operation accepts only its result.
ServeTag ==
    /\ par.pc = "serve" /\ resp # <<>>
    /\ LET m == Head(resp)
       IN  \/ m.t = "RESULT" /\ ServeResult(m)
           \/ m.t = "SUBREQ" /\ par.op # "quiet" /\ ServeSubreq(m)
           \/ m.t = "ASYNC" /\ par.op # "quiet" /\ Submit(m)
           \/ /\ m.t = "NETWAIT" /\ par.op # "quiet"
              /\ par' = [par EXCEPT !.pc = "join"]
              /\ UNCHANGED <<tab, batch, frame, done, slip>>
           \/ /\ m.t # "RESULT" /\ par.op = "quiet"
              /\ Fail
              /\ UNCHANGED <<batch, frame, slip>>
    /\ resp' = Tail(resp)
    /\ UNCHANGED <<req, wrk, nq, got, seq>>

\* How many of the first i jobs of the batch have a body to send.
Bodies(i) == Cardinality({k \in 1..i : batch[k].ok})

\* Faulty variant: the replies are written in the order the fetches ended.
BatchRepliesByOutcome ==
    LET r == [i \in 1..Len(batch) |-> Reply(batch[i].id, batch[i].ok)]
    IN  SelectSeq(r, LAMBDA x : x.ok) \o SelectSeq(r, LAMBDA x : ~x.ok)

\* The replies of tab_serve_netwait, in issue order; bodies over the cap are
\* replaced by refusals.
BatchReplies ==
    [i \in 1..Len(batch) |->
        Reply(batch[i].id, batch[i].ok /\ tab.bytes + Bodies(i) <= MaxBytes)]

\* tab_serve_netwait: join every thread, then write the replies.  The batch is
\* reset once they are written, which nothing observes in between.
NetWait ==
    /\ par.pc = "join" /\ Joined
    /\ par' = [par EXCEPT !.pc = IF batch = <<>> THEN "serve" ELSE "reply", !.out = BatchReplies]
    /\ \E o \in BOOLEAN :
          tab' = [tab EXCEPT !.over = @ \/ (o /\ par.op # "load"),
                             !.bytes = @ + Cardinality({i \in 1..Len(batch) : BatchReplies[i].ok})]
    /\ batch' = <<>>
    /\ UNCHANGED <<req, resp, frame, done>> /\ UnchangedWorker

\* tab_write_reply.
WriteReply ==
    /\ par.pc = "reply" /\ ~Dead /\ Len(req) < PipeCap
    /\ req' = Append(req, Head(par.out))
    /\ par' = [par EXCEPT !.out = Tail(@), !.pc = IF Len(par.out) = 1 THEN "serve" ELSE "reply"]
    /\ UNCHANGED <<resp, tab, batch, frame, done>> /\ UnchangedWorker

\* The caller's code right after tab_load_full: rebind the direct fetcher and
\* finish the pool.  A load that succeeded is shown: the caller keeps the tab
\* and leaves the frame that held the fetcher and the pool.
Unbind ==
    /\ par.pc = "unbind" /\ done.ok
    /\ tab' = [tab EXCEPT !.fetcher = "base"]
    /\ frame' = FALSE
    /\ par' = NoServe
    /\ UNCHANGED <<req, resp, batch, done>> /\ UnchangedWorker

\* The same code when the load failed, or succeeded with a navigation to
\* follow: the tab is closed (tab_close) before the frame is left.
Abandon ==
    /\ par.pc = "unbind"
    /\ tab' = [tab EXCEPT !.fetcher = "base"]
    /\ par' = [par EXCEPT !.pc = "closing"]
    /\ wrk' = [wrk EXCEPT !.pc = "dead"]
    /\ req' = <<>> /\ resp' = <<>>
    /\ UNCHANGED <<batch, frame, nq, got, seq, done, slip>>

\* tab_close: the worker is killed, then sqb_free joins the batch.
CloseTab ==
    /\ par.pc = "idle"
    /\ par' = [par EXCEPT !.pc = "closing"]
    /\ wrk' = [wrk EXCEPT !.pc = "dead"]
    /\ req' = <<>> /\ resp' = <<>>
    /\ UNCHANGED <<tab, batch, frame, nq, got, seq, done, slip>>

FreeTab ==
    /\ par.pc = "closing" /\ Joined
    /\ par' = [par EXCEPT !.pc = "closed"]
    /\ batch' = <<>>
    /\ frame' = FALSE
    /\ UNCHANGED <<req, resp, tab, done>> /\ UnchangedWorker
-----------------------------------------------------------------------------
(***************************************************************************)
(* The threads of the batch (job_main of subreq_batch.c).  The fetcher is  *)
(* read when the thread has its slot, not when the request was submitted.  *)
(***************************************************************************)
UnchangedMain == UNCHANGED <<req, resp, par, tab, frame, wrk, nq, got, seq, done, slip>>

ThreadStart(i) ==
    /\ batch[i].st = "queued" /\ Cardinality(Running) < Slots
    /\ batch' = [batch EXCEPT ![i].st = "run", ![i].ctx = tab.fetcher]
    /\ UnchangedMain

ThreadEnd(i) ==
    /\ batch[i].st = "run"
    /\ \E ok \in BOOLEAN : batch' = [batch EXCEPT ![i].st = "done", ![i].ok = ok]
    /\ UnchangedMain
-----------------------------------------------------------------------------
(***************************************************************************)
(* The worker's side.  A load runs the stylesheet window, the script       *)
(* window, the drain of deferred requests and then the video shim and the  *)
(* iframe scan; an operation on a live page runs its handlers, the drain   *)
(* and the custom element reactions; a geometry update runs observers but  *)
(* does not drain.  What is requested after the drain is left over to the  *)
(* next operation that drains; the end of a load runs no script of the     *)
(* page and fetches the iframes one by one (child_fetch).                  *)
(***************************************************************************)
UnchangedParent == UNCHANGED <<par, tab, batch, frame, done>>

AfterPhase(w) ==
    CASE w.phase = "css"    -> IF w.js THEN "script" ELSE "result"
      [] w.phase = "script" -> IF w.op = "geom" THEN "result" ELSE "drain"
      [] w.phase = "drain"  -> "tail"
      [] OTHER              -> "result"

\* Faulty variant: child_load keeps the count of requests the parent dropped.
StartLoadKeepPending(m) ==
    [wrk EXCEPT !.pc = "run", !.op = "load", !.n = m.id, !.js = m.js, !.last_net = m.net,
                !.phase = IF m.css THEN "css" ELSE IF m.js THEN "script" ELSE "result",
                !.net_active = m.css \/ m.js, !.used = 0, !.round = 0]

\* child_load and the start of child_handle_load.
StartLoad(m) ==
    [wrk EXCEPT !.pc = "run", !.op = "load", !.n = m.id, !.js = m.js, !.last_net = m.net,
                !.phase = IF m.css THEN "css" ELSE IF m.js THEN "script" ELSE "result",
                !.net_active = m.css \/ m.js, !.used = 0, !.pending = 0, !.round = 0]

\* The head of tab_worker_run's loop: the network window follows the operation.
StartOp(m) ==
    LET open == wrk.last_net /\ m.op \in {"mutate", "geom"}
    IN  [wrk EXCEPT !.pc = "run", !.op = m.op, !.n = m.id, !.round = 0,
                    !.phase = IF open THEN "script" ELSE "result",
                    !.net_active = open, !.used = IF open THEN 0 ELSE @]

\* Reads the next operation; anything else is a desync and the worker exits.
ReadOp ==
    /\ wrk.pc = "idle" /\ req # <<>>
    /\ LET m == Head(req)
       IN  IF m.t = "op"
           THEN /\ wrk' = IF m.op = "load" THEN StartLoad(m) ELSE StartOp(m)
                /\ nq' = IF m.op = "load" THEN <<>> ELSE nq
                /\ slip' = IF m.op = "load" /\ slip = "interrupt" THEN "none" ELSE slip
                /\ req' = Tail(req)
           ELSE /\ wrk' = [wrk EXCEPT !.pc = "dead"]
                /\ nq' = nq /\ req' = <<>> /\ slip' = slip
    /\ UNCHANGED <<resp, got, seq>> /\ UnchangedParent

\* child_write_subreq: the window, the budget of the operation, the pipe.
CanIssue ==
    /\ wrk.pc = "run" /\ wrk.net_active /\ wrk.used < MaxSubreq
    /\ seq < MaxIssue /\ Len(resp) < PipeCap

\* child_fetch: write the frame, then block for the reply.
IssueSync(method) ==
    /\ CanIssue
    /\ \/ wrk.phase \in {"script", "deliver", "tail"}
       \/ wrk.phase = "css" /\ method = "GET"
    /\ seq' = seq + 1
    /\ resp' = Append(resp, Frame("SUBREQ", seq + 1, method))
    /\ wrk' = [wrk EXCEPT !.pc = "sync", !.wait = seq + 1, !.used = @ + 1]
    /\ UNCHANGED <<req, nq, got, slip>> /\ UnchangedParent

\* child_fetch_async, and the shim that registers the callback (HFA).  The
\* script's deadline may strike between the two (registered = FALSE).
IssueAsync(method, registered) ==
    /\ CanIssue /\ wrk.last_net
    /\ wrk.phase \in {"script", "deliver"} \/ (wrk.phase = "tail" /\ wrk.op # "load")
    /\ wrk.pending < MaxJobs
    /\ registered \/ wrk.phase = "script"
    /\ seq' = seq + 1
    /\ resp' = Append(resp, Frame("ASYNC", seq + 1, method))
    /\ wrk' = [wrk EXCEPT !.pending = @ + 1, !.used = @ + 1]
    /\ nq' = IF registered THEN Append(nq, seq + 1) ELSE nq
    /\ slip' = IF registered \/ slip = "refused" THEN slip ELSE "interrupt"
    /\ UNCHANGED <<req, got>> /\ UnchangedParent

\* child_read_reply for a synchronous request.  An operation's bytes in place
\* of a reply fail its checks, or are swallowed while it waits for more.
ReadSync ==
    /\ wrk.pc = "sync" /\ req # <<>>
    /\ req' = Tail(req)
    /\ \/ wrk' = [wrk EXCEPT !.pc = "run", !.wait = 0]
       \/ Head(req).t = "op" /\ wrk' = wrk
    /\ UNCHANGED <<resp, nq, got, seq, slip>> /\ UnchangedParent

\* A stylesheet or script phase ends.
EndPhase ==
    /\ wrk.pc = "run" /\ wrk.phase \in {"css", "script", "tail"}
    /\ LET p == AfterPhase(wrk)
       IN  wrk' = [wrk EXCEPT !.phase = p,
                              !.net_active = IF wrk.op = "load" THEN p \in {"script", "drain"} ELSE @]
    /\ UNCHANGED <<req, resp, nq, got, seq, slip>> /\ UnchangedParent

\* child_net_drain: another round while requests are pending, or leave.
Drain ==
    /\ wrk.pc = "run" /\ wrk.phase = "drain"
    /\ \/ /\ wrk.pending > 0 /\ wrk.round < MaxRounds
          /\ Len(resp) < PipeCap
          /\ resp' = Append(resp, Frame("NETWAIT", 0, "none"))
          /\ wrk' = [wrk EXCEPT !.pc = "collect", !.need = wrk.pending, !.pending = 0]
       \/ /\ wrk.pending = 0 \/ wrk.round = MaxRounds
          /\ wrk' = [wrk EXCEPT !.phase = AfterPhase(wrk)]
          /\ resp' = resp
    /\ UNCHANGED <<req, nq, got, seq, slip>> /\ UnchangedParent

\* All replies of the round are read before any is delivered.
Collect ==
    /\ wrk.pc = "collect" /\ req # <<>>
    /\ req' = Tail(req)
    /\ IF Head(req).t = "reply"
       THEN /\ got' = Append(got, Head(req).id)
            /\ wrk' = IF Len(got) + 1 = wrk.need
                      THEN [wrk EXCEPT !.pc = "run", !.phase = "deliver", !.need = 0] ELSE wrk
       ELSE /\ got' = got
            /\ \/ wrk' = [wrk EXCEPT !.pc = "run", !.phase = "deliver", !.need = 0, !.round = MaxRounds]
               \/ wrk' = wrk
    /\ UNCHANGED <<resp, nq, seq, slip>> /\ UnchangedParent

\* jd_net_deliver: the reply goes to the callback at the head of NQ.
Deliver ==
    /\ wrk.pc = "run" /\ wrk.phase = "deliver" /\ got # <<>>
    /\ nq' = IF nq = <<>> THEN nq ELSE Tail(nq)
    /\ got' = Tail(got)
    /\ UNCHANGED <<req, resp, seq, wrk, slip>> /\ UnchangedParent

\* The round is over: microtasks are pumped and pending is looked at again.
EndRound ==
    /\ wrk.pc = "run" /\ wrk.phase = "deliver" /\ got = <<>>
    /\ wrk' = IF wrk.round = MaxRounds
              THEN [wrk EXCEPT !.phase = "drain"]
              ELSE [wrk EXCEPT !.phase = "drain", !.round = @ + 1]
    /\ UNCHANGED <<req, resp, nq, got, seq, slip>> /\ UnchangedParent

WriteResult ==
    /\ wrk.pc = "run" /\ wrk.phase = "result" /\ Len(resp) < PipeCap
    /\ resp' = Append(resp, Frame("RESULT", wrk.n, "none"))
    /\ wrk' = [wrk EXCEPT !.pc = "idle", !.net_active = FALSE]
    /\ UNCHANGED <<req, nq, got, seq, slip>> /\ UnchangedParent

\* The worker dies; what it wrote can still be read, nothing can be written.
Crash ==
    /\ ~Dead
    /\ wrk' = [wrk EXCEPT !.pc = "dead"]
    /\ req' = <<>>
    /\ UNCHANGED <<resp, nq, got, seq, slip>> /\ UnchangedParent
-----------------------------------------------------------------------------
Grants == [net : BOOLEAN, css : BOOLEAN, js : BOOLEAN]
Methods == {"GET", "POST"}

Parent ==
    \/ Discard \/ (\E r \in Grants : Send(r)) \/ Broken \/ ServeTag
    \/ SyncFetched \/ NetWait \/ WriteReply \/ Unbind \/ FreeTab

Thread(i) == i <= Len(batch) /\ (ThreadStart(i) \/ ThreadEnd(i))

Worker == ReadOp \/ ReadSync \/ EndPhase \/ Drain \/ Collect \/ Deliver \/ EndRound \/ WriteResult

Script ==
    \E m \in Methods : IssueSync(m) \/ (\E r \in BOOLEAN : IssueAsync(m, r))

\* A closed tab has nothing left to do.
Closed == par.pc = "closed" /\ UNCHANGED vars

Next ==
    \/ \E op \in Ops : BeginOp(op)
    \/ Parent
    \/ \E i \in 1..MaxJobs : Thread(i)
    \/ Worker \/ Script \/ Crash
    \/ Abandon \/ CloseTab \/ Closed

(***************************************************************************)
(* The parent's loop, the fetch threads (bounded by the fetch timeout) and *)
(* the worker are scheduled; a script ends (its deadline).  Nothing forces *)
(* a request, an operation, a crash or the close.                          *)
(***************************************************************************)
Fairness ==
    /\ WF_vars(Parent \/ Abandon) /\ WF_vars(Worker)
    /\ \A i \in 1..MaxJobs : WF_vars(Thread(i))

Spec == Init /\ [][Next]_vars /\ Fairness
-----------------------------------------------------------------------------
OpRec    == [t : {"op"}, id : Nat, op : Ops, net : BOOLEAN, css : BOOLEAN, js : BOOLEAN]
ReplyRec == [t : {"reply"}, id : Nat, ok : BOOLEAN]
FrameRec == [t : {"SUBREQ", "ASYNC", "NETWAIT", "RESULT"}, id : Nat, method : Methods \cup {"none"}]
JobRec   == [id : Nat, page : Nat, ok : BOOLEAN, ctx : {"none", "base", "frame"},
             st : {"refused", "queued", "run", "done"}]

\* The pipes, the batch and the byte budget stay within their limits.
TypeOK ==
    /\ req \in Seq(OpRec \cup ReplyRec) /\ Len(req) <= PipeCap
    /\ resp \in Seq(FrameRec) /\ Len(resp) <= PipeCap
    /\ batch \in Seq(JobRec) /\ Len(batch) <= MaxJobs
    /\ Cardinality(Running) <= Slots
    /\ par.pc \in {"idle", "discard", "send", "serve", "fetch", "reply", "join", "unbind",
                    "closing", "closed"}
    /\ par.out \in Seq(ReplyRec)
    /\ tab.bytes <= MaxBytes /\ tab.fetcher \in {"base", "frame"}
    /\ wrk.pc \in {"idle", "run", "sync", "collect", "dead"}
    /\ wrk.pending \in 0..MaxJobs /\ wrk.used <= MaxSubreq /\ wrk.round <= MaxRounds
    /\ nq \in Seq(Nat) /\ got \in Seq(Nat) /\ slip \in {"none", "interrupt", "refused"}

\* A load is under way that the worker has not seen yet: what both sides keep
\* of the old page's requests is already abandoned.
Abandoned == par.op = "load" /\ par.pc \in {"send", "serve"} /\ wrk.n # tab.opn

\* The worker waits for an answer to the last frame it wrote.
Asking == resp # <<>> /\ Last(resp).t # "ASYNC"

Ids(s) == [i \in 1..Len(s) |-> s[i].id]

\* Deferred replies on their way, and deferred requests not served yet.
Deferred(s) == IF wrk.pc = "collect" THEN Ids(s) ELSE <<>>
Unserved == [i \in 1..Len(resp) - (IF Asking THEN 1 ELSE 0) |-> resp[i].id]

\* Deferred requests whose reply the worker has not read, in the order the
\* replies will arrive: on the pipe, being written, in the batch, unserved.
Owed == Deferred(req) \o Deferred(par.out) \o Ids(batch) \o Unserved

\* Slips: the deadline of a script struck between queueing a request and
\* registering its callback ("interrupt", until the next load), which shifts
\* the later callbacks of the page; a deferred request was counted by the
\* worker and refused by the batch ("refused"), after which both ends count
\* different replies for good.
InStep == ~Dead /\ ~Abandoned /\ slip # "refused"

\* Only the last frame on the pipe asks for an answer, and replies are on their
\* way only to a worker that waits for them: all deferred ones to a drain, one
\* to a synchronous request.
FramesInTurn ==
    InStep =>
        /\ \A i \in 1..Len(resp) - 1 : resp[i].t = "ASYNC"
        /\ \A m \in Range(req) \cup Range(par.out) :
              m.t = "reply" => wrk.pc = "collect" \/ (wrk.pc = "sync" /\ m.id = wrk.wait)

\* The worker "counts replies": the parent will send exactly as many replies
\* as the worker counts as pending, whatever was refused, over budget, left
\* over by an operation that does not drain or by an exhausted round limit.
RepliesCounted ==
    InStep => Len(Owed) = wrk.pending + (IF wrk.pc = "collect" THEN wrk.need - Len(got) ELSE 0)

\* The replies reach the callbacks registered for them: the queue of callbacks
\* is the sequence of replies read and to come, in issue order.
RepliesInOrder == InStep /\ slip = "none" => nq = got \o Owed

\* A synchronous request is answered by its own reply, though deferred
\* requests are outstanding on the same pipe.
SyncAnswer ==
    InStep /\ wrk.pc = "sync" /\ req # <<>> => Head(req).t = "reply" /\ Head(req).id = wrk.wait

\* The parent sends as many replies as the worker counts on, in the order of
\* the callbacks registered for them, and the answer to a synchronous request
\* when the worker waits for it, whatever else is outstanding on the pipe
\* (tab_serve_netwait, child_net_drain, child_fetch).
RepliesMatched == FramesInTurn /\ RepliesCounted /\ RepliesInOrder /\ SyncAnswer

\* Once a page's load is sent, no thread fetches for the page before it.
NoStaleFetch ==
    par.op = "load" /\ par.pc = "serve" => \A i \in 1..Len(batch) : batch[i].page = tab.page

\* An operation that succeeds returns its own result: "A refused frame is
\* still consumed and answered, so the protocol never desyncs", and after a
\* broken exchange "the next op fails closed".
OwnResult == done.ok => done.of = done.n \/ slip = "refused"

\* Nothing fetches for the page before once a load is sent
\* (tab_batch_discard), and an operation that succeeds returns its own result.
OnlyOwnPage == NoStaleFetch /\ OwnResult

\* prefetch.md: the pf_gated_fetch outlives the load that uses it and nothing
\* points to dead memory afterwards: no thread fetches through the frame of a
\* load that returned.
FrameOutlivesFetch ==
    \A i \in 1..Len(batch) : batch[i].st = "run" /\ batch[i].ctx = "frame" => frame

\* Every operation returns: no pipe deadlock, no reply awaited for ever, also
\* when the worker dies at any point.
OpReturns ==
    par.pc \notin {"idle", "closed"} ~> par.pc \in {"idle", "closed"} \/ slip = "refused"
=============================================================================
