------------------------------ MODULE TabAsync ------------------------------
(***************************************************************************)
(* The background job of a tab and the window's loop (src/tab.c,           *)
(* gui/browser_ui.c).                                                      *)
(*                                                                         *)
(* Timer ticks and geometry publications run on a thread of the tab, which *)
(* uses the same pipe as every other operation.  The loop learns of its    *)
(* end through an eventfd; any other operation on the worker joins the     *)
(* thread and drops its result.  A turn of the loop is: poll, the events   *)
(* of the window, the finished job, the timer.                             *)
(***************************************************************************)
EXTENDS Naturals

CONSTANTS Ticks,     \* JS_TICKS_PER_LOAD
          MaxEv      \* bound: events of the window (clicks, scrolls, reloads)

ASSUME AsyncAssumption == Ticks \in Nat \ {0} /\ MaxEv \in Nat

VARIABLES
    pc,       \* where the loop is
    ev,       \* events dispatched so far
    ready,    \* POLLIN of the eventfd as poll returned it
    job,      \* the background job
    efd,      \* the eventfd is readable
    timers,   \* the worker has timers pending
    due,      \* js_tick_due_ms # 0
    left,     \* js_ticks_left
    mute      \* history: no report since an operation without a view ran or
              \* the thread of a tick could not be created

vars == <<pc, ev, ready, job, efd, timers, due, left, mute>>

\* job_running, job_ready, job_is_tick and job_page.  `done' is the thread's
\* end; `last' says that the worker has run nothing since.
NoJob       == [st |-> "none", tick |-> FALSE, done |-> FALSE, report |-> FALSE, last |-> FALSE]
NewJob(k)   == [NoJob EXCEPT !.st = "running", !.tick = k]
Busy        == job.st # "none"
InFlight    == job.st = "running" /\ ~job.done

Overtaken   == [job EXCEPT !.last = FALSE]

\* schedule_js_tick
Scheduled(t) == t /\ left > 0

Init ==
    /\ pc = "poll" /\ ev = 0 /\ ready = FALSE
    /\ job = NoJob /\ efd = FALSE
    /\ timers \in BOOLEAN /\ left = Ticks /\ due = timers
    /\ mute = FALSE

(***************************************************************************)
(* The thread.                                                             *)
(***************************************************************************)
JobMainSilent ==
    /\ InFlight
    /\ timers' \in BOOLEAN
    /\ job' = [job EXCEPT !.done = TRUE, !.report = job.tick /\ timers', !.last = TRUE]
    /\ UNCHANGED <<pc, ev, ready, efd, due, left, mute>>

\* job_main: OP_TICK or OP_GEOMETRY runs in the worker, whose scripts may arm
\* or clear timers; only a tick's answer reports them.
JobMain ==
    /\ InFlight
    /\ timers' \in BOOLEAN
    /\ job' = [job EXCEPT !.done = TRUE, !.report = job.tick /\ timers', !.last = TRUE]
    /\ efd' = TRUE
    /\ UNCHANGED <<pc, ev, ready, due, left, mute>>

(***************************************************************************)
(* The loop.                                                               *)
(***************************************************************************)
Poll ==
    /\ pc = "poll"
    /\ pc' = "events" /\ ready' = efd
    /\ UNCHANGED <<ev, job, efd, timers, due, left, mute>>

\* An operation on the worker: with a view in its answer (click, key, mouse,
\* popstate, socket event) or without one (submit, eval).
CallOp(k) ==
    /\ pc = "events" /\ ev < MaxEv
    /\ pc' = k /\ ev' = ev + 1
    /\ UNCHANGED <<ready, job, efd, timers, due, left, mute>>

\* tab_async_sync: join, then job_discard.  The eventfd keeps its count.
Settled == job.st = "running" => job.done

AsyncSyncNoJoin(k) ==
    /\ pc = k
    /\ pc' = IF k = "op" THEN "run" ELSE "runblind"
    /\ UNCHANGED <<ev, ready, job, efd, timers, due, left, mute>>

AsyncSyncKeep(k) ==
    /\ pc = k /\ Settled
    /\ job' = IF Busy THEN [job EXCEPT !.st = "ready"] ELSE job
    /\ pc' = IF k = "op" THEN "run" ELSE "runblind"
    /\ UNCHANGED <<ev, ready, efd, timers, due, left, mute>>

AsyncSync(k) ==
    /\ pc = k /\ Settled
    /\ job' = NoJob
    /\ pc' = IF k = "op" THEN "run" ELSE "runblind"
    /\ UNCHANGED <<ev, ready, efd, timers, due, left, mute>>

\* The operation itself; apply_click_result shows the view and schedules.
RunOp ==
    /\ pc = "run"
    /\ timers' \in BOOLEAN
    /\ due' = Scheduled(timers')
    /\ job' = Overtaken
    /\ pc' = "events" /\ mute' = FALSE
    /\ UNCHANGED <<ev, ready, efd, left>>

RunBlind ==
    /\ pc = "runblind"
    /\ timers' \in BOOLEAN
    /\ job' = Overtaken
    /\ pc' = "events" /\ mute' = TRUE
    /\ UNCHANGED <<ev, ready, efd, due, left>>

\* publish_geometry on a paint: a job unless one is busy, and a tick after it
\* to pull the view.
Armed(d) == due' = TRUE /\ left' = IF d \/ left > 0 THEN left ELSE 1

Paint ==
    /\ pc = "events" /\ ev < MaxEv
    /\ ~Busy
    /\ job' = NewJob(FALSE)
    /\ Armed(due)
    /\ ev' = ev + 1
    /\ UNCHANGED <<pc, ready, efd, timers, mute>>

\* render_current_ex: tab_close joins the job; a new worker, a new eventfd.
Render ==
    /\ pc = "events" /\ ev < MaxEv /\ Settled
    /\ job' = NoJob /\ efd' = FALSE
    /\ timers' \in BOOLEAN
    /\ left' = Ticks /\ due' = timers' /\ mute' = FALSE
    /\ ev' = ev + 1
    /\ UNCHANGED <<pc, ready>>

EndEvents ==
    /\ pc = "events"
    /\ pc' = "async"
    /\ UNCHANGED <<ev, ready, job, efd, timers, due, left, mute>>

\* on_tab_async: tab_async_finish joins, drains the eventfd and hands over
\* the result, if there is one.  The redraw publishes the geometry (r) of a
\* view that changed, or of a scroll that found the tab busy.
Report(d) == IF Busy /\ job.tick THEN Scheduled(job.report) ELSE d

Applied(r) ==
    /\ Settled
    /\ r => Busy /\ (job.tick \/ ev < MaxEv)
    /\ efd' = FALSE
    /\ mute' = IF Busy /\ job.tick THEN FALSE ELSE mute
    /\ ev' = IF r /\ ~job.tick THEN ev + 1 ELSE ev
    /\ IF r THEN job' = NewJob(FALSE) /\ Armed(Report(due))
            ELSE job' = NoJob /\ due' = Report(due) /\ UNCHANGED left

Finish(r) ==
    /\ pc = "async" /\ ready
    /\ Applied(r)
    /\ pc' = "tick"
    /\ UNCHANGED <<ready, timers>>

\* gui_quiesce: a handler about to change what the job's fetcher reads.
Quiesce(r) ==
    /\ pc = "events" /\ Busy
    /\ Applied(r)
    /\ UNCHANGED <<pc, ready, timers>>

NotReady ==
    /\ pc = "async" /\ ~ready
    /\ pc' = "tick"
    /\ UNCHANGED <<ev, ready, job, efd, timers, due, left, mute>>

\* The timer: tab_tick_async.  A busy tab puts it off; a thread that cannot
\* be created is not noticed.
TickStart ==
    /\ pc = "tick" /\ due /\ left > 0 /\ ~Busy
    /\ due' = FALSE /\ left' = left - 1
    /\ \/ job' = NewJob(TRUE) /\ UNCHANGED mute
       \/ UNCHANGED job /\ mute' = TRUE
    /\ pc' = "poll"
    /\ UNCHANGED <<ev, ready, efd, timers>>

TickBusyLost ==
    /\ pc = "tick" /\ due /\ left > 0 /\ Busy
    /\ due' = FALSE /\ left' = left - 1
    /\ pc' = "poll"
    /\ UNCHANGED <<ev, ready, job, efd, timers, mute>>

TickBusy ==
    /\ pc = "tick" /\ due /\ left > 0 /\ Busy
    /\ pc' = "poll"
    /\ UNCHANGED <<ev, ready, job, efd, timers, due, left, mute>>

\* Not due yet, or the ticks of the page are used up.
NoTick ==
    /\ pc = "tick"
    /\ ~due \/ left = 0
    /\ due' = FALSE
    /\ pc' = "poll"
    /\ UNCHANGED <<ev, ready, job, efd, timers, left, mute>>

NotYet ==
    /\ pc = "tick" /\ due
    /\ pc' = "poll"
    /\ UNCHANGED <<ev, ready, job, efd, timers, due, left, mute>>

Loop ==
    \/ Poll
    \/ \E k \in {"op", "blind"} : CallOp(k) \/ AsyncSync(k)
    \/ RunOp \/ RunBlind \/ Paint \/ Render \/ EndEvents
    \/ \E r \in BOOLEAN : Finish(r) \/ Quiesce(r)
    \/ NotReady
    \/ TickStart \/ TickBusy \/ NoTick \/ NotYet

Next == Loop \/ JobMain

\* The loop keeps turning, poll's timeout is the tick's, so a due tick is
\* reached; the thread's fetches have timeouts, so it ends.
Fairness ==
    /\ WF_vars(Loop) /\ WF_vars(JobMain)
    /\ SF_vars(TickStart)

Spec == Init /\ [][Next]_vars /\ Fairness

(***************************************************************************)
(* Properties.                                                             *)
(***************************************************************************)
TypeOK ==
    /\ pc \in {"poll", "events", "op", "blind", "run", "runblind", "async", "tick"}
    /\ ev \in 0 .. MaxEv
    /\ ready \in BOOLEAN /\ efd \in BOOLEAN /\ timers \in BOOLEAN
    /\ due \in BOOLEAN /\ mute \in BOOLEAN
    /\ job \in [st : {"none", "running", "ready"}, tick : BOOLEAN, done : BOOLEAN,
                report : BOOLEAN, last : BOOLEAN]
    /\ left \in 0 .. Ticks

\* One channel: no operation of the loop writes to or reads from the pipe
\* while the job's thread does.
PipeExclusive == pc \in {"run", "runblind"} => ~InFlight

\* A result the worker has since run another operation over is not there to
\* be applied.
NeverStale == job.done => job.last

\* Pending timers keep running: with ticks left and no job to report, a tick
\* is due, whatever order operations, paints, renders and finished jobs come
\* in.  The two exceptions of the code are in the history variable mute.
TimersArmed ==
    pc \in {"poll", "events", "async"} /\ ~Busy /\ timers /\ left > 0 => due \/ mute

\* Timers are served: with timers pending a tick starts, unless the page has
\* used up its ticks or its last report was dropped.
TickComes == timers ~> ~timers \/ left = 0 \/ (job.tick /\ InFlight) \/ mute
=============================================================================
