----------------------------- MODULE Navigation -----------------------------
(***************************************************************************)
(* Session history, loads and the live page worker of the browser window   *)
(* (src/browser.c, gui/browser_ui.c and the history shim of                *)
(* src/js_location.c).                                                     *)
(*                                                                         *)
(* The GUI thread runs one event at a time.  An event is a chain of calls  *)
(* (history_step -> tab_popstate -> apply_click_result -> do_load ...);    *)
(* `stack' holds the calls still to be made, the next one first, and one   *)
(* action executes one call.  Three other parties act: fetch threads,      *)
(* whose results come back through a pipe and are told apart by the        *)
(* generation they were launched under; the confined worker of the page on *)
(* screen, which keeps a history list of its own; and the worker's         *)
(* background tick, whose result is applied when it ends or, before that,  *)
(* by gui_quiesce in the middle of another call.  While a fetch runs, its  *)
(* thread hands what has come so far to a buffer of the window (stream),   *)
(* which the loop paints before the fetch ends.                            *)
(*                                                                         *)
(* Only equality of generations matters to the code, so a new generation   *)
(* is any value that no fetch in flight carries: the model has no bound on *)
(* the number of navigations, only on how many fetches are in flight.      *)
(***************************************************************************)
EXTENDS Integers, Sequences, FiniteSets

CONSTANTS Urls,        \* addresses of pages
          NoUrl,       \* no address: about:blank, no base URL
          Start,       \* the start page, a local file
          HMax,        \* HMAX of the history shim
          JsNavMax,    \* JS_NAV_MAX
          StepDepth,   \* HIST_STEP_DEPTH_MAX
          MaxTabs,     \* UI_MAX_TABS
          Gens,        \* values of net_gen
          MaxJobs,     \* bound: fetches in flight
          MaxDoc,      \* bound: documents a tab opens
          MaxLen,      \* bound: entries of a session history
          Features     \* parts of the environment that take part

NavAssumption ==
    /\ NoUrl \notin Urls /\ Start \in Urls
    /\ HMax \in Nat \ {0} /\ JsNavMax \in Nat /\ StepDepth \in Nat
    /\ MaxTabs \in Nat \ {0} /\ Gens \subseteq Nat
    /\ MaxJobs \in Nat /\ MaxDoc \in Nat /\ MaxLen \in Nat
    /\ Features \subseteq {"post", "leave", "tick", "tabs", "cache", "js", "stream"}

VARIABLES
    tabs,      \* tab_slots with the live tab in place: history, base URL,
               \*   document in cache and on screen, parked spinner
    act,       \* active_tab
    gen,       \* net_gen
    loading,   \* loading
    jobs,      \* fetch jobs in flight
    wk,        \* tab_worker: the document it runs and its H, hi
    tick,      \* result of the background tick, or NoTick
    jsnav,     \* js_nav_depth
    stack,     \* calls to be made
    stream,    \* the buffer of the progressive render, see NoStream
    late       \* history: a tick's report was applied within this event

vars == <<tabs, act, gen, loading, jobs, wk, tick, jsnav, stack, stream, late>>

NoDoc   == -1    \* no page
NoEntry == 0     \* a page with no entry: the start page of a new tab
OldDoc  == -2    \* what came of the page of a superseded fetch

(***************************************************************************)
(* Session history (src/browser.c): a sequence of entries, each with the   *)
(* document it belongs to; pos is 1-based, 0 when there is no entry.       *)
(***************************************************************************)
Entry(u, d) == [url |-> u, doc |-> d]

NewHistory == [hist |-> <<>>, pos |-> 0, next |-> 1]

\* append_entry: forward entries are discarded.
AppendEntry(b, u, d, next) ==
    [hist |-> Append(SubSeq(b.hist, 1, b.pos), Entry(u, d)),
     pos  |-> b.pos + 1,
     next |-> next]

NavigateTo(b, u) == AppendEntry(b, u, b.next, b.next + 1)

PushStateNext(b, u) ==
    IF b.hist = <<>> THEN b ELSE AppendEntry(b, u, b.next, b.next)

PushState(b, u) ==
    IF b.hist = <<>> THEN b ELSE AppendEntry(b, u, b.hist[b.pos].doc, b.next)

ReplaceState(b, u) ==
    IF b.hist = <<>> THEN b
    ELSE [b EXCEPT !.hist = [@ EXCEPT ![b.pos] = Entry(u, b.hist[b.pos].doc)]]

CurDoc(b) == IF b.hist = <<>> THEN NoEntry ELSE b.hist[b.pos].doc
CurUrl(b) == IF b.hist = <<>> THEN NoUrl ELSE b.hist[b.pos].url

\* browser_back / browser_forward, n times or until one is refused.
MovePos(b, n) ==
    LET p == b.pos + n
    IN  IF b.hist = <<>> THEN b
        ELSE [b EXCEPT !.pos = IF p < 1 THEN 1
                               ELSE IF p > Len(b.hist) THEN Len(b.hist) ELSE p]

\* browser_doc_index, and the run of entries it counts in.
RunOf(b, d) == {i \in 1 .. Len(b.hist) : b.hist[i].doc = d}
DocStart(b) == CHOOSE i \in RunOf(b, CurDoc(b)) :
                   \A j \in RunOf(b, CurDoc(b)) : i <= j
DocIndex(b) == b.pos - DocStart(b)
RunUrls(b)  == [i \in 1 .. Cardinality(RunOf(b, CurDoc(b))) |->
                   b.hist[DocStart(b) + i - 1].url]

(***************************************************************************)
(* The worker's history (src/js_location.c) and what one operation of it   *)
(* reports: nothing, one pushState or replaceState, a delta for the        *)
(* session history, a navigation, or a window.open of a click.             *)
(***************************************************************************)
Res(k, u, n) == [k |-> k, u |-> u, n |-> n]

NoTick == Res("notick", NoUrl, 0)
Quiet  == Res("none", NoUrl, 0)

Results ==
    {Quiet} \cup
    IF "js" \in Features
    THEN {Res(k, u, 0) : k \in {"push", "replace", "nav"}, u \in Urls}
             \cup {Res("go", NoUrl, n) : n \in {-1, 1}}
    ELSE {}

Opens == IF "tabs" \in Features THEN {Res("open", u, 0) : u \in Urls} ELSE {}

NoWorker == [up |-> FALSE, doc |-> NoDoc, tab |-> 0, H |-> <<>>, hi |-> 0,
             exact |-> FALSE, upto |-> 0]

\* A fresh document: H has the one entry it was loaded at.  `exact' and `upto'
\* are history: the session history has just that entry too, and the document
\* the session history would open next.
Loaded(t, u, d) ==
    [up |-> TRUE, doc |-> d, tab |-> t.id, H |-> <<u>>, hi |-> 0,
     exact |-> t.b.hist # <<>> /\ d = CurDoc(t.b) /\ RunUrls(t.b) = <<u>>,
     upto |-> t.b.next]

\* hop: at the limit a pushState becomes a replaceState.
Report(w, r) == IF r.k = "push" /\ w.hi + 1 >= HMax THEN [r EXCEPT !.k = "replace"] ELSE r

RunScript(w, r) ==
    LET o == Report(w, r)
    IN  CASE o.k = "push"    -> [w EXCEPT !.H  = Append(SubSeq(w.H, 1, w.hi + 1), o.u),
                                          !.hi = w.hi + 1]
          [] o.k = "replace" -> [w EXCEPT !.H = [@ EXCEPT ![w.hi + 1] = o.u]]
          [] OTHER           -> w

\* __histPop
HistPop(w, i) == IF i \in 0 .. Len(w.H) - 1 THEN [w EXCEPT !.hi = i] ELSE w

Moves(r) == r.k \in {"push", "replace"}

\* What the worker reports reaches its own document's entries only when it
\* runs the document of the current entry, and not when it is discarded.
Applied(w, r)   == [w EXCEPT !.exact = w.exact /\ (Moves(r) => w.doc = CurDoc(tabs[act].b))]
Discarded(w, r) == [w EXCEPT !.exact = w.exact /\ ~Moves(r)]

\* The page in cache loaded again, what its scripts report not applied.
FromCache(t, r) == Discarded(RunScript(Loaded(t, t.top, t.cache), r), r)

(***************************************************************************)
(* Calls.  A render carries the document its source was fetched for.       *)
(***************************************************************************)
Call(f, u, n, d) == [f |-> f, u |-> u, n |-> n, d |-> d]

LoadCall(u)    == Call("load", u, 0, 0)
RenderCall(u, d) == Call("render", u, d, 0)
LeaveCall      == Call("leave", NoUrl, 0, 0)
SwitchCall(i)  == Call("switch", NoUrl, i, 0)
TabCall(u)     == Call("tab", u, 0, 0)
StepCall(n, d) == Call("step", NoUrl, n, d)
PopCall(d)     == Call("pop", NoUrl, 0, d)

Cur    == tabs[act]
Idle   == stack = <<>>
Top(f) == stack # <<>> /\ Head(stack).f = f
Done(calls) == stack' = calls \o Tail(stack)

SetCur(t) == tabs' = [tabs EXCEPT ![act] = t]

\* Room in the bounds for what an event may add.
CanFetch == Cardinality(jobs) < MaxJobs
Room     == Cur.b.next < MaxDoc /\ Cur.b.pos < MaxLen /\ CanFetch
Fits(r)  == /\ r.k \in {"push", "nav", "open"} => Room
            /\ r.k = "go" => CanFetch

NextGen ==
    LET used == {gen} \cup {j.gen : j \in jobs}
    IN  CHOOSE g \in Gens : g \notin used

\* net_gen++
NoBump == UNCHANGED gen

Bump == /\ Gens \ ({gen} \cup {j.gen : j \in jobs}) # {}
        /\ gen' = NextGen

\* fetch_launch under the generation just taken, then show_busy.
Launch(u, post) ==
    /\ jobs' = jobs \cup {[gen |-> gen', url |-> u, tab |-> Cur.id,
                           doc |-> CurDoc(Cur.b), post |-> post]}
    /\ loading' = TRUE

\* The progressive render: stream_launch_gen is net_gen (open), the document
\* of which stream_body holds a part, and stream_evfd is readable (sig).
NoStream == [open |-> TRUE, doc |-> NoDoc, sig |-> FALSE]

\* What net_gen++ and fetch_launch mean for the buffer: stream_launch_gen
\* follows net_gen when a fetch is launched, and the page in the buffer is now
\* that of a superseded fetch.
Superseded ==
    IF gen' = gen THEN stream
    ELSE [stream EXCEPT !.open = (jobs' # jobs \/ "stream" \notin Features),
                        !.doc  = IF @ = NoDoc THEN NoDoc ELSE OldDoc]

\* tab_save of a tab whose fetch is abandoned; drop_repl_worker.
Park(t)     == [t EXCEPT !.ld = FALSE]
KeepWorker  == UNCHANGED wk
DropWorker  == wk' = NoWorker

\* clear_doc; set_cache(NULL); both: the page is gone without another one in
\* its place.
ClearDoc(t) == [t EXCEPT !.view = NoDoc]
Uncache(t)  == [t EXCEPT !.top = NoUrl, !.cache = NoDoc]
Blank(t)    == [t EXCEPT !.top = NoUrl, !.cache = NoDoc, !.view = NoDoc]

(***************************************************************************)
(* apply_click_result: the result r of an operation on the live worker.    *)
(* `calls' are the calls left to make after it, d is hist_depth.           *)
(***************************************************************************)
ApplyOps(t, r) ==
    CASE t.b.hist # <<>> /\ r.k = "push" ->
             [t EXCEPT !.b = PushState(t.b, r.u), !.top = r.u]
      [] t.b.hist # <<>> /\ r.k = "replace" ->
             [t EXCEPT !.b = ReplaceState(t.b, r.u), !.top = r.u]
      [] OTHER -> t

Jumps(r) == r.k = "nav" /\ jsnav < JsNavMax

ApplyResult(t, r, d, calls) ==
    /\ jsnav' = IF Jumps(r) THEN jsnav + 1 ELSE jsnav
    /\ SetCur(IF Jumps(r) THEN [t EXCEPT !.b = NavigateTo(t.b, r.u)]
              ELSE ApplyOps([t EXCEPT !.view = wk.doc], r))
    /\ stack' = CASE Jumps(r)                      -> <<LoadCall(r.u)>> \o calls
                  [] r.k = "open"                  -> <<TabCall(r.u)>> \o calls
                  [] r.k = "go" /\ d < StepDepth   -> <<StepCall(r.n, d + 1)>> \o calls
                  [] OTHER                         -> calls

(***************************************************************************)
(* Events of the main loop.                                                *)
(***************************************************************************)
\* go_omnibox, follow_link: browser_navigate, then do_load.
Navigate(u) ==
    /\ Idle /\ Room
    /\ SetCur([Cur EXCEPT !.b = NavigateTo(Cur.b, u)])
    /\ stack' = <<LoadCall(u)>>
    /\ UNCHANGED <<act, gen, loading, jobs, wk, tick, jsnav>>

\* about:blank from the omnibox: do_load with no entry.
GoBlank ==
    /\ "leave" \in Features
    /\ Idle
    /\ stack' = <<LoadCall(NoUrl)>>
    /\ UNCHANGED <<tabs, act, gen, loading, jobs, wk, tick, jsnav>>

\* load_current: Reload, F5.
Reload ==
    /\ Idle
    /\ Cur.b.hist # <<>>
    /\ CanFetch
    /\ stack' = <<LoadCall(CurUrl(Cur.b))>>
    /\ UNCHANGED <<tabs, act, gen, loading, jobs, wk, tick, jsnav>>

\* Back, Forward.
Step(n) ==
    /\ Idle
    /\ CanFetch
    /\ stack' = <<StepCall(n, 0)>>
    /\ UNCHANGED <<tabs, act, gen, loading, jobs, wk, tick, jsnav>>

\* do_submit_post: no gui_quiesce before the generation is taken.
SubmitPost(u) ==
    /\ "post" \in Features
    /\ Idle
    /\ Cur.view # NoDoc /\ CanFetch
    /\ Bump
    /\ \/ Launch(u, TRUE) /\ UNCHANGED <<tabs, stack>>
       \/ /\ "leave" \in Features
          /\ loading' = FALSE /\ UNCHANGED jobs
          /\ SetCur(ClearDoc(Cur))
          /\ stack' = <<LeaveCall>>
    /\ UNCHANGED <<act, wk, tick, jsnav>>

\* dispatch_click, gui_ws_emit, key and mouse events: any time, also while a
\* load is in flight.  tab_async_sync first drops the tick's result.
WorkerEvent(r) ==
    /\ Idle
    /\ wk.up /\ Fits(r)
    /\ wk' = Applied(RunScript(Discarded(wk, tick), r), r)
    /\ tick' = NoTick
    /\ ApplyResult(Cur, Report(wk, r), 0, <<>>)
    /\ UNCHANGED <<act, gen, loading, jobs>>

\* The loop's timer: tab_tick_async, not while a load is in flight.
TickStart(r) ==
    /\ "tick" \in Features
    /\ Idle /\ wk.up /\ ~loading /\ tick = NoTick /\ Fits(r)
    /\ wk' = RunScript(wk, r)
    /\ tick' = Report(wk, r)
    /\ UNCHANGED <<tabs, act, gen, loading, jobs, jsnav, stack>>

\* on_tab_async
TickDone ==
    /\ Idle /\ tick # NoTick
    /\ tick' = NoTick
    /\ wk' = Applied(wk, tick)
    /\ ApplyResult(Cur, tick, 0, <<>>)
    /\ UNCHANGED <<act, gen, loading, jobs>>

\* deliver_fetch_result.  A navigation that saves a download or fails leaves
\* the worker of the page before it.
StaleNever(j) == FALSE

Stale(j) == j.gen # gen

DropResult(j) ==
    /\ Stale(j)
    /\ UNCHANGED <<tabs, loading, stack>>

DeliverPage(j) ==
    /\ ~Stale(j)
    /\ loading' = FALSE
    /\ stack' = <<RenderCall(j.url, j.doc)>>
    /\ UNCHANGED tabs

DeliverRedirect(j, u) ==
    /\ ~Stale(j) /\ j.post /\ Room
    /\ loading' = FALSE
    /\ SetCur([Cur EXCEPT !.b = NavigateTo(Cur.b, u)])
    /\ stack' = <<LoadCall(u)>>

DeliverFailure(j) ==
    /\ "leave" \in Features /\ ~Stale(j)
    /\ loading' = FALSE
    /\ SetCur(ClearDoc(Cur))
    /\ stack' = <<LeaveCall>>

DeliverDownload(j) ==
    /\ "leave" \in Features /\ ~Stale(j)
    /\ loading' = FALSE
    /\ UNCHANGED <<tabs, stack>>

Deliver(j) ==
    /\ Idle
    /\ jobs' = jobs \ {j}
    /\ \/ DropResult(j)
       \/ DeliverPage(j)
       \/ \E u \in Urls : DeliverRedirect(j, u)
       \/ DeliverFailure(j)
       \/ DeliverDownload(j)
    /\ UNCHANGED <<act, gen, wk, tick, jsnav>>

\* render_current: theme, zoom, list edits.  The load scripts run again and
\* what they report is not applied.
Rerender(r) ==
    /\ "cache" \in Features
    /\ Idle /\ Cur.cache # NoDoc
    /\ wk' = FromCache(Cur, r)
    /\ tick' = NoTick
    /\ jsnav' = 0
    /\ SetCur([Cur EXCEPT !.view = Cur.cache])
    /\ UNCHANGED <<act, gen, loading, jobs, stack>>

\* freebug_repl_worker: a worker for the page in cache.
Rebind(r) ==
    /\ "cache" \in Features
    /\ Idle /\ ~wk.up /\ Cur.cache # NoDoc
    /\ wk' = FromCache(Cur, r)
    /\ UNCHANGED <<tabs, act, gen, loading, jobs, tick, jsnav, stack>>

\* A failed evaluation closes the worker (close_page_worker).
LoseWorker ==
    /\ "cache" \in Features
    /\ Idle /\ wk.up
    /\ wk' = NoWorker /\ tick' = NoTick
    /\ UNCHANGED <<tabs, act, gen, loading, jobs, jsnav, stack>>

SwitchTab(i) ==
    /\ Idle
    /\ i \in 1 .. Len(tabs) \ {act}
    /\ stack' = <<SwitchCall(i)>>
    /\ UNCHANGED <<tabs, act, gen, loading, jobs, wk, tick, jsnav>>

OpenTab ==
    /\ "tabs" \in Features
    /\ Idle /\ CanFetch
    /\ stack' = <<TabCall(NoUrl)>>
    /\ UNCHANGED <<tabs, act, gen, loading, jobs, wk, tick, jsnav>>

\* uitab_close
Without(s, i) == [k \in 1 .. Len(s) - 1 |-> IF k < i THEN s[k] ELSE s[k + 1]]

CloseActive ==
    /\ Idle /\ Len(tabs) > 1
    /\ Bump
    /\ DropWorker /\ tick' = NoTick
    /\ tabs' = Without(tabs, act)
    /\ act' = IF act > Len(tabs) - 1 THEN Len(tabs) - 1 ELSE act
    /\ loading' = tabs'[act'].ld
    /\ UNCHANGED <<jobs, jsnav, stack>>

CloseParked(i) ==
    /\ Idle
    /\ i \in 1 .. Len(tabs) \ {act}
    /\ tabs' = Without(tabs, i)
    /\ act' = IF i < act THEN act - 1 ELSE act
    /\ UNCHANGED <<gen, loading, jobs, wk, tick, jsnav, stack>>

(***************************************************************************)
(* Calls.  gui_quiesce at their start applies a tick that is under way.    *)
(***************************************************************************)
Quiesces == {"load", "render", "leave", "switch", "tab"}

Quiesce ==
    /\ stack # <<>> /\ Head(stack).f \in Quiesces
    /\ tick # NoTick
    /\ tick' = NoTick
    /\ wk' = Applied(wk, tick)
    /\ ApplyResult(Cur, tick, 0, stack)
    /\ UNCHANGED <<act, gen, loading, jobs>>

Runs(f) == Top(f) /\ (f \in Quiesces => tick = NoTick)

\* do_load: an address on the network is launched, a local file is rendered
\* at once, and a gate or a failed launch leaves an empty page.
LoadStep ==
    /\ Runs("load")
    /\ Bump
    /\ LET u == Head(stack).u
       IN  \/ /\ u \in Urls \ {Start}
              /\ Launch(u, FALSE)
              /\ Done(<<>>) /\ UNCHANGED tabs
           \/ /\ u = Start
              /\ loading' = FALSE
              /\ Done(<<RenderCall(u, CurDoc(Cur.b))>>) /\ UNCHANGED <<jobs, tabs>>
           \/ /\ u = NoUrl \/ "leave" \in Features
              /\ loading' = FALSE
              /\ SetCur(Blank(Cur))
              /\ Done(<<>>) /\ UNCHANGED jobs
    /\ UNCHANGED <<act, wk, tick, jsnav>>

\* set_cache and render_current_ex(w, 1): the worker is replaced and the load
\* scripts report r; a navigation they ask for replaces the page unseen.
RenderStep(r) ==
    /\ Runs("render") /\ Fits(r)
    /\ LET u == Head(stack).u
           t == [Cur EXCEPT !.top = u, !.cache = Head(stack).n]
           w == Loaded(t, u, t.cache)
       IN  IF Jumps(r)
           THEN /\ wk' = NoWorker
                /\ SetCur([t EXCEPT !.b = NavigateTo(t.b, r.u), !.view = NoDoc])
                /\ Done(<<LoadCall(r.u)>>)
           ELSE /\ wk' = RunScript(w, r)
                /\ SetCur(ApplyOps([t EXCEPT !.view = t.cache], Report(w, r)))
                /\ Done(<<>>)
    /\ jsnav' = IF r.k # "nav" THEN 0 ELSE IF Jumps(r) THEN jsnav + 1 ELSE jsnav
    /\ UNCHANGED <<act, gen, loading, jobs, tick>>

\* tab_open or tab_load_full failed: no worker, an error on screen.
RenderFails ==
    /\ Runs("render") /\ "leave" \in Features
    /\ wk' = NoWorker
    /\ SetCur([Cur EXCEPT !.top = Head(stack).u, !.cache = Head(stack).n,
                          !.view = NoDoc])
    /\ Done(<<>>)
    /\ UNCHANGED <<act, gen, loading, jobs, tick, jsnav>>

\* The end of show_fetch_error and of do_submit_post without a fetch.  The
\* page was cleared before gui_quiesce (set_cache): a tick that was settled
\* here has painted it again.
LeaveStep ==
    /\ Runs("leave")
    /\ SetCur(Uncache(Cur))
    /\ Done(<<>>)
    /\ UNCHANGED <<act, gen, loading, jobs, wk, tick, jsnav>>

\* history_step: same document and a live worker: tab_popstate; otherwise
\* load_current.
AfterMoveOldUrl(from, b, d) ==
    IF b.pos = from.pos THEN <<>>
    ELSE IF wk.up /\ CurDoc(b) = CurDoc(from) THEN <<PopCall(d)>>
    ELSE <<LoadCall(CurUrl(from))>>

AfterMove(from, b, d) ==
    IF b.pos = from.pos THEN <<>>
    ELSE IF wk.up /\ CurDoc(b) = CurDoc(from) THEN <<PopCall(d)>>
    ELSE <<LoadCall(CurUrl(b))>>

StepStep ==
    /\ Top("step")
    /\ LET b == MovePos(Cur.b, Head(stack).n)
       IN  /\ SetCur([Cur EXCEPT !.b = b])
           /\ Done(AfterMove(Cur.b, b, Head(stack).d))
    /\ UNCHANGED <<act, gen, loading, jobs, wk, tick, jsnav>>

\* tab_popstate: the worker moves to the entry and its handlers report r.
PopStep(r) ==
    /\ Top("pop") /\ Fits(r)
    /\ LET w == HistPop(Discarded(wk, tick), DocIndex(Cur.b))
       IN  /\ wk' = [Applied(RunScript(w, r), r) EXCEPT
                         !.exact = @ /\ w.doc = CurDoc(Cur.b)]
           /\ ApplyResult([Cur EXCEPT !.top = CurUrl(Cur.b)], Report(w, r),
                          Head(stack).d, Tail(stack))
    /\ tick' = NoTick
    /\ UNCHANGED <<act, gen, loading, jobs>>

\* tab_popstate failed: the worker did not move, and the entry is loaded.
PopFails ==
    /\ Top("pop")
    /\ Done(<<LoadCall(CurUrl(Cur.b))>>)
    /\ tick' = NoTick
    /\ wk' = [wk EXCEPT !.exact = FALSE]
    /\ UNCHANGED <<tabs, act, gen, loading, jobs, jsnav>>

\* tab_switch: the fetch in flight is abandoned.
SwitchStep ==
    /\ Runs("switch")
    /\ Bump
    /\ DropWorker
    /\ tabs' = [tabs EXCEPT ![act] = Park(Cur)]
    /\ act' = Head(stack).n
    /\ loading' = tabs[Head(stack).n].ld
    /\ Done(<<>>)
    /\ UNCHANGED <<jobs, tick, jsnav>>

\* tab_new, placed after the active tab.
NewTab(id, b) == [id |-> id, b |-> b, top |-> NoUrl, cache |-> NoDoc,
                  view |-> NoDoc, ld |-> FALSE]

Inserted(s, i, t) ==
    [k \in 1 .. Len(s) + 1 |-> IF k < i THEN s[k] ELSE IF k = i THEN t ELSE s[k - 1]]

FreeId == CHOOSE i \in 1 .. MaxTabs : \A k \in 1 .. Len(tabs) : tabs[k].id # i

TabStep ==
    /\ Runs("tab")
    /\ IF Len(tabs) >= MaxTabs
       THEN Done(<<>>) /\ UNCHANGED <<tabs, act, loading, wk>>
       ELSE LET u == Head(stack).u
                b == IF u = NoUrl THEN NewHistory ELSE NavigateTo(NewHistory, u)
            IN  /\ tabs' = Inserted([tabs EXCEPT ![act] = Park(Cur)], act + 1,
                                    NewTab(FreeId, b))
                /\ act' = act + 1
                /\ loading' = FALSE
                /\ DropWorker
                /\ Done(<<LoadCall(IF u = NoUrl THEN Start ELSE u)>>)
    /\ UNCHANGED <<gen, jobs, tick, jsnav>>

(***************************************************************************)
(* The progressive render.                                                 *)
(***************************************************************************)
\* stream_progress_cb, on the thread of a GET, about once a second.  The check
\* compares two fields of the window, so once the next fetch is launched it
\* holds for the superseded one too.
StreamChunk(j) ==
    /\ ~j.post /\ stream.open
    /\ stream' = [stream EXCEPT !.doc = IF j.gen = gen THEN j.doc ELSE OldDoc, !.sig = TRUE]
    /\ UNCHANGED <<tabs, act, gen, loading, jobs, wk, tick, jsnav, stack>>

\* The loop's event outside a load, or within 250 ms of the last one.
StreamSkip ==
    /\ Idle /\ stream.sig
    /\ stream' = [stream EXCEPT !.sig = FALSE]
    /\ UNCHANGED <<tabs, act, gen, loading, jobs, wk, tick, jsnav, stack>>

\* The loop's event: the buffer becomes cur_html, the base URL stays what it
\* was, and render_current runs what came of the page.  (A signal whose page
\* was already taken paints the cache again, as Rerender does.)
StreamPaint(r) ==
    /\ Idle /\ stream.sig /\ loading /\ stream.doc # NoDoc
    /\ LET t == [Cur EXCEPT !.cache = stream.doc, !.view = stream.doc]
       IN  SetCur(t) /\ wk' = FromCache(t, r)
    /\ tick' = NoTick /\ jsnav' = 0
    /\ stream' = [stream EXCEPT !.doc = NoDoc, !.sig = FALSE]
    /\ UNCHANGED <<act, gen, loading, jobs, stack>>

StreamStep ==
    /\ "stream" \in Features
    /\ \/ \E j \in jobs : StreamChunk(j)
       \/ StreamSkip
       \/ \E r \in Results : StreamPaint(r)

(***************************************************************************)
(* The window opens with one tab and navigates to its first address.       *)
(***************************************************************************)
Init ==
    /\ \E u \in Urls \ {Start} :
          /\ tabs = <<NewTab(1, NavigateTo(NewHistory, u))>>
          /\ stack = <<LoadCall(u)>>
    /\ act = 1
    /\ gen = 0 /\ loading = FALSE /\ jobs = {}
    /\ wk = NoWorker /\ tick = NoTick
    /\ jsnav = 0 /\ stream = NoStream /\ late = FALSE

Event ==
    \/ \E u \in Urls : Navigate(u) \/ SubmitPost(u)
    \/ GoBlank
    \/ Reload
    \/ \E n \in {-1, 1} : Step(n)
    \/ \E r \in Results \cup Opens : WorkerEvent(r)
    \/ \E r \in Results : TickStart(r) \/ Rerender(r) \/ Rebind(r)
    \/ TickDone
    \/ \E j \in jobs : Deliver(j)
    \/ LoseWorker
    \/ \E i \in 1 .. MaxTabs : SwitchTab(i) \/ CloseParked(i)
    \/ OpenTab
    \/ CloseActive

CallStep ==
    \/ Quiesce
    \/ LoadStep
    \/ \E r \in Results : RenderStep(r) \/ PopStep(r)
    \/ RenderFails
    \/ LeaveStep
    \/ StepStep
    \/ PopFails
    \/ SwitchStep
    \/ TabStep

\* The bookkeeping of late, until the event has made its last call.
Settles == stack # <<>> /\ Head(stack).f \in Quiesces /\ tick \notin {NoTick, Quiet}

Next ==
    \/ /\ Event \/ CallStep
       /\ stream' = Superseded
       /\ late' = (stack' # <<>> /\ (late \/ Settles))
    \/ StreamStep /\ UNCHANGED late

Spec == Init /\ [][Next]_vars

(***************************************************************************)
(* Properties.                                                             *)
(***************************************************************************)
Histories == [hist : Seq([url : Urls, doc : Nat \ {0}]), pos : Nat, next : Nat \ {0}]
Tab    == [id : 1 .. MaxTabs, b : Histories, top : Urls \cup {NoUrl},
           cache : Int, view : Int, ld : BOOLEAN]
Job    == [gen : Gens, url : Urls, tab : 1 .. MaxTabs, doc : Nat, post : BOOLEAN]
Worker == [up : BOOLEAN, doc : Int, tab : Nat, H : Seq(Urls \cup {NoUrl}),
           hi : Nat, exact : BOOLEAN, upto : Nat]
Result == [k : {"notick", "none", "push", "replace", "nav", "go", "open"},
           u : Urls \cup {NoUrl}, n : Int]
Calls  == [f : {"load", "render", "leave", "switch", "tab", "step", "pop"},
           u : Urls \cup {NoUrl}, n : Int, d : Nat]

\* Types, an active tab that exists, a position inside its history and a
\* worker history that hi indexes and HMAX bounds.
TypeOK ==
    /\ tabs \in Seq(Tab) /\ act \in 1 .. Len(tabs) /\ Len(tabs) <= MaxTabs
    /\ gen \in Gens \cup {0} /\ loading \in BOOLEAN /\ jobs \subseteq Job
    /\ wk \in Worker /\ (wk.up => wk.hi < Len(wk.H) /\ Len(wk.H) <= HMax)
    /\ tick \in Result /\ jsnav \in 0 .. JsNavMax
    /\ stack \in Seq(Calls) /\ stream \in [open : BOOLEAN, doc : Int, sig : BOOLEAN]

\* A session history: the position is on an entry, and documents appear in
\* the order they were opened, so each one's entries are contiguous, and the
\* next document's number is unused (append_entry, browser_navigate).
Ordered(b) ==
    /\ b.pos \in 0 .. Len(b.hist)
    /\ b.hist # <<>> => b.pos # 0
    /\ \A i, j \in 1 .. Len(b.hist) : i <= j => b.hist[i].doc <= b.hist[j].doc
    /\ \A i \in 1 .. Len(b.hist) : b.hist[i].doc < b.next

\* Every tab's history is ordered, whatever mix of navigations, pushState,
\* replaceState, steps, redirects and tab changes made it: browser_doc_index
\* relies on the contiguity spec/browser.md 3b states.
HistoryOrdered == \A k \in 1 .. Len(tabs) : Ordered(tabs[k].b)

\* The spinner is never left on: it shows only while a fetch of the current
\* generation is in flight, the one that will clear it (deliver_fetch_result).
LoadingHasJob == loading => \E j \in jobs : j.gen = gen

\* The one result that would be painted belongs to the active tab and to the
\* document of its current entry: switching, closing, stepping and
\* renavigating all leave older results to be dropped.
InFlightCurrent ==
    Idle => /\ \A j \in jobs : j.gen = gen => j.tab = Cur.id /\ j.doc = CurDoc(Cur.b)
            /\ \A i, j \in jobs : i.gen = gen /\ j.gen = gen => i = j

\* Clicks go to the worker of the page on screen: the live worker belongs to
\* the active tab and runs the document it shows.
ClicksReachPage ==
    wk.up /\ Cur.view # NoDoc => wk.tab = Cur.id /\ wk.doc = Cur.view

\* Where a document was loaded at its only entry, no report of its scripts and
\* no step was lost on it and no document was opened after it, the worker's
\* list and index are the session history's.  (A worker outlives a load that
\* fails or is saved; the entries it cut off are still in the worker's list.)
Mirror ==
    Idle /\ tick = NoTick /\ wk.up /\ wk.exact /\ wk.upto = Cur.b.next
    /\ wk.doc = CurDoc(Cur.b)
       => RunUrls(Cur.b) = wk.H /\ DocIndex(Cur.b) = wk.hi

\* What a step may put on screen.  One exception is the screen a failed load
\* left empty: the worker of the page before it is still alive there, and its
\* next result paints that page again.  The report of a tick that gui_quiesce
\* applies inside a call (late) is left out: when it navigates while the
\* answer to a form is rendered, the answer is still painted, and its page is
\* not that of the current entry.  The other exception is the progressive
\* render: while a fetch is awaited, the buffer may hold what came of a fetch
\* before it (OldDoc), see ScreenCurrent.
PaintsCurrent ==
    LET t == tabs'[act']
    IN  ~late /\ t.id = Cur.id /\ t.view # Cur.view /\ t.view # NoDoc
           => \/ t.view \in {CurDoc(t.b), Cur.cache}
              \/ Cur.view = NoDoc /\ Cur.cache = NoDoc /\ t.view = wk.doc
              \/ t.view = OldDoc /\ stream.doc = OldDoc /\ stream.sig /\ loading

\* A new page on screen is the page of the current entry, whole or what came
\* of it so far, or the one in cache painted again: the results of superseded
\* navigations, of other tabs and of the worker of a page that was left are
\* not painted.  Only the progressive render of a load in progress may show
\* what the buffer kept of a superseded one.
NeverPaintStale == [][PaintsCurrent]_vars

\* What fetch_launch and stream_progress_cb say of the progressive render: it
\* "discards its data if the main thread starts a new navigation", so that no
\* page of a superseded fetch is on screen.  The code does not have this.
ScreenCurrent == Cur.view # OldDoc

LoadsOwnEntry ==
    Top("load") /\ gen' # gen /\ Head(stack).u # NoUrl /\ Cur.b.hist # <<>> /\ ~late
       => Head(stack).u = CurUrl(Cur.b)

\* do_load loads the address of the current entry: nothing moves the history
\* between the moment an event picks an address and its launch, but for the
\* report of a tick that gui_quiesce applies in do_load itself (late).
LoadsCurrent == [][LoadsOwnEntry]_vars

InputsStable == tick # NoTick /\ tick' = tick => tabs'[act'].top = Cur.top

\* While a background tick runs, the base URL its fetcher reads is left
\* alone: each call that changes it settles the tick first (gui_quiesce).
FetcherInputsStable == [][InputsStable]_vars

\* The entries of a document are contiguous, and where nothing of a script was
\* discarded the worker's list and index are the session history's.
HistoriesAgree == HistoryOrdered /\ Mirror

\* The fetch that will clear the spinner is in flight while it shows, and the
\* one result that deliver_fetch_result would paint belongs to the active tab
\* and to the document of its current entry.
FetchesCurrent == LoadingHasJob /\ InFlightCurrent

\* do_load loads the address of the current entry, and what the fetcher of a
\* background tick reads is left alone while it runs.
LoadsStable == LoadsCurrent /\ FetcherInputsStable
=============================================================================
