------------------------------ MODULE PageEvents ------------------------------
(***************************************************************************)
(* What a page's handlers ask for, and what the window makes of it.  The   *)
(* window sends the worker an operation for every input event, timer and   *)
(* layout (src/tab.c); the worker runs the page's handlers, which may ask  *)
(* for a navigation (js_location.c), a new window or a change of their     *)
(* localStorage (js_trusted.c); most replies carry what was asked for, and *)
(* the window applies it (apply_click_result and render_current_ex of      *)
(* gui/browser_ui.c) and keeps the storage of each origin (web_storage.c). *)
(*                                                                         *)
(* The transport of the operations is TabChannel, the session history      *)
(* Navigation: here a load arrives or is superseded, and no more.          *)
(***************************************************************************)
EXTENDS Naturals, Sequences, FiniteSets, SequencesExt

CONSTANTS Origins,     \* the sites
          Trusted,     \* those on allow.conf and js.conf
          NavMax,      \* JS_NAV_MAX
          MaxOpens,    \* requests the open shim records
          MaxOrigins,  \* WST_MAX_ORIGINS
          MaxOps,      \* bound: operations and loads
          MaxAsks,     \* bound: requests of scripts
          NoOrigin

EventsAssumption ==
    /\ Trusted \subseteq Origins /\ NoOrigin \notin Origins
    /\ {NavMax, MaxOpens, MaxOps, MaxAsks} \subseteq Nat /\ MaxOrigins \in Nat \ {0}

VARIABLES
    page,    \* the page shown: [n, origin], n counts loads
    live,    \* w->tab_worker # NULL
    wk,      \* the page's requests in the worker: [nav, opens, val, dirty]
    job,     \* the result of a background tick, or NoJob
    loading, \* the origin a load is under way for, or NoOrigin
    depth,   \* js_nav_depth
    store,   \* the window's storage: [origin, val] entries, the last written last
    asks,    \* requests made so far
    ops,     \* operations and loads so far
    fired,   \* history: the events last dispatched, each with its operation
    opened   \* history: the windows opened, each with the request for it

vars == <<page, live, wk, job, loading, depth, store, asks, ops, fired, opened>>

NoNav == <<>>
NoJob == [is |-> "none"]
Fresh(v) == [nav |-> NoNav, opens |-> <<>>, val |-> v, dirty |-> FALSE]

(*------------------------------ operations -------------------------------*)

\* The operations: a click, an event of a control, a mouse event, both of a
\* kind that activates the page and of one that does not, a timer, a step of
\* the page's own history, an event of a socket, a layout, a form's submit and
\* a line of the console.
Ops == {"click", "keydown", "focus", "mousedown", "mouseover", "tick",
        "popstate", "wsevent", "geom", "submit", "eval"}

\* The events an operation dispatches.  child_handle_event and
\* child_handle_mouse end in child_handle_mutation with the node they were
\* given, which dispatches a click to it.
Dispatches(op) ==
    IF op \in {"keydown", "focus", "mousedown", "mouseover"} THEN <<op, "click">>
    ELSE <<op>>

\* The operations whose reply carries the page and its requests.
Reports(op) == op \notin {"geom", "submit", "eval"}

\* A click, or an event of the kinds of is_activation_event.
Gesture(op) == op \in {"click", "keydown", "mousedown"}

\* Sent to trusted pages only.
Allowed(op) == op \in {"geom", "wsevent"} => page.origin \in Trusted

(*-------------------------------- scripts --------------------------------*)

\* What one handler does.  Only a trusted page has open and localStorage.
Acts(o) ==
    {[is |-> "none"]} \cup [is : {"nav"}, to : Origins]
    \cup IF o \in Trusted THEN {[is |-> "open"], [is |-> "store"]} ELSE {}

\* The shims: a later navigation replaces an earlier one, windows queue up to
\* the bound, a write marks the store.
AskOpen(w, ask) ==
    IF Len(w.opens) < MaxOpens THEN [w EXCEPT !.opens = Append(@, ask)] ELSE w

RunOne(w, act, op, k) ==
    CASE act.is = "nav" -> [w EXCEPT !.nav = <<act.to>>]
      [] act.is = "open" -> AskOpen(w, [id |-> k, op |-> op, page |-> page'.n])
      [] act.is = "store" -> [w EXCEPT !.val = @ \cup {[by |-> page'.origin, id |-> k]},
                                       !.dirty = TRUE]
      [] OTHER -> w

\* The handlers of the events dispatched, in turn.
Run(w, acts, op) ==
    LET after[k \in 0 .. Len(acts)] ==
            IF k = 0 THEN w ELSE RunOne(after[k - 1], acts[k], op, asks + k)
    IN after[Len(acts)]

\* Every choice of what the handlers of an operation do, within the bound.
Scripts(op, o) ==
    {a \in [1 .. Len(Dispatches(op)) -> Acts(o)] :
        (\E k \in DOMAIN a : a[k].is # "none") => asks + Len(a) <= MaxAsks}

Asked(acts) == asks' = IF \E k \in DOMAIN acts : acts[k].is # "none"
                       THEN asks + Len(acts) ELSE asks

(*------------------------------- the window ------------------------------*)

\* (the last written one makes room)
PutOverLast(s, o, v) ==
    LET mine == SelectInSeq(s, LAMBDA e : e.origin = o)
        rest == IF mine # 0 THEN RemoveAt(s, mine)
                ELSE IF Len(s) >= MaxOrigins THEN Front(s) ELSE s
    IN Append(rest, [origin |-> o, val |-> v])

\* wst_replace: the origin's snapshot, in place of its last one or, when there
\* is no room, of the least recently written one.
Put(s, o, v) ==
    LET mine == SelectInSeq(s, LAMBDA e : e.origin = o)
        rest == IF mine # 0 THEN RemoveAt(s, mine)
                ELSE IF Len(s) >= MaxOrigins THEN Tail(s) ELSE s
    IN Append(rest, [origin |-> o, val |-> v])

\* (a page loaded with an empty store)
SeedNothing(o) == {}

\* wst_encode, for the seed of a load.
Seed(o) ==
    LET mine == SelectInSeq(store, LAMBDA e : e.origin = o)
    IN IF o \in Trusted /\ mine # 0 THEN store[mine].val ELSE {}

\* The reply: the requests, with the windows of a gesture only.
Result(w, op) ==
    [is |-> "result", nav |-> w.nav, storage |-> w.dirty, val |-> w.val,
     opens |-> IF Gesture(op) THEN w.opens ELSE <<>>]

\* The worker forgets what it has reported.
Taken(w) == Fresh(w.val)

\* Seeding uses the window's store, collecting the page in cur_top.
Collect(r) ==
    store' = IF r.storage /\ page.origin \in Trusted
             THEN Put(store, page.origin, r.val) ELSE store

\* tab_new: the page is parked, its worker closed, and the last of the
\* windows asked for is the one shown.  Which origin they go to does not
\* matter here: any.
OpenTabs(r) ==
    /\ opened' = opened \o [k \in 1 .. Len(r.opens) |->
                              [id |-> r.opens[k].id, op |-> r.opens[k].op,
                               by |-> r.opens[k].page, at |-> page.n]]
    /\ \E o \in Origins : loading' = o
    /\ live' = FALSE /\ wk' = Fresh({})

\* apply_click_result: a navigation goes first and drops the rest; else the
\* storage is collected and the windows opened.  "after" is what follows when
\* the page is still there.
Apply(r, w, after) ==
    \/ /\ r.nav # NoNav /\ depth < NavMax
       /\ loading' = r.nav[1] /\ depth' = depth + 1
       /\ wk' = w
       /\ UNCHANGED <<store, live, opened>>
    \/ /\ ~(r.nav # NoNav /\ depth < NavMax)
       /\ Collect(r)
       /\ UNCHANGED depth
       /\ IF r.opens # <<>> THEN OpenTabs(r)
          ELSE after /\ wk' = w /\ UNCHANGED <<live, opened>>

(*------------------------------ the actions ------------------------------*)

Init ==
    /\ page = [n |-> 0, origin |-> NoOrigin] /\ live = FALSE
    /\ wk = Fresh({}) /\ job = NoJob
    /\ loading \in Origins /\ depth = 0
    /\ store = <<>> /\ asks = 0 /\ ops = 0 /\ fired = {} /\ opened = <<>>

Stay == UNCHANGED page /\ ops < MaxOps /\ ops' = ops + 1
Fire(op) == fired' = {<<e, op>> : e \in Range(Dispatches(op))}

\* An operation of the window on the page, whose reply is applied.  Every
\* operation waits for the background tick and throws its result away
\* (tab_async_sync).  A click on a link follows it, unless the click navigated.
Operate(op) ==
    /\ live /\ op \in Ops \ {"tick", "geom", "submit", "eval"} /\ Allowed(op) /\ Stay
    /\ \E acts \in Scripts(op, page.origin) :
        LET w == Run(wk, acts, op)
        IN /\ Asked(acts)
           /\ Apply(Result(w, op), Taken(w),
                    \/ UNCHANGED loading
                    \/ op = "click" /\ \E o \in Origins : loading' = o)
    /\ Fire(op) /\ job' = NoJob

\* An operation whose reply carries no requests: they stay with the worker.
\* A layout (tab_geometry_async) is not sent while a tick is under way.
OperateSilent(op) ==
    /\ live /\ op \in {"geom", "submit", "eval"} /\ Allowed(op) /\ Stay
    /\ op = "geom" => job = NoJob
    /\ \E acts \in Scripts(op, page.origin) : wk' = Run(wk, acts, op) /\ Asked(acts)
    /\ \/ UNCHANGED loading
       \/ op = "submit" /\ \E o \in Origins : loading' = o
    /\ Fire(op) /\ job' = NoJob
    /\ UNCHANGED <<live, depth, store, opened>>

\* A timer runs in the background, to the end of its reply.
Tick ==
    /\ live /\ job = NoJob /\ Stay
    /\ \E acts \in Scripts("tick", page.origin) :
        LET w == Run(wk, acts, "tick")
        IN Asked(acts) /\ job' = Result(w, "tick") /\ wk' = Taken(w)
    /\ Fire("tick")
    /\ UNCHANGED <<live, loading, depth, store, opened>>

\* on_tab_async
TickDone ==
    /\ live /\ job # NoJob
    /\ job' = NoJob
    /\ Apply(job, wk, UNCHANGED loading)
    /\ UNCHANGED <<page, asks, ops, fired>>

\* (a load that leaves a finished tick for later)
LoadArrivesAnyTime == loading # NoOrigin /\ ops < MaxOps

\* A load arrives: set_cache first applies a finished tick, under the page it
\* belongs to.
LoadArrives == loading # NoOrigin /\ ops < MaxOps /\ job = NoJob

\* render_current_ex: the old worker is closed, the new page is seeded and its
\* scripts run; a navigation they ask for is made at once, up to the bound,
\* and the page is never shown.  Otherwise its storage is collected.  Windows
\* asked for by a load are thrown away.
Load ==
    /\ LoadArrives
    /\ page' = [n |-> page.n + 1, origin |-> loading] /\ ops' = ops + 1
    /\ \E act \in {a \in Acts(loading) : a.is # "none" => asks < MaxAsks} :
        LET w == RunOne(Fresh(Seed(loading)), act, "load", asks + 1)
        IN /\ asks' = IF act.is # "none" THEN asks + 1 ELSE asks
           /\ IF w.nav # NoNav /\ depth < NavMax
              THEN /\ loading' = w.nav[1] /\ depth' = depth + 1
                   /\ live' = FALSE /\ wk' = Fresh({})
                   /\ UNCHANGED store
              ELSE /\ loading' = NoOrigin /\ live' = TRUE /\ wk' = Taken(w)
                   /\ depth' = IF w.nav = NoNav THEN 0 ELSE depth
                   /\ store' = IF w.dirty THEN Put(store, loading, w.val) ELSE store
    /\ UNCHANGED <<job, fired, opened>>

Next ==
    \/ \E op \in Ops : Operate(op) \/ OperateSilent(op)
    \/ Tick \/ TickDone \/ Load

Spec == Init /\ [][Next]_vars

-----------------------------------------------------------------------------
(* Properties.                                                             *)

\* A store holds its own origin's writes alone: the page shown and every
\* entry of the window (the key is the page's origin at the time the reply is
\* applied, which a navigation under way must not have replaced).
OwnOrigin ==
    /\ \A x \in wk.val : x.by = page.origin
    /\ \A k \in 1 .. Len(store) : \A x \in store[k].val : x.by = store[k].origin

\* A window that opens was asked for by the page that is shown; and while an
\* operation that was no gesture ran, only if its reply could not carry the
\* request (a timer's, reported and thrown away, does not come back with the
\* next click).
OpensFresh ==
    \A k \in 1 .. Len(opened) :
        /\ opened[k].by = opened[k].at
        /\ Gesture(opened[k].op) \/ ~Reports(opened[k].op)

\* What the page asked for and kept is its own.
OwnRequests == OwnOrigin /\ OpensFresh

\* What was collected of an origin stays, until the origin is the least
\* recently written one and its place is needed.
KeepsWrites ==
    [][\A k \in 1 .. Len(store) :
          LET e == store[k]
              now == SelectInSeq(store', LAMBDA x : x.origin = e.origin)
          IN IF now = 0 THEN k = 1 /\ Len(store) = MaxOrigins
             ELSE e.val \subseteq store'[now].val]_vars

\* "Evict the least recently used origin" (web_storage.c): where more than one
\* site has a place, the page shown, seeded from its own, keeps it.
KeepsUsed ==
    [][\A k \in 1 .. Len(store) :
          live /\ MaxOrigins > 1 /\ store[k].origin = page.origin =>
              \E j \in 1 .. Len(store') : store'[j].origin = page.origin]_vars

\* "HTML 6.4.2 activation-triggering input events: only these let a page open
\* a window. A timer, a load, a focus or a mouse move never do." (tab.c)
OpensByGesture == \A k \in 1 .. Len(opened) : Gesture(opened[k].op)

\* "Fires JS handlers via jd_fire_mouse_event, re-derives the view" (tab.c):
\* the page sees a click when the user clicked.
ClicksAreClicks == \A e \in fired : e[1] = "click" => e[2] = "click"

\* The window "applies wst_replace with each snapshot" (spec/web_storage.md):
\* what a trusted page wrote is in the store when the next page is shown.
WritesCollected ==
    [][page' # page => \A x \in wk.val : \E k \in 1 .. Len(store) : x \in store[k].val]_vars
=============================================================================
