# FreeDom: TLA+ models, checks and proofs

FreeDom is a web browser written in C whose design rests on separation: a
trusted process owns the network, the profile and the window, and every page is
parsed and scripted in a confined worker process that can only ask. This
directory holds TLA+ models of the parts where that separation turns into a
protocol: two processes that share a pair of pipes, threads that share a pool, a
window that applies results that arrive late, a cache and a profile on disk that
survive kills, a live document that scripts change under the window's feet, styles
remembered between questions asked in any order. They were translated from the C
source, not from the specifications in `spec/`. Those, the comments and the tests were
used to find out what the code is meant to guarantee.

All paths below are relative to the repository (`src/` is where its sources lie
in this tree, so `src/tab.c` is `src/src/tab.c` in `PROJECT.json`).

## 1. Inventory

### 1.1 Components with a protocol

| Component | State it keeps | Operations | Who it talks to |
|---|---|---|---|
| **Prefetch pool** `src/prefetch.c` | `pf_pool`: job array with `PENDING → RUNNING → DONE → CONSUMED`, claim counter `next`, `started`, `closing`, a mutex and two condition variables | `pf_pool_start_page`, `pf_pool_add`, the worker threads, `pf_pool_take`, `pf_pool_finish`, `pf_pooled_fetch` | started by `render_current_ex` on its stack around a load; taken from by the tab's fetcher, on the window's thread and on batch threads |
| **Tab channel** `src/tab.c`, `src/subreq_batch.c`, `src/js_fetch.c` | `struct tab`: two pipes, grants, fetcher, budgets, the batch of deferred requests; in the worker `child_state`: pending replies, rounds, requests used, and the script's queue of callbacks | one operation at a time (load, click, key, tick, geometry, eval …) answered by tagged frames: `SUBREQ`, `ASYNC`, `NETWAIT`, `RESULT` | window ↔ worker; threads of the batch ↔ network, cache, prefetch pool |
| **Background job** `src/tab.c`, loop of `gui/browser_ui.c` | `job_running`, `job_ready`, an eventfd; `js_tick_due_ms`, `js_ticks_left` | `tab_tick_async`, `tab_geometry_async`, `tab_async_sync`, `tab_async_finish`, `gui_quiesce` | the tab's thread and the window's loop over one unlocked pipe |
| **Navigation** `src/browser.c`, `gui/browser_ui.c`, `src/js_location.c` | session histories of the tabs, `net_gen`, `loading`, fetches in flight and the buffer of what has come of a page, the page worker and the history list inside it | navigate, reload, Back/Forward, pushState/replaceState, popstate, POST, JavaScript navigation, open/switch/close tab, deliver a fetch, paint a part of one | fetch threads through a pipe; the worker through operations; the tick through `gui_quiesce` |
| **WebSocket hub** `src/ws_hub.c`, `src/js_trusted.c`, `gui/browser_ui.c` | per page: objects with `readyState` and a list of operations; hub: slots with id and token; opening threads; a socket pair | constructor, `close()`, operations taken in every answer, `wh_open_async`, `wh_on_notify`, `wh_on_readable`, `wh_close`, `wh_close_all`, `wh_free` | page ↔ window (re-entrant events) ↔ detached threads ↔ curl |
| **Worker processes** `src/tab.c` | the spare worker, the pids and pipes of tabs, the handshake of a new worker | `tab_prewarm`, `tab_open` and `adopt_worker`, `spawn_worker`, `tab_close`, the end of the program | window and other threads ↔ forked processes |
| **Script budget** `src/tab.c`, `src/js_sandbox.c` | the armed deadline, what is left of the page's budget | every place that enters page code: scripts of a load, pending jobs, ticks, events, reply callbacks | worker ↔ interpreter |
| **Video and sound** `gui/browser_ui.c`, `src/media_decoder.c` | the feeder thread, the decoder's two pipes, the frame held until it is due; the audio child | `video_play`, the feeder, the decoder's commands, `video_read_frame`, `video_stop`, `audio_spawn`, `audio_write`, `audio_stop` | thread ↔ process ↔ loop, in a ring |
| **Page handlers and storage** `src/tab.c`, `src/js_trusted.c`, `src/js_location.c`, `src/web_storage.c` | what the scripts asked for since the last reply that carried it; `localStorage` of the worker and of the window | operations with and without a report, `window.open`, navigation, `setItem`, seeding, collecting | worker → window |
| **Form controls** `gui/browser_ui.c`, `src/textfield.c` | the live value of each control, the focus | keys, clicks, submit, the rebuild after every view | window ↔ page |
| **Document** `src/dom.c` | the tree, the table of handles, the index of ids | create, append, insert, remove, move, clone, `innerHTML`, `id`, the lookups | scripts hold handles into it |
| **Style** `src/css_select.c`, `src/css_index.c`, `src/css_chain.c`, `src/css.c`, `src/css_vars.c`, `src/page_view.c` | the parsed sheet with its index and filter; during a build the memo of styles, font sizes and variables, and the path of the last chain | `cached_element_style_ref`, `cached_pseudo_style`, `resolve_core`, `csel_matches`, `querySelector` through the same matcher | the build of a view asks, scripts change classes in between |
| **Redirect memory** `src/secure_fetch.c`, `src/http_cache.c` | a table in RAM, sealed entries on disk | lookup, load, follow, ask, put, save | every fetching thread |
| **Profile** `src/prefs.c`, `src/disk_store.c`, `src/local_store.c`, `src/profile.c` | preferences in memory, the sealed file, the key file | open, load, change, save, sync | window ↔ file system |
| **HTTP cache** `src/http_cache.c`, `src/cached_fetch.c` | `hc_store`: keys and put counter; files on disk; the key file | `hc_open`, `hc_get`, `hc_put`, eviction, `hc_clear`, `hc_close`, `cf_get_with` with its conditional requests | every fetching thread; the profile; the file system; origins |

### 1.2 What is hard about each

- **Prefetch pool.** Discovery feeds itself: a worker that fetched a module
  queues its imports while other workers claim, sleep or leave, and while the
  load takes results and later closes. Correct: a URL is fetched once, a
  result has one owner, a module's imports are queued before it can be taken,
  no wake-up is lost and the close ends.
- **Tab channel.** Replies carry no identifier. The worker counts how many it is
  owed and hands the *n*-th reply to the *n*-th callback, while requests are
  refused, over budget, left over by operations that do not drain, cut short by
  the round limit or abandoned by a new load; while a synchronous request needs
  the same pipe; and while the worker may be killed. Correct: both ends count
  the same replies in the same order, a synchronous answer is one's own, every
  operation returns its own result, and it returns.
- **Background job.** A thread and the loop use the same pipe without a lock.
  Readiness is captured by `poll` and used after handlers have run. The next tick
  is scheduled only from the report of the last one. Correct: never two users,
  never an overtaken result, timers that keep running.
- **Navigation.** Results of fetches outlive the navigation that asked for them,
  tabs are moved by value with fetches in flight, two history lists are kept in
  step by messages in both directions, and `gui_quiesce` applies a tick's result
  in the middle of another call. Correct: the page painted, the address loaded
  and the worker clicked are those of the current entry of the active tab.
- **WebSocket hub.** Applying an operation may emit an event, whose handlers
  produce operations that are applied first, and may leave the page. Opens finish
  on detached threads after their socket was closed or its number reused.
  Correct: nothing forgotten, one owner per connection, no socket outlives its
  document, `readyState` only advances, CONNECTING ends.
- **Worker processes.** A spare is forked without waiting and adopted by whichever
  thread asks first; it may have died, failed to confine itself, or be adopted while
  the program ends. Correct: one owner per process, none unreaped, `tab_open` answers.
- **Script budget.** Each script of a load gets what is left, the jobs it leaves are
  run under a deadline of their own, and some places arm none. Correct: a load ends.
- **Video and sound.** A feeder blocked on the decoder, a decoder blocked on the
  window, a window that joins the feeder. Correct: nobody uses what was closed, message
  borders agree, a video ends, sound comes back.
- **Page handlers and storage.** Only some operations report what handlers asked
  for; the rest stays in the worker and rides on a later reply, or on none. Correct:
  requests are of the page shown, storage is of its own site and not forgotten.
- **Form controls.** Every event replaces the document and the controls while the
  handler that sent it still holds them. Correct: no freed control, a submit sends what
  was typed, one load per press.
- **Document.** The index only grows while nodes are moved, cloned and detached, and
  stops at a limit. Correct: no cycle, exact handles, what is there is found.
- **Style.** Four shortcuts stand between a question and the cascade: an index of the
  sheet, a filter of hashed names, contexts of bounded size, and a path and a memo that
  outlive the question. Correct: none of them changes an answer, and a style is the one
  of the winning declarations.
- **Redirect memory.** Entries are loaded and saved outside the lock and restamped.
  Correct: a redirect lives no longer than both lifetimes, loops end.
- **Profile.** A rename is visible before it is durable; the key and what it seals
  are two files. Correct: a whole saved value is read back, and it can be opened.
- **HTTP cache.** Time, entry and validators are read before the network and
  written back after it; origins change and redirect meanwhile; kills and power
  failures hit between files. Correct: what is served without the network is
  fresh, a body is the one its origin vouched for, no blob outlives its keys,
  the directory is bounded.

### 1.3 Components without a model

`PROJECT.json` lists them all with the reason. In short: *pure computation* are the HTML
parser, the values of CSS, layout, text, images and fonts: one input, one output, no state over
time and inputs far larger than what can be enumerated; they are most of the
repository's lines, which is why the modules map a small share of it. *Outside the repository's control* are TLS,
sandboxing by the kernel, QuickJS, curl, FFmpeg and Wayland, whose effects appear
as nondeterministic choices (a fetch that fails, a worker that is killed, a
script that is interrupted, a spurious wake-up, frames read ahead).

## 2. Plan

Done, in this order: `PrefetchPool` and its proofs; `TabChannel`, `Navigation`
and `TabAsync`, each with its proofs; `WsHub` and `WsPump`; `CachedFetch` and its proofs; `RedirectMemory`;
`WorkerBirth`, `ScriptBudget` and their proofs; `VideoPlayer` and `AudioSink`; `Profile` and the abstract
`DurableRegister` it implements; `PageEvents`; `FormInput`; `Dom` and its proofs;
`InnerHtml`; `StyleMatch` and `StyleResolve`; then the proofs about `WsHub` and `WsPump`,
`RedirectMemory`, `VideoPlayer` and `AudioSink`, and about `Profile` (the refinement of
`DurableRegister` included), `PageEvents` and `FormInput`.

Left, most important first:

1. **Abstract specifications**: a tab as a server of one request at a time, which
   `TabChannel` implements.
2. **FrameBroker** (`frame_broker.c`): bounded queues of postMessage with
   re-entrant delivery.
3. **Proofs**: `FoundById` of `Dom`, which needs the order of a walk of the tree, and the
   two properties of style.

## 3. Modules

Each component is one module with its constants and their assumptions, its
variables, one action per handler or critical section, its specification and its
properties. `MC*` modules give TLC finite instances. Several of them unite components
that do not share state: a variable `part` says which one a behaviour moves, and the
others stay as they began, so the reachable states are the union of the parts', and
each part's fairness applies where it moves. What such a union declares besides `part`
(the parts' constants and variables, their instances, the properties of several parts) is
in a module that the proofs extend too: `Processes`, `Window` and `Fetches`, which
`MCProcesses`, `MCWindow` and `MCCache` extend. Definitions named like
others with a suffix (`HandOverKeep`, `DiscardNoJoin` …) and placed right before
them are plausible bugs: `PROJECT.json` lists which property each one breaks.

### PrefetchPool (`src/prefetch.c`)

`jobs`, `next`, `started`, `closing` are `pf_pool`'s; `thr` and `cl` are the
program counters of its threads and of the callers of `pf_pool_take`; `workCv` and
`doneCv` are the sets of waiters of the two condition variables; `taken` counts how
often a result was handed out. One action is one critical section or the code
between two: `Claim`, `Fetch`, `Follow` (one import at a time, because
`pf_pool_add` takes the lock for each), `Publish`; `Take` and `Retake` (the loop of
the wait), `InnerFetch` (the miss); `Close`, `Free`. `Spurious` is the wake-up POSIX
allows. The HTML and import scanners are constants: the lists they may produce.

### TabChannel (`src/tab.c`, `src/subreq_batch.c`, `src/js_fetch.c`)

A pipe is a bounded sequence of frames, so that a write may block. The parent is a
program counter over `begin`, `discard` (`tab_batch_discard`), `send`, `serve` (the
tag loop), `fetch`, `reply`, `join`, `unbind`; a thread of the batch is queued,
running or done; the worker runs a phase of scripts, in which it issues requests,
and then drains them for some kinds of operation. `ThreadStart` binds the fetcher
that `tab_fetch_one` reads at that moment. Operations are of four kinds, for what
the protocol tells apart: `load`, `mutate` (drains), `geom` (scripts run but
nothing is drained) and `quiet`. `done` and `slip` are history variables (section 5).

### TabAsync (`src/tab.c`, `gui/browser_ui.c`)

A turn of `browser_ui_run`: `Poll`, any number of window events (operations with and
without a view, paints, re-renders, `gui_quiesce`), then the finished job, then the
timer. The thread is `JobMain`. `tab_async_sync` is split from the operation that
follows it, so that its join is what keeps the pipe exclusive.

### Navigation (`src/browser.c`, `gui/browser_ui.c`, `src/js_location.c`)

An event of the window is a chain of calls: `stack` holds the calls still to be
made, and one action runs one call. The result of a script run is a record: nothing,
a pushState or replaceState, a `history.go`, a navigation, a `window.open`. Since only
equality of generations matters, a new generation is any value no fetch in flight
carries. `Features` selects which parties take part, to keep the runs within reach.
`stream` is the buffer through which a fetch thread shows the page before it is whole:
`open` is the check of `stream_progress_cb`, whose two fields are both the window's, and
`OldDoc` stands for what came of any fetch that a later one has superseded. The part of a
page is rendered under the base URL of the page before (`cur_top` is only set when the
whole page is delivered), as `render_current` does with the cache.

### WsHub (`src/ws_hub.c`, `src/js_trusted.c`, `gui/browser_ui.c`) and WsPump

`stack` again holds the window's calls, innermost first, because events are emitted
while a list of operations is half applied. A script run is up to two constructor or
`close()` calls. Threads hand their connection over through `pipe`; `ws` is the set of
connections curl holds, and a slot that is freed while its open is under way closes
nothing (`Dropped`): the connection is the thread's until its result is read. `WsPump`
takes the receiving side apart: frames, curl's read-ahead, the limit of reads and the
reassembly of messages, which `WsHub` abstracts to a length. A message there is one or
more frames, each of which may be empty.

### CachedFetch (`src/cached_fetch.c`, `src/http_cache.c`)

`Get` and `Put` are the critical sections of the store's mutex and the network is
between them: meanwhile the clock moves (`Tick`), resources change (`Change`),
redirects move (`Move`) and other threads act. A file is a record with its key, its
times and its body; `conf` and `truth` are history, the moment and the version its
origin last vouched for. `PutRedirect` and `DropRedirect`
are the permanent redirects a fetch writes into the same directory or finds there too old;
their puts are neither counted nor followed by an eviction. `Kill` leaves a temporary file; `PowerLoss` may damage any
file, since puts are not synced; `NewProfile` replaces the key the key file is sealed
with. `Classify`, `Lifetime`, `Storable` and `Age` are the freshness rules. `MCCache` runs
the model twice with the same constants, narrowed by `Within` to two threads in one
session and to one thread at a time in two sessions. `HcClose` ends the fetches still
under way: the window closes the store without waiting for them, and the process ends.
`EntryTrue` exempts the entries of an address that answered once and was redirected later
(`Stays`).

### RedirectMemory (`src/secure_fetch.c`, `src/http_cache.c`)

`ram` is the table under its lock, `disk` the sealed entries, `th` the
loops of `sf_get_follow`. `Look`, `Load`, `Keep`, `Ask`, `Put`, `Save` are separate because the
lock is not held between them; `site` is what origins answer and may change. `born` is
history: when the origin gave the redirect that is followed. The entries on disk are files
of the cache's directory, which may lose any of them at any time (`Lose`); what they take of
that directory is in `CachedFetch`.

### WorkerBirth (`src/tab.c`)

`proc` is every process ever forked and what became of it; a thread in `tab_open` takes
the spare or spawns, writes, waits for the confinement's word and keeps, or kills and
reaps. `Child` moves the worker itself, `Dies` may strike at any time. `frames` are the
workers of iframes: their page closes them, the end of the program does not, and they end
at the end of their pipe once the process is gone (`Exit`).

### ScriptBudget (`src/tab.c`, `src/js_sandbox.c`)

`limit` is the armed deadline, `left` what is left of the budget, `inside` the place the
worker is in. `Loops` says where page code may never end: everywhere, in the run.

### VideoPlayer and AudioSink (`gui/browser_ui.c`, `src/media_decoder.c`)

The two pipes are bounded sequences of units, so that both writers block where the
code's `write` would. The feeder, the decoder and the loop are program counters.
`AudioSink` is the child that plays the sound.

### Profile and DurableRegister (`src/prefs.c`, `src/disk_store.c`, `src/local_store.c`, `src/profile.c`)

The file system is two directories, the visible and the durable, and the renames
between them. `Format` and `Parse` keep what the text form keeps: a history over its
limit is cut, a page is in it once. `SavesAtomic` is `Register!Spec`: `log` is mapped to
the saves that may still be found after a stop of the machine.

### PageEvents (`src/tab.c`, `src/js_trusted.c`, `src/js_location.c`, `src/web_storage.c`, `gui/browser_ui.c`)

One action per operation of the window with the events it dispatches; `wk` is what the
worker has collected and not reported; `store` the window's storage. `fired` and `opened`
are history: the events last dispatched and the windows opened.

### FormInput (`gui/browser_ui.c`, `src/textfield.c`)

`win` is the window's live state; every dispatched event may bring a new view,
which frees the controls and seeds them from the markup (`Rebuilt`). Reading a control
after that, in the handler that still holds its index, sets `ub`. A press dispatches its
mousedown before anything else (`Pressed`), and goes on with what its answer has left.
Whether the page shown has a worker is fixed while it is shown, and every control has a
node: those past the DOM's table of handles have none, hear of no event and keep the
focus. `want` is history: what the user made of the controls.

### Dom and InnerHtml (`src/dom.c`)

`parent` and `order` are the library's tree, `nodes` and `rev` the table of handles and
its inverse, `byId` the index. A call with a handle that names no suitable node changes
nothing and is not an action. `InnerHtml` is the buffer the serializer fills.

### Selectors, StyleMatch and StyleResolve (`src/css_select.c`, `src/css_index.c`, `src/css_chain.c`, `src/css.c`, `src/css_vars.c`, `src/page_view.c`)

`StyleMatch` is which selectors an element matches. The matcher sees a context, not the
document: the views of at most `ChainMax` ancestors and `SibMax` earlier siblings, with
positions that are unknown past `NthMax` (`build_chain`, `SibViews`, `Place`). Hash
functions are parameters, so a run can make every name collide. `csel_matches` tries all
the places a combinator allows, as the recursion of `complex_matches` does.

`StyleResolve` is the cascade and what a build keeps. `apply_decl` holds the slot of the
winner of each property, `Replayed` the second pass after a CSS-wide keyword;
`element_custom_props` and `collect_custom_props_scoped` the variables of an element and
of the document. `AskElement` and `AskPseudo` are a question to
`cached_element_style_ref` and `cached_pseudo_style`: they resolve the ancestors that are
not in `memo` from the top, each on the part of `path` it shares with the last. `Rebuild`
is a new build, after a script changed the classes. Without memory for the index, or for
the memo and the path, the code goes on without them: `indexed` and `keeps` say which.

The reference is stated on the document itself, with none of this: `CssMatches` is the
meaning of a selector in CSS, `StyleWanted` ranks the declarations of all matching rules
and takes the highest. Properties, values and names are opaque. Not modelled: reading a
sheet, attribute operators, `@media`, `@property`, what each property does to layout, and
running out of memory in the middle of a cascade.

## 4. Runs

Run them with `tlc -config <cfg> <module>`. Times are those of two workers on a
small machine.

| Run | Module, configuration | What it asks |
|---|---|---|
| `prefetch` | `MCPrefetchPool`, `PrefetchPool.cfg` | a load and a batch thread ask two workers for the same URLs; module *a* imports *b* and *c*, *b* imports *c* |
| `channel` | `MCTabChannel`, `TabChannel.cfg` | two operations of every kind, three requests, every way to refuse, interrupt or die |
| `channel_frame` | `MCTabChannel`, `TabChannel_frame.cfg` | **violated**: nothing fetches through a stack frame that is gone |
| `nav` | `MCNavigation`, `Navigation.cfg` | six instances: one tab deep, with scripts that push, replace, step and navigate and a stale fetch; the same repainting from the cache; two tabs with forms, failures and downloads; scripts and ticks with forms; scripts with loads that fail or are saved; pages painted while they are fetched |
| `processes` | `MCProcesses`, `Processes.cfg` | `TabAsync`, `WorkerBirth`, `ScriptBudget`, `VideoPlayer`, `AudioSink`, `WsPump`, one at a time |
| `ws` | `MCWsHub`, `WsHub.cfg` | a page with two sockets, then a page that reuses an identifier |
| `cache` | `MCCache`, `Cache.cfg` | two threads and a changing origin; two sessions with kills, power failures and new keys; two threads that follow remembered redirects |
| `window` | `MCWindow`, `Window.cfg` | `Profile` (two sessions, saves that fail, a machine that stops anywhere), `PageEvents`, `FormInput`, one at a time |
| `page` | `MCPage`, `Page.cfg` | `Dom` and `StyleResolve`, one at a time |
| `video_stop` | `MCVideoPlayer`, `VideoPlayer_stop.cfg` | **violated**: `video_stop` returns |
| `form_typed` | `MCFormInput`, `FormInput_typed.cfg` | **violated**: a submit sends what was typed |
| `inner_html` | `InnerHtml`, `InnerHtml.cfg` | **violated**: reading `innerHTML` answers |

The behaviours of section 7 that have no run of their own are shown by a violated property
each: with the configurations `PrefetchPool_shared.cfg` (`MCPrefetchPool`) and
`CachedFetch_moved.cfg` (`MCCachedFetch`), and with a configuration of the table whose
invariants and properties are replaced by the one that section 7 names.

### Properties

- `prefetch`: `FetchedOnce` (no URL has two jobs), `OneOwner` (a result is handed out
  once, and only an untaken one still owns its body), `ImportsQueuedFirst` (who can
  take a module finds its imports queued), `NoLostWakeup` (while a job is unclaimed
  some worker is awake or will come back), `CallsReturn`.
- `channel`: `RepliesMatched` (the parent will send as many replies as the worker
  counts, in the order of the callbacks, a synchronous answer is one's own, and no
  end of a pipe finds a message that is not for it at that point),
  `OnlyOwnPage` (once a load is sent nothing fetches for the page before it, and no
  result crosses to another operation), `OpReturns`.
- `nav`: `HistoriesAgree` (a document's entries are contiguous, and the worker's list is
  the window's where the code can keep them equal), `FetchesCurrent` (no spinner without
  the fetch that will clear it; the one result that would be accepted is for the
  current entry of the active tab), `ClicksReachPage`, `LoadsStable`, `NeverPaintStale`
  (a page that comes on screen is the current entry's or the cached one, but for the three
  cases its text names).
- `processes`: `PipeExclusive`, `NeverStale`, `TimersArmed`, `TickComes` of the
  background job; `Accounted` (every process is a tab, the spare, in a thread's hands, or
  reaped); `LoadBounded` (what a load runs under deadlines, whatever the number of its
  scripts); `MediaOwned` (the feeder never outlives its pipes, both ends
  agree on message borders, one audio player at most); `MediaPlays`; `ProcessesEnd`
  (`tab_open` answers, no worker runs on at the end, every operation ends but one whose
  page loops where no deadline is armed);
  `MessagesWhole` and `Delivered` of a WebSocket's pump.
- `ws`: `SocketsKept` (a socket that waits has something on its way to it, a connection
  has one owner, and none outlives its document), `ReadyStateForward`, `Settles`.
- `cache`: `EntriesTrue` (what is served without asking is within its lifetime, and a
  stored body is the one its origin vouched for), `DirectorySound` (keys cover every blob, and the
  directory outgrows its limit, or what the session found, by the puts and the redirects
  since an eviction and no more), `RedirectsTrue` (within both lifetimes, transparent, and every chain ends).
- `window`: `ProfileKept` (the history is the recent pages once each; what was saved
  opens again with the key on the disk), `SavesAtomic` (the refinement), `OwnRequests`
  (storage is of its site, windows of the page shown), `KeepsWrites` (a site's storage stays
  until the site is the least recently written one of a full table), `FormSound` (without
  scripts, and as long as the page was pressed on its controls only, a submit sends what was
  typed; no freed control is read; from its blur on a press begins one load at most).
- `page`: `Acyclic`, `HandlesKept` (a handle names one node, and every element has one
  unless the limit cut the indexing), `FoundById` (`getElementById` answers the first element that
  carries the id), `StyleTrue` (a style and a
  generated box are those of the winning declarations, whatever was asked before),
  `SelectorsTrue` (a selector matches what CSS says, less where a bound is met, never
  more; `querySelector` agrees with the cascade).

### Bounds, and why they are enough

Limits of the code are constants, set small enough that they are reached: a pool of
three jobs for four URLs, a batch of two, one drain round, a history list of two, two
operations per answer, one read per pump. Bounds that the code does not have are named
as such where they are declared: operations and requests (`MaxOps`, `MaxIssue`), window
events (`MaxEv`), documents, entries and fetches in flight (`MaxDoc`, `MaxLen`,
`MaxJobs` of `Navigation`), pages and sockets (`Sockets`), clock, keys and sessions
(`MaxNow`, `MaxKeys`, `MaxOpens`).

- Two operations are enough for the channel because what one operation leaves to the
  next is all in the state (pending replies, batch, pipes), and a third sees no more
  kinds of leftover than the second; three requests give two deferred ones and a
  synchronous one between them, or one more than the batch holds.
- A pipe of one frame makes every write block that can block.
- Two fetches in flight are a current and a stale one; generations are reused as soon
  as no fetch carries them, so navigation goes on without a bound. Histories longer than
  the list are in the parts with one fetch at a time.
- A page with two sockets and then one with one is the smallest case in which a late
  open meets a slot with its number that belongs to another page.
- Two workers and two callers of the pool: every race there is between a pair; the
  theorems of section 6 cover any number.
- A clock of two instants with lifetimes of 0, 1 and 2 gives an age below and exactly at
  a lifetime, where the comparison could be off by one, and an answer or a put that
  takes as long as its lifetime. Later instants only repeat the second. One resource
  changes while two threads hold answers of it.

- Two sessions of a profile are enough because a session only leaves files; three
  changes make a save between two others.
- A segment and a frame longer than their pipes make both writers block; two segments
  give one that is stopped behind another.
- Three processes are a spare, the one spawned in its place and one more; two threads
  race for the spare.
- A document of five nodes with a table of three handles has moves between siblings and
  generations, and an index that is full; the theorems cover any size.
- Two redirecting addresses make both kinds of loop, one slot makes every entry displace
  another, and a lifetime of one instant is met from both sides. Three fetches, the third
  alone, or two and an origin that changes, store an entry, bring it back from the disk and
  follow it again.
- In `cache` one session has two threads and an origin that changes its resource once or
  redirects an address once, a final one included; two sessions have one fetch at a time, a
  limit of one entry that two partitions and a redirect exceed, and an origin that stays.
- The page of `StyleResolve` has six elements in four generations, three siblings where
  the context holds two, positions within the bound on one side and past it on the
  other, and an element at the depth where the chain ends; four sheets of five or six
  rules each carry the combinators, the pseudo-classes, layers with importance and
  keywords, and the custom properties. Questions are not bounded in number.
- Four trusted and other sites with a table of two, and five loads and operations, fill the
  table and write for a third site. The first site loaded is one of two, since the trusted
  ones are interchangeable.
- Four events in a form: focus, type, tick or let the page act, submit. The page's handlers
  change one of the two text controls.

`channel`, `cache`, `page` and `window` do not check for deadlock: a closed tab, a clock
at its bound, a used-up number of events and a stopped machine may stop. In `processes` only the loop
must go on. Symmetry is used over threads, addresses and pages, in runs without liveness
properties only.

### Fairness

- `PrefetchPool`: weak fairness per worker and per caller inside a call, and of the
  final join. Threads are scheduled; `secure_fetch` bounds every fetch by a timeout.
  Nothing forces a request, the close or a spurious wake-up.
- `TabChannel`: weak fairness of the parent, of the worker and of each batch thread. A
  phase of scripts ends: `js_sandbox` arms a deadline around it. (The deadline is not
  armed around every reply callback, see section 7.)
- `TabAsync`: weak fairness of the loop and of the thread, strong fairness of a tick's
  start: `poll` is given the time to the deadline as its timeout, so a deadline that
  stays set is passed in some turn that finds the tab free.
- `WsHub`: calls return, opens have a connection timeout, and `poll` keeps reporting a
  readable socket pair (strong fairness of `Notify`, since other events of the loop come
  between) and a finished tick (`TickApply`).
- `WsPump`: the peer's frames arrive and a readable socket is read.
- `WorkerBirth`: threads and processes are scheduled; once the program ends the page's
  worker and the spare are closed and the process goes. `ScriptBudget`: the worker goes on, page code that is not a loop ends, and the
  interpreter calls its interrupt handler. `VideoPlayer`: the three actors are scheduled,
  a blocked write goes on when there is room, a due frame is shown. `AudioSink`: frames
  keep coming and a player that does not work ends.
- The others state safety only.

## 5. History variables

Some properties hold but for a case in which the code itself drops something. The
exemption is then a history variable that records exactly that case, so that
everything else is still checked in the same run, and what it exempts is listed in
section 7.

| Variable | Set when |
|---|---|
| `slip` (TabChannel) | `"interrupt"`: a script's deadline struck between queueing a request and registering its callback; `"refused"`: a request the worker counted was dropped by the batch without an answer |
| `mute` (TabAsync) | an operation without a view ran, or the thread of a tick could not be created, and nothing has reported since |
| `exact` (Navigation) | cleared when a report of the page's scripts was discarded, a `tab_popstate` failed, or the document was not loaded at its only entry |
| `upto` (Navigation) | the number of the document the tab would open next when the worker loaded: it differs once a document was opened after the worker's |
| `late` (Navigation) | a tick's report was applied by `gui_quiesce` within the present event |
| `lost` (WsHub) | a socket's operation was dropped: over the limit of an answer, in an answer that navigates, in a tick that was overtaken |

| `cut` (Dom) | the table of handles was full when a node was to be indexed |
| `stray` (FormInput) | the page was pressed elsewhere than on a control |

`taken`, `done`, `conf`, `truth`, `base`, `born`, `oldest`, `fired`, `opened`, `want`, `sent`, `led`, `begun` and `press` are history without exemption: how often a
result was handed out, whose result an operation got, and what an origin vouched for.

## 6. Proofs

The modules `*_proofs` hold theorems checked by TLAPS, for every value of the constants
that satisfies the named assumptions, which TLC evaluates on the constants of its runs.

**PrefetchPool** (`PoolAssumption`: some thread, some caller, a positive capacity, and
the types of the page's references and imports; no finiteness, and any import graph,
cycles included). `PoolTypeCorrect`, `PoolFetchesOnce`, `PoolSingleOwner`,
`PoolImportsFirst`, `PoolNoLostWork`. None of these is inductive alone. The invariant
`PoolInv` adds `Links` (what program counters say about the jobs they point to, and that
a sleeping worker is at its wait), `ClaimedByOne` (exactly the claimed, unpublished jobs
are in the hands of one thread each, without which two publishes could break single
ownership), `NoEarlyExit`, and `Followed`, the loop invariant of `pf_follow_imports`: the
imports before the present one are queued, or the pool stopped accepting. The proof
first shows that every step changes the job list in one of a few ways (appended, one
job updated, unchanged), then that each part of the invariant survives each way.

**TabAsync** (`AsyncAssumption`: at least one tick per load). `TypeCorrect`,
`OneUserOfThePipe`, `ResultsFresh` from `Inv`: while an operation runs there is no job at
all, and a job that is not there is in its initial state. `TimersStayArmed` from
`TimerInv`, which adds that what is due can be run, that a finished tick reports the
timers as they are, that a geometry job always has a tick behind it, and that otherwise
pending timers have a tick due.

**Dom** (`DomAssumption`: any number of nodes and handles, any page and any fragments in
pre-order). `NoLoops` states `Acyclic`; `HandlesAlwaysKept` states `HandlesKept`,
from `HandlesStayExact` (`HandlesExact`) and `ElementsAddressable` (`AllAddressable`). The
invariant `IInv` is `Acyclic` and `HandlesExact` together with `TypeOK` and `FreshFree`, which says that nodes not yet allocated have no
parent, child or handle. Acyclicity is stated as "every set of nodes has a member whose
parent is outside it", which needs no induction: a move keeps it because the code refuses to put a node
under its own descendant, so a set that lost its way out would have had none before;
grafting a fragment keeps it because each new node hangs from an earlier one. Indexing
appends an enumeration of unindexed nodes, so the table and its inverse stay exact.
`AllAddressable` is not inductive, since a detached element may be put back without being
indexed: `Indexed` says it of every element, attached or not. An increasing enumeration of
a set leaves none of it out, because a list that did would have one value twice.

**Navigation** (`NavAssumption`: the types of the constants, a start page, a positive
`HMax` and `MaxTabs`; any set of addresses, any number of tabs, fetches, documents and
entries, every set of `Features`). The bounds of the model appear only in guards, so the
theorems hold however far they are raised. `NavigationTyped`, `HistoriesOrdered`,
`FetchIsCurrent`, `ClicksReachTheirPage`, `StaleNeverPainted` and `LoadsAreStable` follow
from one invariant `Inv`:

- `TabsInv`: every tab is well formed and ordered, identifiers differ, and no
  parked tab has its spinner on;
- `StackInv`: the calls still to be made are well formed, and a `tab_popstate` is only
  ever the next one, so nothing can come between it and the step that asked for it;
- `WorkerInv`, `TickInv`: a live worker runs the document on screen or in cache of the
  active tab, and a tick has a live worker;
- `FetchInv`: unless a load is still to be made in this event, the fetch of the current
  generation is the active tab's and its current document's, there is one at most, and
  what the buffer of the progressive render holds is of that document or of a superseded
  fetch (`StreamInv`);
- `LateInv`: unless a tick was settled in the middle of this event, at most one call is
  to be made, and it is about the current entry. Without it `LoadsCurrent` says nothing of the address that was
  picked two calls earlier.

Each action has a lemma that it keeps `Inv` and takes only steps the three action
properties allow (`StepOK`). `HistoriesAlwaysAgree` needs a second invariant, `TrackInv`,
proved on top of `Inv`: where the worker is exact, the entries of its document are a
contiguous run `f .. g` of the session history, there are a list `H0` and an index `h0`
that match this run, and the worker's list and index are `H0` and `h0` with the report of
the tick that is not yet applied performed on them; the index may differ while a
`tab_popstate` is to be made. Its cases are a push that cuts the forward entries on both
sides, a push that HMAX turns into a replace, and a step that leaves the document and
comes back. The proof found two errors of the model as it was first written: `Mirror`
did not hold of a worker that outlives a failed load (hence `upto`), and
`NeverPaintStale` did not hold where a tick navigates under the answer of a form (hence
`late` in it); both are behaviours of the code (section 7).

**TabChannel** (`ChannelAssumption`: positive limits, operations of the four kinds; any
number of operations and requests). `RepliesAlwaysMatched` and `PagesNeverCross` follow
from `ChannelInv`. Its core, `Protocol`, says whose turn it is: with a living worker the
two ends are `Between` operations, or the operation is `Sent`, or the worker is in its
`Run`, has `Answered`, waits in `Sync` for the reply to one request, has `Asked` for a
batch, or the parent is `Replying`; each names all that may be on either pipe.
`RespInTurn` is the part of this that outlives the worker, since the parent still reads
what a dead worker wrote. The counts of `RepliesMatched` are not inductive without it: a
request is owed a reply while its frame is on the pipe, while its job is in the batch,
while the reply waits to be written and while it is on the pipe back, and only the turns
say that no other message is among these. `Owed` is the four lists one after the other,
`Counted` says that it is as long as the worker believes, `InOrder` that it lists the
callbacks whose reply is not read yet; a step moves identifiers from the head of one part
to the end of the part before it, so the whole list stays the same. A load over a live
page abandons the old page's callbacks between `tab_batch_discard` and the worker's
`child_load` (`Abandoned`), and the counts are exempt there. Nothing is claimed after the batch dropped a
counted request (`slip`, section 7). `ChannelWithinLimits` states `TypeOK`, with every
limit in it, from `LimitsInv`. That the bodies of one batch fit in what is left of the
byte budget is shown with an injection of the accepted jobs into the numbers up to the
budget (the i-th accepted body is the `Bodies(i)`-th), which needs no induction.

**CachedFetch** (`CacheAssumption`: the types of the constants, a positive divisor and
eviction period, a target of at most the limit; any number of threads, partitions,
addresses, sessions, keys and headers, and directories of any size).
`DirectoryAlwaysSound` and `FreshAlwaysTrue` follow from `CacheInv`: `Busy` (a thread at
work has the store open, which is why a put never seals with no key), `Keys` (whole blobs
are sealed with the pair of the key file and named under its profile, also while no store
is open or the profile has changed, until the next open clears them), `Room` (the
directory is finite and within its limit up to the puts and redirects since the last eviction) and that
every entry, on disk or in a thread's hands, was requested before it was vouched for and
vouched for before now. `EntriesAlwaysTrue` adds `Vouched`: while the
address of an entry answers for itself, the validators name the version of its body, and
versions only grow, so a 304 for the tag or the date can only be about that version; an
address that was redirected never counts as staying again. Each step is shown to bring at
most one new entry, an answer's, a put's or a redirect's, so that the last two parts are proved once
for what was there and once for the new one. The run `CachedFetch_moved.cfg` shows what
happens to the entries it exempts (section 7).

**WorkerBirth** (`BirthAssumption`: names of processes, threads and holders differ).
`WorkersAccounted` states `Accounted`, which counts the holders of a process. The
invariant splits the count into `Held` (a process has a holder from its fork until it is
waited for), `HeldOnce` (never two) and `Hands` (a thread holds a process exactly in the
phases between taking or forking it and giving it away), so that each step moves one
process from one holder to another.

**ScriptBudget** (`BudgetAssumption`: naturals, a page budget of at least one deadline, as
in `src/tab.c`, and a clock that reaches it). `LoadsBounded` states `LoadBounded`. The
invariant `BudgetInv` is an account: what has run, and what the deadlines still to be armed
may add (`ArmedIn` counts them in the list of places still to run), never exceed what the
phase of the load allows.

**VideoPlayer and AudioSink** (`VideoAssumption`: positive pipes and counts, decoded
sequences of video and audio messages; `SinkAssumption`). `MediaSafe` states `MediaOwned`.
`VideoInv` says in `Owned` what a running feeder keeps open and that the window has joined
it before it goes on, and in `CmdFramed` and `OutFramed` that what is on a pipe, with what
its writer still has to write, parses into whole messages from the unit its reader is at.
Parsing is the existence of a function that says how many units are owed at each place
(`Parses`), so that reading a unit and writing a message each have one lemma and there is
no recursive parser. `SinkInv`: a child that is not reaped is the one
`audio_pid` names.

**WsPump** (`PumpAssumption`: every message has a frame; frames of any size, empty ones
included, and any limits). `MessagesComeWhole` states `MessagesWhole`. `PumpInv` says where
the pump is in the peer's stream: messages given are the first ones, the message in hand
is a prefix of the next, its length the sum of the prefix, and the frames in curl's
buffer, in the socket and on the wire follow one another from there (`Chained`).

**WsHub** (`WsAssumption`: positive limits and at least one page; any number of pages,
sockets and slots). `SocketsAlwaysKept` states `SocketsKept`, `StatesMoveForward` states
`ReadyStateForward`. The invariant `SocketInv` has these parts:

- `OwnInv`: tokens are never used twice, neither by slots nor by opens under way, a slot
  whose open is under way is pending and has its id (`Awaited`), and every connection of
  curl's is an open slot's or a finished open's (`Held`); one owner follows from it;
- `PageInv`: the page, the calls on the stack and the tick are well formed, and whatever
  they carry is about a socket that the present page has made. It is why leaving a page
  clears the hub before the next page's operations can arrive;
- `ReadsOK`: the slot that a half-done `wh_on_readable` finds again by its token, after a
  handler ran, is the one it was called for;
- `HubOfPage` and `NothingForgotten` themselves. A socket in CONNECTING has its open in
  an answer, in a call half done, or pending in a slot, one in OPEN has a slot, one in
  CLOSING its close in an answer, or its end is about to be emitted, or it is in `lost`.

`KeptIn` restates the last for any page, operations and slots, and `Moves` is all that a
script run may do to a page (new sockets in CONNECTING with their open queued, `close()`
with its operation queued), so each of the calls that run scripts is one use of the same
lemma. The proof found an error of the model: a freed pending slot used to close its
connection (see section 3).

**RedirectMemory** (`RedirectAssumption`: a slot at least). `RedirectsTold` states
`RedirectsTrue`. `RedirectInv` bounds the age at each hand-over (an entry on disk is as
old as its stamp, one in RAM at most `DiskTtl` older than its stamp, which is why the two
lifetimes add up), counts the turns of a loop by its hops, and, while nobody changes a
redirect, says that both memories hold what the origins answer and that what is left of
a chain leads where the whole chain does (`Agrees`).

**Profile** (`ProfileAssumption`: positive limits of the lists; any keys, changes and
sessions). `KeepsProfile` states `ProfileKept` from `ProfileInv`: `SessionOK` says what
preferences in memory are at each step of a session, `KeyOK` that there is one key with
which everything opens that is, or may turn out to be, on the disk: the key file is
renamed before any preferences, and a session that could not read it never writes.
`AtomicSaves` states `SavesAtomic`, the refinement of `DurableRegister`: initial states
map to initial states, and each step of `ds_write`, of the file system and of a stop maps
to a write, to the moment a write becomes durable, to a stop or to a stutter. That the
text form keeps a profile (`RoundTrip`) is an induction over its lines.

**PageEvents** (`EventsAssumption`: positive table of sites). `RequestsOwn` states
`OwnRequests` and `WritesKept` states `KeepsWrites`, from `EventsInv`: a site has one entry,
the worker's storage includes what the window's has of the page's site (`PageHasAll`,
without which collecting it could lose a write), requests that wait in the worker are the
present page's and of operations that carry no report, and a tick's result is of the page
that is still there.

**FormInput** (no assumption). `FormsSound` states `FormSound` from `FormInv`: a page with
scripts never has the keyboard focus in a control (`NoKeyboard`), which is what keeps
`dispatch_js_event` from reading the array that the answer has freed, and without scripts
the controls are as the user left them (`AsFilled`). The mousedown of a press leaves both
as they are (`PressedKeeps`): without scripts nothing is sent, and with them the window it
leaves has no focus either.

Only model-checked:

- every liveness property (`CallsReturn`, `OpReturns`, `TickComes`, `MediaPlays`,
  `ProcessesEnd`, `Settles`, `Delivered`): liveness under fairness and `ENABLED` are
  outside this prover's reach;
- `StyleTrue` and `SelectorsTrue`, which compare two evaluations of trees and selectors
  written with `RECURSIVE` operators, which the prover does not accept;
- `FoundById`: the answer depends on filters (`SelectSeq`) of a walk of the tree, whose
  order would have to be related to the child lists by an induction over the tree.

The library's induction theorems cannot be used, since their parameter is an operator.
Where a proof needs induction it goes over a set of natural numbers instead: the set of
counterexamples would have a least member (`OneByOne` in `WsHub_proofs`, and the like in
`Window_proofs`, `CachedFetch_proofs` and `Processes_proofs`), which covers recursive
functions on numbers and positions of a sequence.

## 7. What was found

Four runs show a disagreement between the code and what the repository says of it;
`PROJECT.json` quotes the lines.

1. **A batch thread outlives its fetcher** (`channel_frame`). A load whose callbacks ask
   for more in the last drain round (`TAB_MAX_NET_ROUNDS`) succeeds with deferred fetches
   running. They use the fetcher that lives on the stack of `render_current_ex`. A load
   that fails closes the tab, which joins the threads, before that frame is left.
2. **`video_stop` may never return** (`video_stop`). It joins a feeder that is blocked on
   a pipe; the decoder behind it is blocked on the pipe that only the joining thread
   reads.
3. **A submit does not send what was typed** (`form_typed`). On a page with scripts every
   dispatched event replaces the document and seeds the controls from the markup; one
   control is restored, after an event that carries its value. In the trace a box is ticked
   and the submit control pressed: the press's own mousedown (`dispatch_mouse_event`)
   rebuilds the controls before they are gathered, and the box is not sent. With scripts
   off the same happens to a press on a `<button>`'s box, whose click goes to the worker in
   any mode and rebuilds the controls before the submit (`stray`).
4. **Reading a long `innerHTML` never answers** (`inner_html`). `ih_append` makes no
   progress once a block is full but for its last byte.

More behaviours, each shown by a violated property (section 4):

- `SecondTakeMisses` (`PrefetchPool_shared.cfg`): `pf_pool_take` waits while a job is not
  `DONE`. If two takes wait for one URL, the first consumes the job and the second waits
  for ever, where `prefetch.h` says "a second take of the same URL is a miss".
- `ValidatorAtHome` (`CachedFetch_moved.cfg`): a conditional request to the stored final
  address follows redirects with its validators; a 304 of another resource renews the
  old body (`cached_fetch.c:103` says that a validator "must not travel to another origin").
- `Limited` (`Cache.cfg`, in place of its invariants): `spec/http_cache.md:14` gives the
  directory "128 MiB en total". Nothing keeps it to that: a redirect is written without
  counting towards the next eviction (`http_cache.c:446-457`), and the counter starts at
  zero in every session while `hc_open` evicts nothing, so what a session finds may exceed
  the limit already. `DirectorySound` states how far it does grow.
- `TakesFocus` (`FormInput_typed.cfg`, in place of its invariant): on a page with scripts a press on a text control
  does not leave it focused, because the event's answer rebuilds the controls
  (`gui/browser_ui.c:19034` says that the focus is kept).
- `OneLoadPerGesture` (`FormInput_typed.cfg`, in place of its invariant): a handler of the
  press's mousedown navigates, and the click, the link or the submit of the same press
  begins a second load. `gui/browser_ui.c:18591` says that "a click that navigated (link,
  handler) supersedes the submit"; the generation is read after the mousedown, so that
  only what the click itself began does. `OneLoadPerPress`, a part of `FormSound`, counts
  from there.
- `KeepsUsed` (`Window.cfg` with `MaxOps = 7`, in place of its invariants and properties):
  `spec/web_storage.md:19` and `src/web_storage.c:152` say that a full table drops the least
  recently used site. Only a write counts as use (line 171): the site of the page just
  shown, seeded from its storage and not written since, is dropped before one that was
  shown earlier and written later. `KeepsWrites` states the order by writes.
- `ScreenCurrent` (`Navigation.cfg`, in place of its invariants): a page that was left is
  painted while the next one loads. `stream_progress_cb` compares `net_gen` with
  `stream_launch_gen`, which the next `fetch_launch` overwrites, so once that fetch is
  launched the superseded one passes the check again, and the loop paints what comes of
  it; the same holds of what the buffer kept from before. `gui/browser_ui.c:2034` says
  "Discard if the main thread has launched a new navigation since this fetch started",
  and line 2114 that the launch generation is there "so the progress callback discards its
  data". `NeverPaintStale` allows this while a load is in progress, and nothing else.
- `BudgetShared` (`Processes.cfg`, in place of its properties): the scripts of a page run
  for longer than the page's budget. `src/tab.c:1529` says that "a single page-wide
  wall-clock budget is shared across every script and the synthetic load/timer pump, so
  isolating scripts never multiplies the cap", and `spec/tab.md:258` the same; but what is
  left when a script starts is armed anew for its evaluation, for each of two drains of
  jobs and for the flush of custom elements. `LoadBounded` is what does hold: the number
  of scripts multiplies nothing, the places of one script and the rounds of replies do.
  Nor does the budget cover the ticks, as `gui/browser_ui.c:2519` says it does: each has
  a deadline of its own.
- `EveryRunInterrupted` (`Processes.cfg`, in place of its properties): a reply callback,
  an event's listeners, a `toString` called to format a result, or an accessor that the
  video shim reads run without an armed deadline and may never end, where
  `spec/js_sandbox.md:58` says that an infinite loop is interrupted. `EveryRunEnds`, a part of
  `ProcessesEnd`, exempts these places only.
- `HeadingBoxes` (`Page.cfg`, in place of its invariants): the user agent's factor of a heading is applied
  once more to the `em` lengths of its `::before` and `::after`
  (`src/css.c:6575`), where `src/css_chain.c:447` says that "the element's computed size is
  the "parent" size its own em lengths resolve against".

Behaviour the models contain and the properties exempt or do not state:

- *Workers.* The end of the program closes the page's worker and the spare; those of its
  iframes are neither killed nor waited for, and end by themselves (`NoneLeft`).
- *Video.* A decoder that died is noticed only when its pipe is read, which a window that
  holds a frame does not do.
- *Document.* `getElementsByTagName` (`GetByTag`) finds removed elements.

- *Channel.* A script interrupted between queueing a request and registering its
  callback shifts every later callback of that page to the reply before its own. A
  batch that cannot create a thread drops a request the worker has counted: the next
  operation then reads the previous one's result. `batch_bytes` is counted over the life
  of a page, although the comment on its limit speaks of a batch. Reply callbacks can run
  without an armed deadline.
- *Navigation.* `do_load` settles the tick after its caller has picked the address and
  moved the history, so a tick's pushState may be applied to the new entry and the
  address loaded may not be the current one. After a reload or a Back over documents
  the worker starts its list with one entry while the session history may hold several.
  A failed navigation leaves the worker of the page before, whose timers can repaint it,
  and whose list still has the entries the navigation cut off (`upto`). A tick that
  navigates while `set_cache` settles it for the answer to a form moves the history on,
  and the answer is painted as the page of the new entry until that entry's own load
  ends (`late`).
  A chain of navigations by timers has no bound: each settled page resets the count. A
  click discards a pushState that a finished tick had to report.
- *Background job.* `tab_submit` and `tab_eval` join a tick and drop its report of the
  next timer; the page's timers stop until something else reports. A job that replaced
  the one `poll` reported is joined, and the window stands still until it ends.
- *Handlers.* A click asks to open a window outside a gesture when its operation's reply
  could not carry the request (`OpensByGesture`, `src/tab.c:3710`); a link is followed
  although its click handler prevented it; requests made in a submit handler or in a
  geometry observer are taken by the next operation that reports; `tab_async_sync`
  discards those of a finished tick; writes to `localStorage` by handlers of operations
  without a report are collected late or not at all (`spec/web_storage.md:59`); an
  external script's budget is computed before it is fetched.
- *Redirects.* The RAM copy of an entry loaded from disk is stamped with the present
  time, so that a redirect may live for both lifetimes in a row.
- *WebSockets.* Operations past 64 in an answer are dropped without an event; so are
  those in an answer that navigates. A socket may be closed by a re-entrant `close()`
  before its queued open is applied. An open that finishes between the last read of
  `wh_free` and its close of the pair is lost with its connection. After 256 reads a pump
  may leave frames in curl's buffer that `poll` does not see.
- *Style.* An unknown position fails a pseudo-class, so under `:not()` it matches: the
  of-type positions of siblings are never filled in, and positions past the limit are
  unknown, where `spec/css_chain.md` promises no false positive. `:has()` compares the
  names of its argument and ignores its pseudo-classes. A theme class required of `html`
  also counts as the document's when only `body` carries it. Below `PV_FONT_CHAIN_MAX`
  unresolved ancestors an `em` depends on what was asked before; without a memo a
  generated box inherits the initial size and no variables. The sheets of the run stay
  clear of the first three and its page of the fourth.
- *Cache.* At the end the window frees the store without waiting for detached fetches
  (`gui/browser_ui.c:20197-20199`); one that is about to store finds freed memory until the
  process is gone, which the model leaves out. A 304 with `no-store` renews and stores the entry. A slow put of
  an older renewal may replace a newer entry, which stays true but is older.

## 8. What is not modelled

The payload of results and its marshalling, painting, text in the URL bar, parsing of
dates and header text, TLS and the wire format of WebSockets, cryptography (keys are
opaque), and what the kernel or QuickJS do to a worker beyond killing or interrupting
it. Fetches, origins, peers and the file system are external: they may answer, fail or be
slow in any way the code around them can observe. Components without a model are in
`PROJECT.json` with the reason, and section 2 says which come next.
