------------------------------- MODULE WsHub -------------------------------
(***************************************************************************)
(* The WebSockets of a trusted page: the objects of its scripts            *)
(* (src/js_trusted.c), the operations that travel in every answer of the   *)
(* worker, the window that applies them (gui/browser_ui.c) and the hub     *)
(* that holds the connections (src/ws_hub.c).                              *)
(*                                                                         *)
(* Every event runs handlers, whose own operations are applied before the  *)
(* event returns: the window's call stack is part of the state.  A run of  *)
(* the page's scripts (`script') is one or two constructor or close()      *)
(* calls; what is sent over an open socket changes nothing here.           *)
(***************************************************************************)
EXTENDS Naturals, Sequences, FiniteSets, Functions

CONSTANTS WHMax,     \* WH_MAX = JD_WS_MAX: sockets per page
          MaxOps,    \* JT_WS_MAX_OPS: operations per answer
          Reads,     \* WH_READS_PER_PUMP
          MaxLen,    \* SF_WS_MAX_MESSAGE, in fragments
          Sockets    \* bound: the pages, and the sockets each one creates

WsAssumption ==
    /\ WHMax \in Nat \ {0} /\ MaxOps \in Nat /\ Reads \in Nat \ {0} /\ MaxLen \in Nat
    /\ Sockets \in Seq(Nat \ {0}) /\ Sockets # <<>>

VARIABLES
    page,     \* the page: its number, its worker, its sockets, __wsOps
    conn,     \* the hub's slots
    seq,      \* the hub's last token
    threads,  \* opens under way
    pipe,     \* finished opens in the socket pair
    ws,       \* tokens of the connections curl holds
    stack,    \* the window's calls, innermost first
    tick,     \* the background tick and what it has taken
    hub,      \* "up", then wh_free: "drain", "drained", "gone"
    lost      \* history: sockets of the page an operation of which was dropped

vars == <<page, conn, seq, threads, pipe, ws, stack, tick, hub, lost>>

MaxDoc == Len(Sockets)
MaxId  == CHOOSE n \in Range(Sockets) : \A m \in Range(Sockets) : m <= n

Ids   == 1 .. MaxId
Slots == 1 .. WHMax
Tokens == 1 .. MaxId * MaxDoc

CONNECTING == 0
OPEN       == 1
CLOSING    == 2
CLOSED     == 3

(***************************************************************************)
(* The page.                                                               *)
(***************************************************************************)
NewPage(d, a) == [doc |-> d, alive |-> a, n |-> 0, rs |-> [i \in Ids |-> CONNECTING], ops |-> <<>>]

Live(p) == {i \in 1 .. p.n : p.rs[i] # CLOSED}

Op(k, i) == [kind |-> k, id |-> i]

\* The constructor: a page at its limit gets an exception.
Construct(p) ==
    IF p.n < Sockets[p.doc] /\ Cardinality(Live(p)) < WHMax
    THEN [p EXCEPT !.n = @ + 1, !.ops = Append(@, Op("open", p.n + 1))]
    ELSE p

\* WS.prototype.close
Close(p, i) ==
    IF i <= p.n /\ p.rs[i] \in {CONNECTING, OPEN}
    THEN [p EXCEPT !.rs[i] = CLOSING, !.ops = Append(@, Op("close", i))]
    ELSE p

Call(p, c) == IF c = 0 THEN Construct(p) ELSE Close(p, c)

Calls == 0 .. MaxId

\* What a run of scripts may leave the page as.
Runs(p) == {p} \cup {Call(p, c) : c \in Calls} \cup {Call(Call(p, c), d) : c, d \in Calls}

\* __wsEvent: the object's state; handlers run only for a live socket.
EventStateAny(p, i, k) ==
    [p EXCEPT !.rs[i] = CASE k = "open"  -> OPEN
                          [] k = "close" -> CLOSED
                          [] OTHER       -> @]

EventState(p, i, k) ==
    [p EXCEPT !.rs[i] = IF i \notin Live(p) THEN @
                        ELSE CASE k = "open"  -> OPEN
                               [] k = "close" -> CLOSED
                               [] OTHER       -> @]

AfterEvent(p, i, k) ==
    LET q == EventState(p, i, k) IN IF i \in Live(p) THEN Runs(q) ELSE {q}

\* jt_take_ws: what does not fit is dropped with the rest of the queue.
Taken(p)   == SubSeq(p.ops, 1, IF Len(p.ops) > MaxOps THEN MaxOps ELSE Len(p.ops))
Overflow(p) == SubSeq(p.ops, MaxOps + 1, Len(p.ops))
Emptied(p) == [p EXCEPT !.ops = <<>>]

Touched(o) == {x.id : x \in Range(o)}

(***************************************************************************)
(* The hub's slots.                                                        *)
(***************************************************************************)
NoConn == [st |-> "free", id |-> 0, token |-> 0, len |-> 0]

Used     == {s \in Slots : conn[s].st # "free"}
ById(i)  == {s \in Used : conn[s].id = i}
ByToken(t) == {s \in Used : conn[s].token = t}

\* conn_clear closes what the slot holds: nothing yet, while its open is
\* under way.
Cleared(S) == [s \in Slots |-> IF s \in S THEN NoConn ELSE conn[s]]
Dropped(S) == ws \ {conn[s].token : s \in {x \in S : conn[x].st = "open"}}

(***************************************************************************)
(* Calls of the window.                                                    *)
(***************************************************************************)
Frame(f)      == [f |-> f, ops |-> <<>>, id |-> 0, token |-> 0, n |-> 0]
Apply(o)      == [Frame("apply") EXCEPT !.ops = o]
EmitClose(i)  == [Frame("emit") EXCEPT !.id = i]
ReadFrame(t, i) == [Frame("read") EXCEPT !.token = t, !.id = i]

Top(f)  == stack # <<>> /\ Head(stack).f = f
Rest    == Tail(stack)

\* Every operation on the worker joins the tick and drops its result.
Synced == IF tick.st = "done" THEN [st |-> "none", ops |-> <<>>] ELSE tick

\* The answer of an operation that left the page as q: apply_click_result,
\* over the calls s.  A navigation returns before the sockets are looked at;
\* window.open parks the page after them.
Applied(o, s, dropped) ==
    \/ /\ \/ stack' = <<Apply(o)>> \o s
          \/ stack' = <<Apply(o), Frame("leave")>> \o s
       /\ lost' = lost \cup dropped
    \/ /\ stack' = s
       /\ lost' = lost \cup dropped \cup Touched(o)

Answer(q, s) ==
    /\ page' = Emptied(q)
    /\ Applied(Taken(q), s, Touched(Overflow(q)) \cup Touched(tick.ops))

\* gui_ws_emit: an event to the page, over the calls s.
Emit(i, k, s) ==
    IF page.alive
    THEN /\ tick.st # "running"
         /\ tick' = Synced
         /\ \E q \in AfterEvent(page, i, k) : Answer(q, s)
    ELSE /\ stack' = s
         /\ UNCHANGED <<page, tick, lost>>

Init ==
    /\ \E q \in Runs(NewPage(1, TRUE)) :
           page = Emptied(q) /\ stack = <<Apply(Taken(q))>> /\ lost = Touched(Overflow(q))
    /\ conn = [s \in Slots |-> NoConn] /\ seq = 0
    /\ threads = {} /\ pipe = <<>> /\ ws = {}
    /\ tick = [st |-> "none", ops |-> <<>>] /\ hub = "up"

(***************************************************************************)
(* ws_apply_ops, one operation at a time.                                  *)
(***************************************************************************)
ApplyEnd ==
    /\ Top("apply") /\ Head(stack).ops = <<>>
    /\ stack' = Rest
    /\ UNCHANGED <<page, conn, seq, threads, pipe, ws, tick, hub, lost>>

CurOp   == Head(Head(stack).ops)
ApplyRest == <<Apply(Tail(Head(stack).ops))>> \o Rest
Applying(k) == Top("apply") /\ Head(stack).ops # <<>> /\ CurOp.kind = k

\* wh_open_async: refused with a duplicate id or a full hub.
OpenAsync(i) ==
    /\ ById(i) = {} /\ Used # Slots
    /\ LET s == CHOOSE s \in Slots \ Used : \A x \in Slots \ Used : s <= x
       IN  conn' = [conn EXCEPT ![s] = [st |-> "pending", id |-> i, token |-> seq + 1, len |-> 0]]
    /\ seq' = seq + 1
    /\ threads' = threads \cup {[token |-> seq + 1, id |-> i, st |-> "opening"]}

ApplyOpen ==
    /\ Applying("open")
    /\ page.alive /\ OpenAsync(CurOp.id)
    /\ stack' = ApplyRest
    /\ UNCHANGED <<page, pipe, ws, tick, hub, lost>>

ApplyRefusedSilent ==
    /\ Applying("open")
    /\ stack' = ApplyRest
    /\ UNCHANGED <<page, conn, seq, threads, pipe, ws, tick, hub, lost>>

\* A host the policy refuses, a thread that does not start, a page that has
\* gone (no address, hence not trusted), or a hub that refuses.
ApplyRefused ==
    /\ Applying("open")
    /\ Emit(CurOp.id, "error", <<EmitClose(CurOp.id)>> \o ApplyRest)
    /\ UNCHANGED <<conn, seq, threads, pipe, ws, hub>>

ApplyClose ==
    /\ Applying("close")
    /\ conn' = Cleared(ById(CurOp.id))
    /\ ws' = Dropped(ById(CurOp.id))
    /\ Emit(CurOp.id, "close", ApplyRest)
    /\ UNCHANGED <<seq, threads, pipe, hub>>

\* The second event of a failure.
EmitStep ==
    /\ Top("emit")
    /\ Emit(Head(stack).id, "close", Rest)
    /\ UNCHANGED <<conn, seq, threads, pipe, ws, hub>>

\* tab_new: close_page_worker, and an empty page takes the window.
CloseAll ==
    /\ conn' = Cleared(Used)
    /\ ws' = Dropped(Used)

LeaveStep ==
    /\ Top("leave")
    /\ CloseAll
    /\ page' = [page EXCEPT !.alive = FALSE]
    /\ stack' = Rest
    /\ UNCHANGED <<seq, threads, pipe, tick, hub, lost>>

(***************************************************************************)
(* The threads that open connections.                                      *)
(***************************************************************************)
\* sf_ws_open returns.
Opened(j) ==
    /\ j.st = "opening"
    /\ \E r \in {"ok", "failed"} :
           /\ threads' = (threads \ {j}) \cup {[j EXCEPT !.st = r]}
           /\ ws' = IF r = "ok" THEN ws \cup {j.token} ELSE ws
    /\ UNCHANGED <<page, conn, seq, pipe, stack, tick, hub, lost>>

HandOverOk(j) ==
    /\ j.st # "opening"
    /\ threads' = threads \ {j}
    /\ pipe' = IF j.st = "ok" THEN Append(pipe, j) ELSE pipe
    /\ UNCHANGED <<page, conn, seq, ws, stack, tick, hub, lost>>

\* The job is handed over, or freed when the hub is gone.
HandOver(j) ==
    /\ j.st # "opening"
    /\ threads' = threads \ {j}
    /\ IF hub = "gone"
       THEN ws' = ws \ {j.token} /\ UNCHANGED pipe
       ELSE pipe' = Append(pipe, j) /\ UNCHANGED ws
    /\ UNCHANGED <<page, conn, seq, stack, tick, hub, lost>>

(***************************************************************************)
(* wh_on_notify.                                                           *)
(***************************************************************************)
Notify ==
    /\ stack = <<>> /\ hub = "up" /\ pipe # <<>>
    /\ stack' = <<Frame("notify")>>
    /\ UNCHANGED <<page, conn, seq, threads, pipe, ws, tick, hub, lost>>

NotifyEnd ==
    /\ Top("notify") /\ pipe = <<>>
    /\ stack' = Rest
    /\ UNCHANGED <<page, conn, seq, threads, pipe, ws, tick, hub, lost>>

\* The slot a finished open belongs to, if it has not been closed meanwhile.
OwnSlot(j) == {s \in ByToken(j.token) : conn[s].st = "pending"}

NotifyLateLeak ==
    /\ Top("notify") /\ pipe # <<>>
    /\ OwnSlot(Head(pipe)) = {}
    /\ pipe' = Tail(pipe)
    /\ UNCHANGED <<page, conn, seq, threads, ws, stack, tick, hub, lost>>

NotifyLate ==
    /\ Top("notify") /\ pipe # <<>>
    /\ OwnSlot(Head(pipe)) = {}
    /\ pipe' = Tail(pipe)
    /\ ws' = ws \ {Head(pipe).token}
    /\ UNCHANGED <<page, conn, seq, threads, stack, tick, hub, lost>>

NotifyOpen ==
    /\ Top("notify") /\ pipe # <<>>
    /\ Head(pipe).st = "ok"
    /\ \E s \in OwnSlot(Head(pipe)) :
           conn' = [conn EXCEPT ![s].st = "open"]
    /\ pipe' = Tail(pipe)
    /\ Emit(Head(pipe).id, "open", stack)
    /\ UNCHANGED <<seq, threads, ws, hub>>

NotifyFailed ==
    /\ Top("notify") /\ pipe # <<>>
    /\ Head(pipe).st = "failed"
    /\ OwnSlot(Head(pipe)) # {}
    /\ conn' = Cleared(OwnSlot(Head(pipe)))
    /\ pipe' = Tail(pipe)
    /\ Emit(Head(pipe).id, "error", <<EmitClose(Head(pipe).id)>> \o stack)
    /\ UNCHANGED <<seq, threads, ws, hub>>

(***************************************************************************)
(* wh_on_readable.  The ids were captured before poll.                     *)
(***************************************************************************)
OpenSlots(i) == {s \in ById(i) : conn[s].st = "open"}

Readable(i) ==
    /\ stack = <<>> /\ hub = "up"
    /\ \E s \in OpenSlots(i) : stack' = <<ReadFrame(conn[s].token, i)>>
    /\ UNCHANGED <<page, conn, seq, threads, pipe, ws, tick, hub, lost>>

\* The slot looked up again after every event.
ReadSlots == ByToken(Head(stack).token)

ReadEnd ==
    /\ Top("read")
    /\ stack' = Rest
    /\ UNCHANGED <<page, conn, seq, threads, pipe, ws, tick, hub, lost>>

Reading == Top("read") /\ Head(stack).n < Reads /\ ReadSlots # {}

Again == <<[Head(stack) EXCEPT !.n = @ + 1]>> \o Rest

\* A fragment or a control frame.
ReadPart ==
    /\ Reading
    /\ \E s \in ReadSlots, d \in {0, 1} :
           /\ conn[s].len + d <= MaxLen
           /\ conn' = [conn EXCEPT ![s].len = @ + d]
    /\ stack' = Again
    /\ UNCHANGED <<page, seq, threads, pipe, ws, tick, hub, lost>>

\* The last fragment of a message.
ReadMessage ==
    /\ Reading
    /\ \E s \in ReadSlots : conn' = [conn EXCEPT ![s].len = 0]
    /\ Emit(Head(stack).id, "message", Again)
    /\ UNCHANGED <<seq, threads, pipe, ws, hub>>

\* A close frame.
ReadClose ==
    /\ Reading
    /\ conn' = Cleared(ReadSlots)
    /\ ws' = Dropped(ReadSlots)
    /\ Emit(Head(stack).id, "close", Rest)
    /\ UNCHANGED <<seq, threads, pipe, hub>>

\* A broken connection or a message past the limit.
ReadFail ==
    /\ Reading
    /\ conn' = Cleared(ReadSlots)
    /\ ws' = Dropped(ReadSlots)
    /\ Emit(Head(stack).id, "error", <<EmitClose(Head(stack).id)>> \o Rest)
    /\ UNCHANGED <<seq, threads, pipe, hub>>

(***************************************************************************)
(* The window's loop.                                                      *)
(***************************************************************************)
AtLoop == stack = <<>> /\ hub = "up"

\* A click, a key, a popstate...
PageOp ==
    /\ AtLoop /\ page.alive /\ tick.st # "running"
    /\ tick' = Synced
    /\ \E q \in Runs(page) : Answer(q, <<>>)
    /\ UNCHANGED <<conn, seq, threads, pipe, ws, hub>>

\* submit, eval: their answers carry no operations, which wait for the next.
PageEval ==
    /\ AtLoop /\ page.alive /\ tick.st # "running"
    /\ tick' = Synced
    /\ page' \in Runs(page)
    /\ lost' = lost \cup Touched(tick.ops)
    /\ UNCHANGED <<conn, seq, threads, pipe, ws, stack, hub>>

TickStart ==
    /\ AtLoop /\ page.alive /\ tick.st = "none"
    /\ tick' = [tick EXCEPT !.st = "running"]
    /\ UNCHANGED <<page, conn, seq, threads, pipe, ws, stack, hub, lost>>

TickRun ==
    /\ tick.st = "running"
    /\ \E q \in Runs(page) :
           /\ page' = Emptied(q) /\ tick' = [st |-> "done", ops |-> Taken(q)]
           /\ lost' = lost \cup Touched(Overflow(q))
    /\ UNCHANGED <<conn, seq, threads, pipe, ws, stack, hub>>

\* on_tab_async
TickApply ==
    /\ AtLoop /\ tick.st = "done"
    /\ tick' = [st |-> "none", ops |-> <<>>]
    /\ Applied(tick.ops, <<>>, {})
    /\ UNCHANGED <<page, conn, seq, threads, pipe, ws, hub>>

\* A tab switched or closed; gui_quiesce has applied the tick.
Leave ==
    /\ AtLoop /\ page.alive /\ tick.st = "none"
    /\ CloseAll
    /\ page' = [page EXCEPT !.alive = FALSE]
    /\ UNCHANGED <<seq, threads, pipe, stack, tick, hub, lost>>

\* render_current_ex: the next page, whose load runs scripts.
RenderPage ==
    /\ AtLoop /\ page.doc < MaxDoc /\ tick.st # "running"
    /\ CloseAll
    /\ tick' = Synced
    /\ \E q \in Runs(NewPage(page.doc + 1, TRUE)) :
           /\ page' = Emptied(q) /\ stack' = <<Apply(Taken(q))>>
           /\ lost' = Touched(Overflow(q))
    /\ UNCHANGED <<seq, threads, pipe, hub>>

\* wh_free when the window ends.
Exit ==
    /\ AtLoop /\ tick.st = "none"
    /\ CloseAll
    /\ page' = [page EXCEPT !.alive = FALSE]
    /\ hub' = "drain"
    /\ UNCHANGED <<seq, threads, pipe, stack, tick, lost>>

Drain ==
    /\ hub = "drain" /\ pipe # <<>>
    /\ pipe' = Tail(pipe)
    /\ ws' = ws \ {Head(pipe).token}
    /\ UNCHANGED <<page, conn, seq, threads, stack, tick, hub, lost>>

\* The read that finds the pair empty, and the close.
Drained ==
    /\ \/ hub = "drain" /\ pipe = <<>> /\ hub' = "drained"
       \/ hub = "drained" /\ hub' = "gone"
    /\ UNCHANGED <<page, conn, seq, threads, pipe, ws, stack, tick, lost>>

\* A turn of the loop with nothing to do.
Idle == stack = <<>> /\ UNCHANGED vars

Calling ==
    \/ ApplyEnd \/ ApplyOpen \/ ApplyRefused \/ ApplyClose \/ EmitStep \/ LeaveStep
    \/ NotifyEnd \/ NotifyLate \/ NotifyOpen \/ NotifyFailed
    \/ ReadEnd \/ ReadPart \/ ReadMessage \/ ReadClose \/ ReadFail

Looping ==
    \/ PageOp \/ PageEval \/ TickStart \/ TickApply \/ Leave \/ RenderPage
    \/ Notify \/ (\E i \in Ids : Readable(i))
    \/ Exit \/ Drain \/ Drained \/ Idle

Opening == \E j \in threads : Opened(j) \/ HandOver(j)

Next == Calling \/ Looping \/ Opening \/ TickRun

\* Calls return, opens have timeouts, poll reports a readable socket pair.
Fairness ==
    /\ WF_vars(Calling) /\ WF_vars(Opening) /\ WF_vars(TickRun)
    /\ SF_vars(Notify) /\ SF_vars(TickApply)

Spec == Init /\ [][Next]_vars /\ Fairness

(***************************************************************************)
(* Properties.                                                             *)
(***************************************************************************)
OpSet == [kind : {"open", "close"}, id : Ids]

TypeOK ==
    /\ page \in [doc : 1 .. MaxDoc, alive : BOOLEAN, n : 0 .. MaxId,
                  rs : [Ids -> CONNECTING .. CLOSED], ops : Seq(OpSet)]
    /\ conn \in [Slots -> [st : {"free", "pending", "open"}, id : 0 .. MaxId,
                            token : 0 .. MaxId * MaxDoc, len : 0 .. MaxLen]]
    /\ seq \in 0 .. MaxId * MaxDoc
    /\ threads \subseteq [token : Tokens, id : Ids, st : {"opening", "ok", "failed"}]
    /\ ws \subseteq Tokens
    /\ tick.st \in {"none", "running", "done"}
    /\ hub \in {"up", "drain", "drained", "gone"} /\ lost \subseteq Ids

\* What is on its way for socket i: an operation k in the queue, in an answer
\* being applied or in a finished tick, or the last event of a failure.
Coming(k, i) ==
    \/ \E x \in Range(page.ops) \cup Range(tick.ops) : x = Op(k, i)
    \/ \E f \in Range(stack) : f.f = "apply" /\ Op(k, i) \in Range(f.ops)
Ending(i) == \E f \in Range(stack) : f.f = "emit" /\ f.id = i

Holds(i, st) == \E s \in ById(i) : conn[s].st = st

\* The code's ways of dropping an operation are jt_take_ws's limits, a
\* navigation in the same answer and a tick overtaken by another operation
\* (lost).  Otherwise nothing is forgotten: a socket of the present page that
\* is connecting has its open on the way or under way, an open one its
\* connection, a closing one its close; else its last event is about to be
\* delivered.
Remembered(i) ==
    \/ Ending(i)
    \/ /\ page.rs[i] = CONNECTING => Coming("open", i) \/ Holds(i, "pending")
       /\ page.rs[i] = OPEN       => Holds(i, "open")
       /\ page.rs[i] = CLOSING    => Coming("close", i)

NothingForgotten ==
    page.alive => \A i \in (1 .. page.n) \ lost : Remembered(i)

\* A socket never outlives its document (close_page_worker): what the hub
\* holds was opened by the present page.
HubOfPage ==
    \A s \in Used : /\ page.alive
                    /\ conn[s].id <= page.n
                    /\ conn[s].st = "open" => page.rs[conn[s].id] # CONNECTING

\* Every connection has one owner: a slot, a thread, or the socket pair.
Owners(t) ==
    Cardinality({s \in Slots : conn[s].st = "open" /\ conn[s].token = t})
    + Cardinality({j \in threads : j.token = t})
    + Cardinality({k \in DOMAIN pipe : pipe[k].token = t})

OneOwner == \A t \in ws : Owners(t) = 1

\* A socket that waits for an event has something on its way to it; every
\* connection is owned once, by a slot, a thread or the pipe between them; and
\* what the hub holds was opened by the present page.
SocketsKept == NothingForgotten /\ OneOwner /\ HubOfPage

\* readyState only moves forward, whatever the order of late results,
\* handlers and closes, for a socket whose close() has not been dropped and
\* is not waiting for the next answer (submit and eval leave it queued).
ReadyStateForward ==
    [][page'.doc = page.doc =>
           \A i \in Ids \ lost' :
               page.rs[i] <= page'.rs[i] \/ Op("close", i) \in Range(page.ops)]_vars

\* A constructor's socket does not stay in CONNECTING, unless its open was
\* dropped or waits for an answer that never comes.
Settles ==
    \A i \in Ids, d \in 1 .. MaxDoc :
        (page.doc = d /\ page.alive /\ i <= page.n)
            ~> \/ page.doc # d \/ ~page.alive \/ page.rs[i] # CONNECTING
               \/ i \in lost \/ Op("open", i) \in Range(page.ops)
=============================================================================
