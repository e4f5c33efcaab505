---------------------------- MODULE ScriptBudget ----------------------------
(***************************************************************************)
(* How long a worker lets a page's code run.  js_eval, js_eval_module and  *)
(* js_pump_jobs arm a deadline of limits.time_budget_ms and disarm it; the *)
(* interrupt callback ends code that is past an armed deadline and nothing *)
(* else.  A load shares one budget among the scripts by setting the limit  *)
(* to what is left of it before each script.  Time is counted in units of  *)
(* the budget; a place is a point where the worker enters the page's code. *)
(***************************************************************************)
EXTENDS Integers, Sequences

CONSTANTS
    Total,       \* the page's budget: FC_TRUSTED_JS_BUDGET_MS or the default
    Default,     \* JS_DEFAULT_TIME_BUDGET
    MaxRounds,   \* TAB_MAX_NET_ROUNDS
    Pages,       \* scripts of a page in the order of the three passes
    Loops,       \* the places where the page's code may run for ever
    MaxClock,    \* bound: time is not counted beyond it
    MaxOps       \* bound: operations after the load

BudgetAssumption ==
    /\ {Total, Default, MaxRounds, MaxClock, MaxOps} \subseteq Nat
    /\ Total >= Default /\ MaxClock > Total

NotArmed == -1

\* Where js_eval, js_eval_module and js_pump_jobs run the page's code.  The
\* other places are JS_Eval or JS_Call without a deadline: the formatting of a
\* result or an exception (toString of the page), an event's listeners
\* (jd_eval_default_action), a reply's callback (jd_net_deliver) and the video
\* shim, which reads globals of the page (jd_inject_video_shim).
ArmedPlaces == {"eval", "pump", "flush", "fire", "tick"}
Places == ArmedPlaces \cup {"format", "listeners", "deliver", "shim"}

VARIABLES
    phase,    \* the load: "scripts", "fetch", "fired"; any operation: "drain", "derive", "idle"
    todo,     \* scripts of the page not yet reached
    places,   \* what this step has still to run; code is in the first when inside # "out"
    inside,   \* "out": in the worker's own code; "ends" or "loops": in the page's
    clock,    \* since t0 of the load, or since the operation began
    limit,    \* limits.time_budget_ms
    countdown,     \* time left to the armed deadline, or NotArmed
    round,    \* of child_net_drain
    ran,      \* history: time spent in armed places in this operation
    ops       \* operations begun
budgetVars == <<phase, todo, places, inside, clock, limit, countdown, round, ran, ops>>
control == <<phase, todo, places, limit, round, ops>>

BudgetTypes ==
    /\ phase \in {"scripts", "fetch", "fired", "drain", "derive", "idle"}
    /\ inside \in {"out", "ends", "loops"} /\ (inside # "out" => places # <<>>)
    /\ clock \in 0..MaxClock /\ limit \in 0..(Total + Default) /\ ops \in 0..MaxOps
    /\ countdown \in 0..(Total + Default) \cup {NotArmed} /\ (countdown # NotArmed => inside # "out")
    /\ round \in 0..MaxRounds /\ ran \in Nat

Remaining == IF clock >= Total THEN 0 ELSE Total - clock
Later == clock..MaxClock        \* a wait for the parent's answer

\* jd_click_state and the rest are in place: a load has run to its scripts.
BudgetInit ==
    /\ phase = "scripts" /\ todo \in Pages /\ places = <<>> /\ inside = "out"
    /\ clock = 0 /\ limit = Default /\ countdown = NotArmed
    /\ round = 0 /\ ran = 0 /\ ops = 0

Ready(p) == phase = p /\ places = <<>>
ScriptPlaces == <<"eval", "format", "pump", "flush", "pump">>

\* (every script is given the whole budget)
NextScriptWhole ==
    /\ Ready("scripts") /\ todo # <<>> /\ Remaining > 0
    /\ limit' = Total /\ todo' = Tail(todo)
    /\ IF Head(todo) = "inline" THEN places' = ScriptPlaces /\ phase' = phase
       ELSE places' = places /\ phase' = "fetch"
    /\ UNCHANGED <<inside, clock, countdown, round, ran, ops>>

\* The limit is set before an external script is fetched, and the time of the
\* fetch is not the script's.
NextScript ==
    /\ Ready("scripts") /\ todo # <<>> /\ Remaining > 0
    /\ limit' = Remaining /\ todo' = Tail(todo)
    /\ IF Head(todo) = "inline" THEN places' = ScriptPlaces /\ phase' = phase
       ELSE places' = places /\ phase' = "fetch"
    /\ UNCHANGED <<inside, clock, countdown, round, ran, ops>>

\* "page JS budget spent; stop running scripts": each pass stops there.
Break ==
    /\ Ready("scripts") /\ todo # <<>> /\ Remaining = 0
    /\ todo' = <<>> /\ UNCHANGED <<phase, places, inside, clock, limit, countdown, round, ran, ops>>

\* A refused or failed script is skipped.
Fetched ==
    /\ phase = "fetch" /\ phase' = "scripts"
    /\ clock' \in Later /\ places' \in {<<>>, ScriptPlaces}
    /\ UNCHANGED <<todo, inside, limit, countdown, round, ran, ops>>

\* The load and timer handlers, if there is time left.
FireDeferred ==
    /\ Ready("scripts") /\ todo = <<>>
    /\ phase' = "drain" /\ round' = 0
    /\ IF Remaining > 0 THEN limit' = Remaining /\ places' = <<"fire", "pump">>
       ELSE UNCHANGED <<limit, places>>
    /\ UNCHANGED <<todo, inside, clock, countdown, ran, ops>>

\* child_net_drain: a round while the page has requests pending; after it the
\* load runs the video shim and restores the limit, and any operation flushes
\* the custom elements before it derives the view.
DrainRound ==
    /\ Ready("drain") /\ round < MaxRounds
    /\ round' = round + 1 /\ clock' \in Later
    /\ places' = <<"deliver", "pump">>
    /\ UNCHANGED <<phase, todo, inside, limit, countdown, ran, ops>>

Derive ==
    /\ Ready("drain") /\ phase' = "derive"
    /\ limit' = Default
    /\ places' = IF ops = 0 THEN <<"shim", "flush">> ELSE <<"flush">>
    /\ UNCHANGED <<todo, inside, clock, countdown, round, ran, ops>>

Reply ==
    /\ Ready("derive") /\ phase' = "idle"
    /\ UNCHANGED <<todo, places, inside, clock, limit, countdown, round, ran, ops>>

\* A click or another event, a submit, a tick, or a line of the console.
Operation ==
    /\ phase = "idle" /\ ops < MaxOps
    /\ ops' = ops + 1 /\ clock' = 0 /\ ran' = 0 /\ round' = 0
    /\ \/ places' = <<"listeners">> /\ phase' = "drain"
       \/ places' = <<"listeners">> /\ phase' = "derive"
       \/ places' = <<"tick", "pump">> /\ phase' = "drain"
       \/ places' = <<"eval", "format", "pump">> /\ phase' = "derive"
    /\ UNCHANGED <<todo, inside, limit, countdown>>

\* (only the evaluation of a script is armed)
EnterArmsScripts ==
    /\ inside = "out" /\ places # <<>>
    /\ inside' \in {"ends"} \cup (IF Head(places) \in Loops THEN {"loops"} ELSE {})
    /\ countdown' = IF Head(places) = "eval" THEN limit ELSE NotArmed
    /\ UNCHANGED <<control, clock, ran>>

\* arm_deadline, where the place arms one, and into the page's code.
Enter ==
    /\ inside = "out" /\ places # <<>>
    /\ inside' \in {"ends"} \cup (IF Head(places) \in Loops THEN {"loops"} ELSE {})
    /\ countdown' = IF Head(places) \in ArmedPlaces THEN limit ELSE NotArmed
    /\ UNCHANGED <<control, clock, ran>>

PastDeadline == countdown = 0

\* The page's code runs on.
Work ==
    /\ inside # "out" /\ ~PastDeadline
    /\ clock' = IF clock < MaxClock THEN clock + 1 ELSE clock
    /\ IF countdown = NotArmed THEN UNCHANGED <<countdown, ran>> ELSE countdown' = countdown - 1 /\ ran' = ran + 1
    /\ UNCHANGED <<control, inside>>

\* The jobs of a tick are run when its evaluation succeeded.
Rest(interrupted) ==
    IF interrupted /\ Head(places) = "tick" THEN <<>> ELSE Tail(places)

Returns ==
    /\ inside = "ends" /\ inside' = "out" /\ countdown' = NotArmed
    /\ places' = Rest(FALSE)
    /\ UNCHANGED <<phase, todo, clock, limit, round, ran, ops>>

\* js_interrupt_cb
Interrupt ==
    /\ inside # "out" /\ PastDeadline
    /\ inside' = "out" /\ countdown' = NotArmed
    /\ places' = Rest(TRUE)
    /\ UNCHANGED <<phase, todo, clock, limit, round, ran, ops>>

Worker == NextScript \/ Break \/ Fetched \/ FireDeferred \/ Derive \/ Reply \/ Enter
BudgetNext == Worker \/ DrainRound \/ Operation \/ Work \/ Returns \/ Interrupt

\* The worker's own steps are taken, the parent answers, time passes, code that
\* ends does end and the engine polls the interrupt callback.
BudgetFairness == WF_budgetVars(Worker) /\ WF_budgetVars(Work) /\ WF_budgetVars(Returns) /\ WF_budgetVars(Interrupt)
BudgetSpec == BudgetInit /\ [][BudgetNext]_budgetVars /\ BudgetFairness
-----------------------------------------------------------------------------
(* What a load can cost, whatever the number of its scripts: a script is   *)
(* followed by two drains of jobs and a flush of custom elements, each     *)
(* with a deadline of its own, and so is every round of replies; the       *)
(* page's budget bounds when the last script starts, not when it ends.     *)
LoadBounded == ran <= (4 + MaxRounds) * Total + Default

(* What src/tab.c:1529 and spec/tab.md:258 say: one budget is shared by    *)
(* the scripts of a page and the load handlers.  It is not so: a deadline  *)
(* of all that was left is armed anew for each drain after a script.       *)
BudgetShared == phase \in {"scripts", "fetch"} => ran <= Total

(* Every operation is answered, but one in whose unarmed places the page's *)
(* code never ends: past an armed deadline the interrupt callback ends it. *)
EveryRunEnds ==
    (phase # "idle") ~> (phase = "idle" \/ (inside = "loops" /\ Head(places) \notin ArmedPlaces))

(* What spec/js_sandbox.md:58 says of every run, and is not so of those.   *)
RunsInterrupted == (phase # "idle") ~> (phase = "idle")
=============================================================================
