-------------------------- MODULE Processes_proofs --------------------------
(***************************************************************************)
(* Proofs about what runs beside the window's loop, for every value of the *)
(* constants: the workers' births (WorkerBirth), the time given to a page's *)
(* code (ScriptBudget), the background job of a tab (TabAsync), the video  *)
(* player with its feeder and its decoder (VideoPlayer), the audio sink    *)
(* (AudioSink) and what a WebSocket connection delivers (WsPump).          *)
(***************************************************************************)
EXTENDS Processes, FiniteSetTheorems, SequenceTheorems,
        WellFoundedInduction, TLAPS

(***************************************************************************)
(* WorkerBirth.  No worker that was forked is lost and none is held twice, *)
(* however opening, closing and the end of the program interleave with the *)
(* workers' own deaths.                                                    *)
(***************************************************************************)
PCs == {"idle", "spawn", "adopt spare", "adopt", "reap spare", "reap"}

BirthTypes ==
    /\ proc \in [Pids -> {"none", "started", "confined", "exited", "reaped"}]
    /\ said \in [Pids -> {"nothing", "ready", "no"}]
    /\ piped \subseteq Pids
    /\ spare \in Pids \cup {None}
    /\ th \in [Threads -> [pc : PCs, sp : Pids \cup {None}]]
    /\ tabs \subseteq Pids /\ frames \subseteq Pids
    /\ ending \in BOOLEAN

(* A thread holds a process exactly between getting one and giving it up. *)
Hands == \A t \in Threads : (th[t].sp = None) <=> th[t].pc \in {"idle", "spawn"}

(* A process has a holder from its birth until it is waited for. *)
Alive(p) == proc[p] \notin {"none", "reaped"}
Held == \A p \in Pids :
            Alive(p) <=> (\E t \in Threads : th[t].sp = p) \/ spare = p \/ p \in tabs

(* It never has two. *)
HeldOnce ==
    \A p \in Pids :
        /\ \A t, u \in Threads : th[t].sp = p /\ th[u].sp = p => t = u
        /\ \A t \in Threads : th[t].sp = p => spare # p /\ p \notin tabs
        /\ spare = p => p \notin tabs

BirthInv == BirthTypes /\ Hands /\ Held /\ HeldOnce

-----------------------------------------------------------------------------
(* A process with one holder is counted once, one without is not counted. *)
LEMMA HoldersCounted ==
    ASSUME BirthAssumption, BirthInv
    PROVE  Accounted
<1> SUFFICES ASSUME NEW p \in Pids
             PROVE  Cardinality(Holders(p)) = (IF proc[p] \in {"none", "reaped"} THEN 0 ELSE 1)
  BY DEF Accounted
<1>1. CASE ~Alive(p)
  <2>1. Holders(p) = {}
    BY <1>1 DEF BirthInv, Held, Holders
  <2> QED
    BY <1>1, <2>1, FS_EmptySet DEF Alive
<1>2. CASE Alive(p)
  <2>1. \E x : Holders(p) = {x}
    <3>1. CASE \E t \in Threads : th[t].sp = p
      <4>1. PICK t \in Threads : th[t].sp = p
        BY <3>1
      <4>2. Holders(p) = {t}
        BY <4>1 DEF BirthInv, HeldOnce, Holders
      <4> QED
        BY <4>2
    <3>2. CASE spare = p
      <4>1. Holders(p) = {"spare"}
        BY <3>2 DEF BirthInv, HeldOnce, Holders
      <4> QED
        BY <4>1
    <3>3. CASE p \in tabs
      <4>1. Holders(p) = {"tab"}
        BY <3>3 DEF BirthInv, HeldOnce, Holders
      <4> QED
        BY <4>1
    <3> QED
      BY <1>2, <3>1, <3>2, <3>3 DEF BirthInv, Held
  <2> QED
    BY <1>2, <2>1, FS_Singleton DEF Alive
<1> QED
  BY <1>1, <1>2

LEMMA BirthInitHolds ==
    ASSUME BirthAssumption, BirthInit
    PROVE  BirthInv
<1> QED
  BY DEF BirthAssumption, BirthInit, BirthInv, BirthTypes, PCs, Quiet, Hands, Held, Alive, HeldOnce

(* A process is born into one pair of hands (spawn_worker). *)
LEMMA PrewarmHolds ==
    ASSUME BirthAssumption, BirthInv, NEW p \in Pids, Prewarm(p)
    PROVE  BirthInv'
<1> USE DEF BirthInv
<1>1. BirthTypes'
  BY DEF Prewarm, Spawned, BirthTypes
<1>2. Hands'
  BY DEF Prewarm, Hands
<1>3. \A t \in Threads : th[t].sp # p
  BY DEF Prewarm, Spawned, Held, Alive
<1>4. \A q \in Pids : q # p => proc'[q] = proc[q]
  BY DEF Prewarm, Spawned, BirthTypes
<1>5. proc'[p] = "started" /\ p \notin tabs
  BY DEF Prewarm, Spawned, BirthTypes, Held, Alive
<1>6. Held'
  BY <1>3, <1>4, <1>5 DEF Prewarm, Held, Alive, BirthAssumption
<1>7. HeldOnce'
  BY <1>3, <1>5 DEF Prewarm, HeldOnce
<1> QED
  BY <1>1, <1>2, <1>6, <1>7

LEMMA SpawnHolds ==
    ASSUME BirthAssumption, BirthInv, NEW t \in Threads, NEW p \in Pids, Spawn(t, p)
    PROVE  BirthInv'
<1> USE DEF BirthInv
<1>1. BirthTypes'
  BY DEF Spawn, Spawned, Go, BirthTypes, PCs
<1>2. th'[t] = [pc |-> "adopt", sp |-> p] /\ \A u \in Threads : u # t => th'[u] = th[u]
  BY DEF Spawn, Go, BirthTypes
<1>3. th[t].sp = None /\ \A u \in Threads : th[u].sp # p
  BY DEF Spawn, Spawned, At, Hands, Held, Alive
<1>4. proc'[p] = "started" /\ p \notin tabs /\ spare # p
  BY DEF Spawn, Spawned, BirthTypes, Held, Alive
<1>5. \A q \in Pids : q # p => proc'[q] = proc[q]
  BY DEF Spawn, Spawned, BirthTypes
<1>6. Hands'
  BY <1>2 DEF Hands, BirthAssumption
<1>7. Held'
  BY <1>2, <1>3, <1>4, <1>5 DEF Spawn, Held, Alive, BirthAssumption
<1>8. HeldOnce'
  BY <1>2, <1>3, <1>4 DEF Spawn, HeldOnce
<1> QED
  BY <1>1, <1>6, <1>7, <1>8

(* The worker's own steps change no holder: it is alive before and after. *)
LEMMA ChildHolds ==
    ASSUME BirthAssumption, BirthInv, NEW p \in Pids, Child(p) \/ Dies(p)
    PROVE  BirthInv'
<1> USE DEF BirthInv
<1>1. BirthTypes'
  BY DEF Child, Confine, ExecFails, NotConfined, Quits, Dies, BirthTypes
<1>2. UNCHANGED <<spare, th, tabs>>
  BY DEF Child, Confine, ExecFails, NotConfined, Quits, Dies
<1>3. \A q \in Pids : Alive(q)' <=> Alive(q)
  BY DEF Child, Confine, ExecFails, NotConfined, Quits, Dies, BirthTypes, Alive
<1>4. Hands' /\ HeldOnce'
  BY <1>2 DEF Hands, HeldOnce
<1>5. Held'
  BY <1>2, <1>3 DEF Held
<1> QED
  BY <1>1, <1>4, <1>5

(* tab_open moves the spare into the thread's hands, or none. *)
LEMMA OpenHolds ==
    ASSUME BirthAssumption, BirthInv, NEW t \in Threads, Open(t)
    PROVE  BirthInv'
<1> USE DEF BirthInv
<1> DEFINE step == IF spare = None THEN [pc |-> "spawn", sp |-> None]
                   ELSE [pc |-> "adopt spare", sp |-> spare]
<1>0. /\ th' = [th EXCEPT ![t] = step] /\ spare' = None
      /\ UNCHANGED <<proc, said, piped, tabs, frames, ending>> /\ th[t].pc = "idle"
  <2>1. CASE spare = None
    BY <2>1 DEF Open, Go, At
  <2>2. CASE spare # None
    BY <2>2 DEF Open, Taken, Go, At
  <2> QED
    BY <2>1, <2>2
<1>a. step \in [pc : PCs, sp : Pids \cup {None}] /\ step.sp = spare
      /\ step.pc = IF spare = None THEN "spawn" ELSE "adopt spare"
  BY DEF BirthTypes, PCs
<1> HIDE DEF step
<1>1. BirthTypes'
  BY <1>0, <1>a DEF BirthTypes
<1>2. /\ th'[t].sp = spare /\ th[t].sp = None /\ spare' = None
      /\ th'[t].pc = IF spare = None THEN "spawn" ELSE "adopt spare"
      /\ \A u \in Threads : u # t => th'[u] = th[u]
      /\ UNCHANGED <<proc, tabs>>
  BY <1>0, <1>a DEF BirthTypes, Hands
<1>3. Hands'
  BY <1>2 DEF Hands
<1>4. Held'
  <2> SUFFICES ASSUME NEW p \in Pids
               PROVE  Alive(p)' <=> (\E u \in Threads : th'[u].sp = p) \/ spare' = p \/ p \in tabs'
    BY DEF Held
  <2>1. p # None
    BY DEF BirthAssumption
  <2>2. (\E u \in Threads : th'[u].sp = p) <=> (\E u \in Threads : th[u].sp = p) \/ spare = p
    BY <1>2, <2>1
  <2> QED
    BY <1>2, <2>1, <2>2 DEF Held, Alive
<1>5. HeldOnce'
  <2> SUFFICES ASSUME NEW p \in Pids
               PROVE  /\ \A u, v \in Threads : th'[u].sp = p /\ th'[v].sp = p => u = v
                      /\ \A u \in Threads : th'[u].sp = p => spare' # p /\ p \notin tabs'
                      /\ spare' = p => p \notin tabs'
    BY DEF HeldOnce
  <2>1. p # None
    BY DEF BirthAssumption
  <2>2. \A u \in Threads : th'[u].sp = p => \/ u # t /\ th[u].sp = p /\ spare # p
                                            \/ u = t /\ spare = p
    <3> SUFFICES ASSUME NEW u \in Threads, th'[u].sp = p
                 PROVE  \/ u # t /\ th[u].sp = p /\ spare # p
                        \/ u = t /\ spare = p
      OBVIOUS
    <3>1. CASE u = t
      BY <1>2, <3>1
    <3>2. CASE u # t
      <4>1. th[u].sp = p
        BY <1>2, <3>2
      <4> QED
        BY <4>1, <3>2 DEF HeldOnce
    <3> QED
      BY <3>1, <3>2
  <2> QED
    BY <1>2, <2>1, <2>2 DEF HeldOnce
<1> QED
  BY <1>1, <1>3, <1>4, <1>5

LEMMA RunHolds ==
    ASSUME BirthAssumption, BirthInv, NEW t \in Threads, Run(t)
    PROVE  BirthInv'
<1> USE DEF BirthInv
<1>1. CASE \E p \in Pids : Spawn(t, p)
  BY <1>1, SpawnHolds
<1>2. CASE SpawnFails(t)
  <2>1. BirthTypes'
    BY <1>2 DEF SpawnFails, Go, BirthTypes, PCs
  <2>2. /\ th[t].sp = None /\ th'[t] = [pc |-> "idle", sp |-> None]
        /\ \A u \in Threads : u # t => th'[u] = th[u]
        /\ UNCHANGED <<proc, spare, tabs>>
    BY <1>2 DEF SpawnFails, Go, At, BirthTypes, Hands
  <2>3. \A u \in Threads : th'[u].sp = th[u].sp
    BY <2>2
  <2>4. Hands'
    BY <2>2 DEF Hands
  <2>5. Held' /\ HeldOnce'
    BY <2>2, <2>3 DEF Held, HeldOnce, Alive
  <2> QED
    BY <2>1, <2>4, <2>5
<1>3. CASE Adopt(t)
  <2> DEFINE p == th[t].sp
  <2>1. p \in Pids /\ p # None
    BY <1>3 DEF Adopt, At, Hands, BirthTypes, BirthAssumption
  <2>2. BirthTypes'
    BY <1>3, <2>1 DEF Adopt, Go, BirthTypes, PCs
  <2>3. /\ th'[t] = [pc |-> "idle", sp |-> None] /\ tabs' = tabs \cup {p}
        /\ \A u \in Threads : u # t => th'[u] = th[u]
        /\ UNCHANGED <<proc, spare>>
    BY <1>3 DEF Adopt, Go, BirthTypes
  <2>4. Hands'
    BY <2>3 DEF Hands
  <2>5. Held'
    BY <2>1, <2>3 DEF Held, Alive, BirthAssumption
  <2>6. HeldOnce'
    BY <2>1, <2>3 DEF HeldOnce, BirthAssumption
  <2> QED
    BY <2>2, <2>4, <2>5, <2>6
<1>4. CASE Refuse(t)
  <2> DEFINE p == th[t].sp
  <2>1. BirthTypes'
    BY <1>4 DEF Refuse, Go, At, BirthTypes, PCs
  <2>2. /\ th'[t].sp = p /\ p # None /\ th'[t].pc \in {"reap spare", "reap"}
        /\ \A u \in Threads : u # t => th'[u] = th[u]
        /\ UNCHANGED <<proc, spare, tabs>>
    BY <1>4 DEF Refuse, Go, At, BirthTypes, Hands
  <2>3. Hands'
    BY <2>2 DEF Hands
  <2>4. \A u \in Threads : th'[u].sp = th[u].sp
    BY <2>2
  <2>5. UNCHANGED <<proc, spare, tabs>>
    BY <2>2
  <2> HIDE DEF p
  <2>6. Held'
    BY <2>4, <2>5 DEF Held, Alive
  <2>7. HeldOnce'
    BY <2>4, <2>5 DEF HeldOnce
  <2> QED
    BY <2>1, <2>3, <2>6, <2>7
<1>5. CASE Reap(t)
  <2> DEFINE p == th[t].sp
  <2>1. p \in Pids /\ p # None
    BY <1>5 DEF Reap, At, Hands, BirthTypes, BirthAssumption
  <2>2. BirthTypes'
    BY <1>5, <2>1 DEF Reap, Go, BirthTypes, PCs
  <2>3. /\ th'[t].sp = None /\ th'[t].pc \in {"spawn", "idle"}
        /\ \A u \in Threads : u # t => th'[u] = th[u]
        /\ proc'[p] = "reaped" /\ \A q \in Pids : q # p => proc'[q] = proc[q]
        /\ UNCHANGED <<spare, tabs>>
    BY <1>5, <2>1 DEF Reap, Go, BirthTypes
  <2>4. Hands'
    BY <2>3 DEF Hands
  <2>5. Held'
    <3> SUFFICES ASSUME NEW q \in Pids
                 PROVE  Alive(q)' <=> (\E u \in Threads : th'[u].sp = q) \/ spare' = q \/ q \in tabs'
      BY DEF Held
    <3>1. CASE q = p
      BY <2>1, <2>3, <3>1 DEF Alive, HeldOnce
    <3>2. CASE q # p
      BY <2>3, <3>2 DEF Alive, Held, BirthAssumption
    <3> QED
      BY <3>1, <3>2
  <2>6. HeldOnce'
    BY <2>3 DEF HeldOnce, BirthAssumption
  <2> QED
    BY <2>2, <2>4, <2>5, <2>6
<1> QED
  BY <1>1, <1>2, <1>3, <1>4, <1>5 DEF Run

(* A process that is killed was held by what lets it go. *)
LEMMA CloseHolds ==
    ASSUME BirthAssumption, BirthInv, NEW t \in Threads, NEW p \in Pids, Close(t, p)
    PROVE  BirthInv'
<1> USE DEF BirthInv
<1>1. BirthTypes'
  BY DEF Close, Killed, BirthTypes
<1>2. /\ p \in tabs /\ tabs' = tabs \ {p} /\ UNCHANGED <<spare, th>>
      /\ proc'[p] = "reaped" /\ \A q \in Pids : q # p => proc'[q] = proc[q]
  BY DEF Close, Killed, BirthTypes
<1>3. Hands' /\ HeldOnce'
  BY <1>2 DEF Hands, HeldOnce
<1>4. Held'
  BY <1>2 DEF Held, HeldOnce, Alive
<1> QED
  BY <1>1, <1>3, <1>4

LEMMA ShutdownHolds ==
    ASSUME BirthAssumption, BirthInv, ShutdownSpare
    PROVE  BirthInv'
<1> USE DEF BirthInv
<1>1. spare \in Pids
  BY DEF ShutdownSpare, BirthTypes
<1>2. BirthTypes'
  BY DEF ShutdownSpare, Shutdown, Killed, BirthTypes
<1>3. /\ spare' = None /\ UNCHANGED <<th, tabs>>
      /\ proc'[spare] = "reaped" /\ \A q \in Pids : q # spare => proc'[q] = proc[q]
  BY <1>1 DEF ShutdownSpare, Shutdown, Killed, BirthTypes
<1>4. Hands' /\ HeldOnce'
  BY <1>3 DEF Hands, HeldOnce, BirthAssumption
<1>5. Held'
  BY <1>1, <1>3 DEF Held, HeldOnce, Alive, BirthAssumption
<1> QED
  BY <1>2, <1>4, <1>5

LEMMA BirthNextHolds ==
    ASSUME BirthAssumption, BirthInv, [BirthNext]_birthVars
    PROVE  BirthInv'
<1>1. ASSUME NEW p \in Pids, Prewarm(p) \/ Child(p) \/ Dies(p)
      PROVE  BirthInv'
  BY <1>1, PrewarmHolds, ChildHolds
<1>2. ASSUME NEW t \in Threads, Open(t) \/ Run(t) \/ \E p \in Pids : Close(t, p)
      PROVE  BirthInv'
  BY <1>2, OpenHolds, RunHolds, CloseHolds
<1>3. CASE End
  BY <1>3 DEF End, BirthInv, BirthTypes, Hands, Held, HeldOnce, Alive
<1>4. CASE ShutdownSpare
  BY <1>4, ShutdownHolds
<1>5. CASE UNCHANGED birthVars
  BY <1>5 DEF birthVars, BirthInv, BirthTypes, Hands, Held, HeldOnce, Alive
<1>6. CASE Exit
  BY <1>6 DEF Exit, BirthInv, BirthTypes, Hands, Held, HeldOnce, Alive
<1> QED
  BY <1>1, <1>2, <1>3, <1>4, <1>5, <1>6 DEF BirthNext

-----------------------------------------------------------------------------
(* Every worker that spawn_worker forked is the spare, one tab's or in the  *)
(* hands of one thread until it is waited for, and never two of these.     *)
THEOREM WorkersAccounted ==
    ASSUME BirthAssumption
    PROVE  BirthSpec => []Accounted
<1>1. BirthInit => BirthInv
  BY BirthInitHolds
<1>2. BirthInv /\ [BirthNext]_birthVars => BirthInv'
  BY BirthNextHolds
<1>3. BirthInv => Accounted
  BY HoldersCounted
<1> QED
  BY <1>1, <1>2, <1>3, PTL DEF BirthSpec

(***************************************************************************)
(* ScriptBudget.  The page's code that a deadline covers runs for a bounded *)
(* time in a load.                                                         *)
(*                                                                         *)
(* The argument is an account.  What has run, what the armed deadline      *)
(* still allows and one limit for each armed place ahead never exceed the  *)
(* allowance of the phase, and every step either leaves the sum alone or   *)
(* is paid for by the allowance of the next phase or round.                *)
(***************************************************************************)
(* What a step may still have to run. *)
PlaceLists ==
    {<<>>, <<"pump">>, <<"flush", "pump">>, <<"pump", "flush", "pump">>,
     <<"format", "pump", "flush", "pump">>, ScriptPlaces,
     <<"fire", "pump">>, <<"deliver", "pump">>, <<"flush">>, <<"shim", "flush">>, <<"listeners">>,
     <<"tick", "pump">>, <<"eval", "format", "pump">>, <<"format", "pump">>}

(* The armed places in a list. *)
ArmedIn(s) ==
    CASE s \in {<<>>, <<"listeners">>} -> 0
      [] s \in {<<"pump">>, <<"flush">>, <<"shim", "flush">>, <<"deliver", "pump">>,
                <<"format", "pump">>} -> 1
      [] s \in {<<"flush", "pump">>, <<"fire", "pump">>, <<"tick", "pump">>,
                <<"eval", "format", "pump">>} -> 2
      [] s \in {<<"pump", "flush", "pump">>, <<"format", "pump", "flush", "pump">>} -> 3
      [] OTHER -> 4

(* What the places ahead may take. *)
Ahead ==
    IF phase = "fetch" THEN 4 * limit
    ELSE IF inside = "out" THEN limit * ArmedIn(places)
    ELSE (IF countdown = NotArmed THEN 0 ELSE countdown) + limit * ArmedIn(Tail(places))

Allowance ==
    CASE phase \in {"scripts", "fetch"} -> 4 * Total
      [] phase = "drain" -> (4 + round) * Total
      [] OTHER -> (4 + MaxRounds) * Total + Default

BudgetState ==
    /\ phase \in {"scripts", "fetch", "drain", "derive", "idle"}
    /\ places \in PlaceLists
    /\ inside \in {"out", "ends", "loops"} /\ (inside # "out" => places # <<>>)
    /\ phase \in {"fetch", "idle"} => places = <<>>
    /\ clock \in Nat /\ limit \in 0 .. Total
    /\ countdown \in Nat \cup {NotArmed} /\ (inside = "out" => countdown = NotArmed)
    /\ round \in 0 .. MaxRounds /\ ran \in Nat

(* The clock has seen what has run, until the budget is spent. *)
ClockCounts == clock < Total => ran <= clock

Account == ran + Ahead <= Allowance

BudgetInv == BudgetState /\ ClockCounts /\ Account

-----------------------------------------------------------------------------
(* The table of ArmedIn, and the lists that a list leaves. *)
LEMMA ArmedOf ==
    /\ ArmedIn(<<>>) = 0 /\ ArmedIn(<<"listeners">>) = 0
    /\ ArmedIn(<<"pump">>) = 1 /\ ArmedIn(<<"flush">>) = 1 /\ ArmedIn(<<"shim", "flush">>) = 1
    /\ ArmedIn(<<"deliver", "pump">>) = 1 /\ ArmedIn(<<"format", "pump">>) = 1
    /\ ArmedIn(<<"flush", "pump">>) = 2 /\ ArmedIn(<<"fire", "pump">>) = 2
    /\ ArmedIn(<<"tick", "pump">>) = 2 /\ ArmedIn(<<"eval", "format", "pump">>) = 2
    /\ ArmedIn(<<"pump", "flush", "pump">>) = 3
    /\ ArmedIn(<<"format", "pump", "flush", "pump">>) = 3
    /\ ArmedIn(ScriptPlaces) = 4
  BY DEF ArmedIn, ScriptPlaces

LEMMA TailOf ==
    /\ Tail(<<"listeners">>) = <<>> /\ Tail(<<"pump">>) = <<>> /\ Tail(<<"flush">>) = <<>>
    /\ Tail(<<"shim", "flush">>) = <<"flush">>
    /\ Tail(<<"deliver", "pump">>) = <<"pump">> /\ Tail(<<"format", "pump">>) = <<"pump">>
    /\ Tail(<<"flush", "pump">>) = <<"pump">> /\ Tail(<<"fire", "pump">>) = <<"pump">>
    /\ Tail(<<"tick", "pump">>) = <<"pump">>
    /\ Tail(<<"eval", "format", "pump">>) = <<"format", "pump">>
    /\ Tail(<<"pump", "flush", "pump">>) = <<"flush", "pump">>
    /\ Tail(<<"format", "pump", "flush", "pump">>) = <<"pump", "flush", "pump">>
    /\ Tail(ScriptPlaces) = <<"format", "pump", "flush", "pump">>
  BY DEF ScriptPlaces

(* Taking a place off a list takes its share off what lies ahead. *)
LEMMA TailOfList ==
    ASSUME NEW s \in PlaceLists, s # <<>>
    PROVE  /\ Tail(s) \in PlaceLists
           /\ ArmedIn(Tail(s)) \in 0 .. 3
           /\ ArmedIn(s) = ArmedIn(Tail(s)) + (IF Head(s) \in ArmedPlaces THEN 1 ELSE 0)
<1>1. Tail(s) \in PlaceLists
  BY TailOf DEF PlaceLists
<1> DEFINE n == ArmedIn(s)
           m == ArmedIn(Tail(s))
<1>2. CASE s \in {<<"listeners">>, <<"deliver", "pump">>, <<"format", "pump">>, <<"shim", "flush">>,
                  <<"format", "pump", "flush", "pump">>}
  <2>1. Head(s) \notin ArmedPlaces
    BY <1>2 DEF ArmedPlaces
  <2>2. <<n, m>> \in {<<0, 0>>, <<1, 1>>, <<3, 3>>}
    <3>1. CASE s = <<"listeners">>
      BY <3>1, ArmedOf, TailOf
    <3>2. CASE s = <<"deliver", "pump">>
      BY <3>2, ArmedOf, TailOf
    <3>3. CASE s = <<"format", "pump">>
      BY <3>3, ArmedOf, TailOf
    <3>4. CASE s = <<"format", "pump", "flush", "pump">>
      BY <3>4, ArmedOf, TailOf
    <3>5. CASE s = <<"shim", "flush">>
      BY <3>5, ArmedOf, TailOf
    <3> QED
      BY <1>2, <3>1, <3>2, <3>3, <3>4, <3>5
  <2> QED
    BY <1>1, <2>1, <2>2
<1>3. CASE s \in {<<"pump">>, <<"flush">>, <<"flush", "pump">>, <<"fire", "pump">>,
                  <<"tick", "pump">>, <<"eval", "format", "pump">>,
                  <<"pump", "flush", "pump">>, ScriptPlaces}
  <2>1. Head(s) \in ArmedPlaces
    BY <1>3 DEF ArmedPlaces, ScriptPlaces
  <2>2. <<n, m>> \in {<<1, 0>>, <<2, 1>>, <<3, 2>>, <<4, 3>>}
    <3>1. CASE s = <<"pump">>
      BY <3>1, ArmedOf, TailOf
    <3>2. CASE s = <<"flush">>
      BY <3>2, ArmedOf, TailOf
    <3>3. CASE s = <<"flush", "pump">>
      BY <3>3, ArmedOf, TailOf
    <3>4. CASE s = <<"fire", "pump">>
      BY <3>4, ArmedOf, TailOf
    <3>5. CASE s = <<"tick", "pump">>
      BY <3>5, ArmedOf, TailOf
    <3>6. CASE s = <<"eval", "format", "pump">>
      BY <3>6, ArmedOf, TailOf
    <3>7. CASE s = <<"pump", "flush", "pump">>
      BY <3>7, ArmedOf, TailOf
    <3>8. CASE s = ScriptPlaces
      BY <3>8, ArmedOf, TailOf
    <3> QED
      BY <1>3, <3>1, <3>2, <3>3, <3>4, <3>5, <3>6, <3>7, <3>8
  <2> QED
    BY <1>1, <2>1, <2>2
<1> QED
  BY <1>2, <1>3 DEF PlaceLists

(* A limit for each armed place of a list of at most four. *)
LEMMA Shares ==
    ASSUME NEW l \in Nat
    PROVE  l * 0 = 0 /\ l * 1 = l /\ l * 2 = l + l /\ l * 3 = l + l + l
           /\ l * 4 = l + l + l + l /\ 4 * l = l + l + l + l
  OBVIOUS

(* The allowance grows with the phases and with the rounds. *)
LEMMA Allowances ==
    ASSUME BudgetAssumption, NEW r \in 0 .. MaxRounds
    PROVE  /\ 4 * Total <= (4 + r) * Total
           /\ (4 + r) * Total <= (4 + MaxRounds) * Total
           /\ r < MaxRounds => (4 + (r + 1)) * Total = (4 + r) * Total + Total
           /\ {(4 + r) * Total, (4 + MaxRounds) * Total} \subseteq Nat
<1>1. Total \in Nat /\ MaxRounds \in Nat /\ r \in Nat /\ r <= MaxRounds
  BY DEF BudgetAssumption
<1>2. (4 + r) * Total = 4 * Total + r * Total
  BY <1>1
<1>3. (4 + MaxRounds) * Total = (4 + r) * Total + (MaxRounds - r) * Total
  BY <1>1
<1>4. r * Total \in Nat /\ (MaxRounds - r) * Total \in Nat
  BY <1>1
<1>5. (4 + (r + 1)) * Total = (4 + r) * Total + Total
  BY <1>1
<1> QED
  BY <1>1, <1>2, <1>3, <1>4, <1>5

LEMMA LessAhead ==
    ASSUME NEW r \in Nat, NEW a \in Nat, NEW b \in Nat, NEW c \in Nat, b <= a, r + a <= c
    PROVE  r + b <= c
  OBVIOUS

LEMMA AheadTyped ==
    ASSUME BudgetAssumption, BudgetState
    PROVE  Ahead \in Nat /\ limit \in Nat /\ ArmedIn(places) \in 0 .. 4
<1>1. limit \in Nat
  BY DEF BudgetAssumption, BudgetState
<1>2. ArmedIn(places) \in 0 .. 4
  <2>1. CASE places = <<>>
    BY <2>1, ArmedOf
  <2>2. CASE places # <<>>
    <3>1. /\ ArmedIn(Tail(places)) \in 0 .. 3
          /\ ArmedIn(places) = ArmedIn(Tail(places)) + (IF Head(places) \in ArmedPlaces THEN 1 ELSE 0)
      BY <2>2, TailOfList DEF BudgetState
    <3> QED
      BY <3>1
  <2> QED
    BY <2>1, <2>2
<1>3. places # <<>> => ArmedIn(Tail(places)) \in 0 .. 3
  BY TailOfList DEF BudgetState
<1> QED
  BY <1>1, <1>2, <1>3 DEF Ahead, BudgetState, NotArmed

-----------------------------------------------------------------------------
LEMMA BudgetInitHolds ==
    ASSUME BudgetAssumption, BudgetInit
    PROVE  BudgetInv
<1>1. BudgetState
  BY DEF BudgetAssumption, BudgetInit, BudgetState, PlaceLists
<1>2. Ahead = 0
  BY ArmedOf, Shares, <1>1, AheadTyped DEF BudgetInit, Ahead
<1> QED
  BY <1>1, <1>2 DEF BudgetAssumption, BudgetInit, BudgetInv, ClockCounts, Account, Allowance

(* A script is given what is left of the budget, four times over. *)
LEMMA NextScriptHolds ==
    ASSUME BudgetAssumption, BudgetInv, NextScript
    PROVE  BudgetInv'
<1>0. Total \in Nat /\ clock \in Nat /\ ran \in Nat /\ Total - clock \in 1 .. Total
      /\ limit' = Total - clock /\ ran <= clock
  BY DEF BudgetAssumption, BudgetInv, BudgetState, ClockCounts, NextScript, Remaining
<1>1. BudgetState'
  BY <1>0 DEF BudgetAssumption, BudgetInv, BudgetState, NextScript, Ready, PlaceLists
<1>2. ClockCounts'
  BY DEF BudgetInv, ClockCounts, NextScript
<1>3. inside' = "out" /\ phase' \in {"scripts", "fetch"} /\ (phase' = "scripts" => places' = ScriptPlaces)
  BY DEF BudgetInv, BudgetState, NextScript, Ready
<1>4. Ahead' = 4 * (Total - clock)
  BY <1>0, <1>3, ArmedOf, Shares DEF Ahead
<1>5. Account'
  BY <1>0, <1>3, <1>4 DEF Account, Allowance, NextScript
<1> QED
  BY <1>1, <1>2, <1>5 DEF BudgetInv

LEMMA FetchedHolds ==
    ASSUME BudgetAssumption, BudgetInv, Fetched
    PROVE  BudgetInv'
<1>0. inside = "out" /\ limit \in Nat /\ ran \in Nat /\ clock \in Nat /\ clock' \in Nat /\ clock <= clock'
  BY DEF BudgetAssumption, BudgetInv, BudgetState, Fetched, Later
<1>1. BudgetState'
  BY <1>0 DEF BudgetAssumption, BudgetInv, BudgetState, Fetched, PlaceLists
<1>2. ClockCounts'
  BY <1>0 DEF BudgetAssumption, BudgetInv, ClockCounts, Fetched
<1>3. Ahead = 4 * limit
  BY DEF Fetched, Ahead
<1>4. Ahead' \in {0, 4 * limit}
  BY <1>0, ArmedOf, Shares DEF Ahead, Fetched
<1>5. Account'
  BY <1>0, <1>3, <1>4 DEF BudgetAssumption, BudgetInv, Account, Allowance, Fetched
<1> QED
  BY <1>1, <1>2, <1>5 DEF BudgetInv

LEMMA FireDeferredHolds ==
    ASSUME BudgetAssumption, BudgetInv, FireDeferred
    PROVE  BudgetInv'
<1>0. /\ Total \in Nat /\ clock \in Nat /\ ran \in Nat /\ inside = "out" /\ places = <<>>
      /\ phase = "scripts" /\ inside' = "out" /\ phase' = "drain" /\ round' = 0 /\ ran' = ran
      /\ limit \in 0 .. Total
  BY DEF BudgetAssumption, BudgetInv, BudgetState, FireDeferred, Ready
<1>1. BudgetState'
  BY <1>0 DEF BudgetAssumption, BudgetInv, BudgetState, FireDeferred, Ready, PlaceLists, Remaining
<1>2. ClockCounts'
  BY DEF BudgetInv, ClockCounts, FireDeferred
<1>3. Allowance' = (4 + 0) * Total
  BY <1>0 DEF Allowance
<1>4. CASE Remaining > 0
  <2>1. Total - clock \in 1 .. Total /\ ran <= clock
        /\ limit' = Total - clock /\ places' = <<"fire", "pump">>
    BY <1>0, <1>4 DEF BudgetInv, ClockCounts, FireDeferred, Remaining
  <2>2. Ahead' = (Total - clock) + (Total - clock)
    BY <1>0, <2>1, ArmedOf, Shares DEF Ahead
  <2> QED
    BY <1>0, <1>1, <1>2, <1>3, <2>1, <2>2 DEF BudgetInv, Account
<1>5. CASE ~(Remaining > 0)
  <2>1. Ahead = 0 /\ Ahead' = 0
    BY <1>0, <1>5, ArmedOf, Shares DEF Ahead, FireDeferred
  <2> QED
    BY <1>0, <1>1, <1>2, <1>3, <2>1 DEF BudgetInv, Account, Allowance
<1> QED
  BY <1>4, <1>5

(* A round of replies is paid for by the allowance of the round. *)
LEMMA DrainRoundHolds ==
    ASSUME BudgetAssumption, BudgetInv, DrainRound
    PROVE  BudgetInv'
<1>0. /\ Total \in Nat /\ clock \in Nat /\ clock' \in Nat /\ clock <= clock' /\ ran \in Nat
      /\ inside = "out" /\ places = <<>> /\ phase = "drain" /\ inside' = "out" /\ phase' = "drain"
      /\ ran' = ran /\ limit \in 0 .. Total /\ limit' = limit /\ round \in 0 .. MaxRounds
      /\ round < MaxRounds /\ round' = round + 1 /\ places' = <<"deliver", "pump">>
  BY DEF BudgetAssumption, BudgetInv, BudgetState, DrainRound, Ready, Later
<1>1. BudgetState'
  BY <1>0 DEF BudgetAssumption, BudgetInv, BudgetState, DrainRound, PlaceLists
<1>2. ClockCounts'
  BY <1>0 DEF BudgetInv, ClockCounts
<1>3. Ahead = 0 /\ Ahead' = limit
  BY <1>0, ArmedOf, Shares DEF Ahead
<1>4. Allowance = (4 + round) * Total /\ Allowance' = (4 + (round + 1)) * Total
  BY <1>0 DEF Allowance
<1>5. Allowance' = Allowance + Total /\ Allowance \in Nat
  BY <1>0, <1>4, Allowances
<1> QED
  BY <1>0, <1>1, <1>2, <1>3, <1>5 DEF BudgetInv, Account

LEMMA DeriveHolds ==
    ASSUME BudgetAssumption, BudgetInv, Derive
    PROVE  BudgetInv'
<1>0. /\ Default \in Nat /\ ran \in Nat /\ inside = "out" /\ places = <<>> /\ phase = "drain"
      /\ inside' = "out" /\ phase' = "derive" /\ ran' = ran /\ limit \in Nat
      /\ limit' = Default /\ round \in 0 .. MaxRounds
      /\ places' \in {<<"flush">>, <<"shim", "flush">>}
  BY DEF BudgetAssumption, BudgetInv, BudgetState, Derive, Ready
<1>1. BudgetState'
  BY <1>0 DEF BudgetAssumption, BudgetInv, BudgetState, Derive, PlaceLists
<1>2. ClockCounts'
  BY DEF BudgetInv, ClockCounts, Derive
<1>3. Ahead = 0 /\ Ahead' = Default
  BY <1>0, ArmedOf, Shares DEF Ahead
<1>4. Allowance = (4 + round) * Total /\ Allowance' = (4 + MaxRounds) * Total + Default
  BY <1>0 DEF Allowance
<1> QED
  BY <1>0, <1>1, <1>2, <1>3, <1>4, Allowances DEF BudgetInv, Account

LEMMA OperationHolds ==
    ASSUME BudgetAssumption, BudgetInv, Operation
    PROVE  BudgetInv'
<1>0. /\ Total \in Nat /\ Default \in Nat /\ MaxRounds \in Nat /\ inside = "out" /\ inside' = "out"
      /\ phase' \in {"drain", "derive"} /\ limit \in 0 .. Total /\ limit' = limit
      /\ round' = 0 /\ ran' = 0 /\ clock' = 0
      /\ places' \in {<<"listeners">>, <<"tick", "pump">>, <<"eval", "format", "pump">>}
  BY DEF BudgetAssumption, BudgetInv, BudgetState, Operation
<1>1. BudgetState'
  BY <1>0 DEF BudgetAssumption, BudgetInv, BudgetState, Operation, PlaceLists
<1>2. ClockCounts'
  BY <1>0 DEF ClockCounts
<1>3. Ahead' \in {0, limit + limit}
  BY <1>0, ArmedOf, Shares DEF Ahead
<1>4. Allowance' \in {4 * Total, (4 + MaxRounds) * Total + Default}
  BY <1>0 DEF Allowance
<1>5. 4 * Total <= (4 + MaxRounds) * Total /\ (4 + MaxRounds) * Total \in Nat
  BY <1>0, Allowances
<1>6. Account'
  <2>1. Ahead' \in Nat /\ Ahead' <= 4 * Total
    BY <1>0, <1>3
  <2>2. Allowance' \in Nat /\ 4 * Total <= Allowance'
    BY <1>0, <1>4, <1>5
  <2>3. ran' = 0
    BY <1>0
  <2>4. 4 * Total \in Nat /\ 0 + 4 * Total <= Allowance'
    BY <1>0, <2>2
  <2>5. ran' + Ahead' <= Allowance'
    BY <2>1, <2>2, <2>3, <2>4, LessAhead
  <2> QED
    BY <2>5 DEF Account
<1> QED
  BY <1>1, <1>2, <1>6 DEF BudgetInv

(* Entering an armed place turns its share into the time to its deadline. *)
LEMMA EnterHolds ==
    ASSUME BudgetAssumption, BudgetInv, Enter
    PROVE  BudgetInv'
<1>0. /\ limit \in 0 .. Total /\ Total \in Nat /\ inside = "out" /\ places # <<>> /\ inside' \in {"ends", "loops"}
      /\ phase \notin {"fetch", "idle"} /\ places \in PlaceLists
      /\ UNCHANGED <<phase, places, limit, round, clock, ran>>
      /\ countdown' = IF Head(places) \in ArmedPlaces THEN limit ELSE NotArmed
  BY DEF BudgetAssumption, BudgetInv, BudgetState, Enter, control
<1>1. BudgetState'
  BY <1>0 DEF BudgetInv, BudgetState
<1>2. ClockCounts'
  BY <1>0 DEF BudgetInv, ClockCounts
<1>3. Ahead' = Ahead
  <2> DEFINE n == ArmedIn(places)
             m == ArmedIn(Tail(places))
  <2>1. n = m + (IF Head(places) \in ArmedPlaces THEN 1 ELSE 0) /\ m \in 0 .. 3
    BY <1>0, TailOfList
  <2>2. Ahead = limit * n
    BY <1>0 DEF Ahead
  <2>3. Ahead' = (IF Head(places) \in ArmedPlaces THEN limit ELSE 0) + limit * m
    BY <1>0 DEF Ahead, NotArmed
  <2>4. limit \in Nat
    BY <1>0
  <2> HIDE DEF n, m
  <2> QED
    BY <2>1, <2>2, <2>3, <2>4
<1>4. Account'
  BY <1>0, <1>3 DEF BudgetInv, Account, Allowance
<1> QED
  BY <1>1, <1>2, <1>4 DEF BudgetInv

(* Time that passes in an armed place is taken off its deadline. *)
LEMMA WorkHolds ==
    ASSUME BudgetAssumption, BudgetInv, Work
    PROVE  BudgetInv'
<1>0. /\ Total \in Nat /\ MaxClock \in Nat /\ MaxClock > Total /\ limit \in Nat
      /\ inside # "out" /\ places # <<>> /\ phase # "fetch" /\ places \in PlaceLists
      /\ clock \in Nat /\ ran \in Nat /\ countdown \in Nat \cup {-1} /\ countdown # 0
      /\ UNCHANGED <<phase, places, limit, round, inside>>
      /\ clock' = IF clock < MaxClock THEN clock + 1 ELSE clock
      /\ \/ countdown = -1 /\ countdown' = countdown /\ ran' = ran
         \/ countdown # -1 /\ countdown' = countdown - 1 /\ ran' = ran + 1
  BY DEF BudgetAssumption, BudgetInv, BudgetState, Work, control, PastDeadline, NotArmed
<1>1. BudgetState'
  BY <1>0 DEF BudgetInv, BudgetState, NotArmed
<1>2. ClockCounts'
  BY <1>0 DEF BudgetInv, ClockCounts
<1>3. ArmedIn(Tail(places)) \in 0 .. 3
  BY <1>0, TailOfList
<1>4. limit * ArmedIn(Tail(places)) \in Nat
  BY <1>0, <1>3
<1>5. ran' + Ahead' = ran + Ahead
  BY <1>0, <1>4 DEF Ahead, NotArmed
<1>6. Account'
  BY <1>0, <1>5 DEF BudgetInv, Account, Allowance
<1> QED
  BY <1>1, <1>2, <1>6 DEF BudgetInv

(* Leaving a place gives its time back, and an interrupted tick its jobs'. *)
LEMMA LeaveHolds ==
    ASSUME BudgetAssumption, BudgetInv, Returns \/ Interrupt
    PROVE  BudgetInv'
<1>0. /\ inside # "out" /\ places # <<>> /\ phase # "fetch" /\ phase # "idle" /\ places \in PlaceLists
      /\ inside' = "out" /\ countdown' = NotArmed /\ UNCHANGED <<phase, limit, round, clock, ran>>
      /\ countdown \in Nat \cup {-1} /\ limit \in Nat /\ ran \in Nat
      /\ places' \in {<<>>, Tail(places)}
  BY DEF BudgetAssumption, BudgetInv, BudgetState, Returns, Interrupt, Rest, NotArmed
<1>1. Tail(places) \in PlaceLists /\ ArmedIn(Tail(places)) \in 0 .. 3
  BY <1>0, TailOfList
<1>2. BudgetState'
  BY <1>0, <1>1 DEF BudgetInv, BudgetState, PlaceLists
<1>3. ClockCounts'
  BY <1>0 DEF BudgetInv, ClockCounts
<1>4. limit * ArmedIn(Tail(places)) \in Nat /\ limit * ArmedIn(<<>>) = 0
  BY <1>0, <1>1, ArmedOf
<1>5. Ahead' \in {0, limit * ArmedIn(Tail(places))}
  BY <1>0, <1>4 DEF Ahead
<1>6. Ahead \in Nat /\ Ahead >= limit * ArmedIn(Tail(places))
  BY <1>0, <1>4 DEF Ahead, NotArmed
<1>7. Account'
  <2>1. Allowance' = Allowance
    BY <1>0 DEF Allowance
  <2>2. Allowance \in Nat
    BY Allowances, SMTT(30) DEF Allowance, BudgetInv, BudgetState, BudgetAssumption
  <2>3. Ahead' \in Nat /\ Ahead' <= Ahead
    BY <1>4, <1>5, <1>6
  <2>4. ran + Ahead <= Allowance
    BY DEF BudgetInv, Account
  <2>5. ran' = ran /\ ran \in Nat
    BY <1>0
  <2>6. ran' + Ahead' <= Allowance'
    BY <1>6, <2>1, <2>2, <2>3, <2>4, <2>5, LessAhead
  <2> QED
    BY <2>6 DEF Account
<1> QED
  BY <1>2, <1>3, <1>7 DEF BudgetInv

LEMMA BudgetNextHolds ==
    ASSUME BudgetAssumption, BudgetInv, [BudgetNext]_budgetVars
    PROVE  BudgetInv'
<1>1. CASE Break
  BY <1>1 DEF Break, BudgetInv, BudgetState, ClockCounts, Account, Ahead, Allowance
<1>2. CASE Reply
  <2>1. /\ phase = "derive" /\ phase' = "idle" /\ places = <<>>
        /\ UNCHANGED <<places, inside, clock, limit, countdown, round, ran>>
    BY <1>2 DEF Reply, Ready
  <2> QED
    BY <2>1 DEF BudgetInv, BudgetState, ClockCounts, Account, Ahead, Allowance
<1>3. CASE UNCHANGED budgetVars
  BY <1>3 DEF budgetVars, BudgetInv, BudgetState, ClockCounts, Account, Ahead, Allowance
<1> QED
  BY <1>1, <1>2, <1>3, NextScriptHolds, FetchedHolds, FireDeferredHolds, DrainRoundHolds,
     DeriveHolds, OperationHolds, EnterHolds, WorkHolds, LeaveHolds
  DEF BudgetNext, Worker

-----------------------------------------------------------------------------
(* What a load costs, whatever the page's scripts do: ran is the time the   *)
(* page's code has had under js_eval, js_eval_module and js_pump_jobs.     *)
THEOREM LoadsBounded ==
    ASSUME BudgetAssumption
    PROVE  BudgetSpec => []LoadBounded
<1>1. BudgetInit => BudgetInv
  BY BudgetInitHolds
<1>2. BudgetInv /\ [BudgetNext]_budgetVars => BudgetInv'
  BY BudgetNextHolds
<1>3. BudgetInv => LoadBounded
  <2> SUFFICES ASSUME BudgetInv
               PROVE  LoadBounded
    OBVIOUS
  <2>1. ran \in Nat /\ Ahead \in Nat /\ ran + Ahead <= Allowance
        /\ round \in 0 .. MaxRounds /\ Default \in Nat /\ Total \in Nat /\ MaxRounds \in Nat
    BY AheadTyped DEF BudgetInv, BudgetState, Account, BudgetAssumption
  <2>2. Allowance <= (4 + MaxRounds) * Total + Default /\ Allowance \in Nat
        /\ (4 + MaxRounds) * Total + Default \in Nat
    BY <2>1, Allowances DEF Allowance
  <2> QED
    BY <2>1, <2>2 DEF LoadBounded
<1> QED
  BY <1>1, <1>2, <1>3, PTL DEF BudgetSpec

(***************************************************************************)
(* TabAsync, for any number of ticks and of events.                        *)
(*                                                                         *)
(* The invariants of the runs are not inductive: that the pipe has one     *)
(* user rests on the job being gone once an operation is under way, and    *)
(* that timers stay armed on what a finished tick reports and on a tick    *)
(* being due behind every geometry job.                                    *)
(***************************************************************************)
(***************************************************************************)
(* The inductive invariant, without and with the timers.                   *)
(***************************************************************************)
Operating == pc \in {"run", "runblind"} => ~Busy

JobShape ==
    /\ ~Busy => job = NoJob
    /\ job.st # "ready"
    /\ job.done => job.last

Inv == TypeOK /\ Operating /\ JobShape

\* What is due can be run, a finished tick reports the timers as they are,
\* a geometry job has a tick behind it, and otherwise pending timers do.
ReportTrue == job.done /\ job.tick => job.report = timers
GeomTick   == Busy /\ ~job.tick => due
Pending    == pc \notin {"run", "runblind"} /\ ~Busy /\ timers /\ left > 0 => due \/ mute

TimerInv == Inv /\ (due => left > 0) /\ ReportTrue /\ GeomTick /\ Pending

USE AsyncAssumption

Jobs == [st : {"none", "running", "ready"}, tick : BOOLEAN, done : BOOLEAN,
         report : BOOLEAN, last : BOOLEAN]

LEMMA NoJobFacts ==
    NoJob \in Jobs /\ NoJob.st = "none" /\ NoJob.done = FALSE /\ NoJob.tick = FALSE
BY DEF NoJob, Jobs

LEMMA NewJobFacts ==
    \A k \in BOOLEAN : /\ NewJob(k) \in Jobs
                       /\ NewJob(k).st = "running"
                       /\ NewJob(k).tick = k
                       /\ NewJob(k).done = FALSE
BY DEF NewJob, NoJob, Jobs

LEMMA ScheduledBool == \A t : Scheduled(t) \in BOOLEAN
BY Zenon DEF Scheduled

LEMMA ReportBool == \A d \in BOOLEAN : Report(d) \in BOOLEAN
BY ScheduledBool, Zenon DEF Report

LEMMA ArmedFacts ==
    ASSUME TypeOK, NEW d, Armed(d)
    PROVE  /\ due' = TRUE
           /\ left' \in 0 .. Ticks
           /\ left > 0 => left' = left
BY DEF TypeOK, Armed

LEMMA InitInv == Init => Inv
<1> SUFFICES ASSUME Init PROVE Inv
  OBVIOUS
<1>1. due \in BOOLEAN
  BY Zenon DEF Init
<1>2. timers \in BOOLEAN /\ ready \in BOOLEAN /\ efd \in BOOLEAN /\ mute \in BOOLEAN
  BY Zenon DEF Init
<1>3. job \in Jobs
  BY NoJobFacts DEF Init
<1>4. ev \in 0 .. MaxEv /\ left \in 0 .. Ticks /\ pc = "poll"
  BY DEF Init
<1>5. TypeOK
  BY <1>1, <1>2, <1>3, <1>4 DEF TypeOK, Jobs
<1> QED
  BY <1>5, NoJobFacts DEF Init, Inv, Operating, JobShape, Busy

LEMMA AppliedInv ==
    ASSUME Inv, NEW r \in BOOLEAN, Applied(r)
    PROVE  /\ efd' \in BOOLEAN /\ ev' \in 0 .. MaxEv
           /\ job' \in Jobs /\ due' \in BOOLEAN /\ left' \in 0 .. Ticks
           /\ mute' \in BOOLEAN
           /\ JobShape'
<1>0. r /\ ~job.tick => ev < MaxEv
  BY DEF Applied
<1>1a. mute' \in BOOLEAN
  BY DEF Applied, Inv, TypeOK
<1>1. ev' \in 0 .. MaxEv /\ efd' \in BOOLEAN
  <2>1. efd' \in BOOLEAN
    BY DEF Applied
  <2>2. CASE r /\ ~job.tick
    BY <1>0, <2>1, <2>2 DEF Applied, Inv, TypeOK
  <2>3. CASE ~(r /\ ~job.tick)
    BY <2>1, <2>3 DEF Applied, Inv, TypeOK
  <2> QED
    BY <2>2, <2>3
<1>2. CASE r
  <2>1. job' = NewJob(FALSE) /\ Armed(Report(due))
    BY <1>2 DEF Applied
  <2> QED
    BY <1>1, <1>1a, <2>1, NewJobFacts, ArmedFacts DEF Inv, JobShape, Busy
<1>3. CASE ~r
  <2>1. job' = NoJob /\ due' = Report(due) /\ UNCHANGED left
    BY <1>3 DEF Applied
  <2>2. due' \in BOOLEAN
    BY <2>1, ReportBool DEF Inv, TypeOK
  <2> QED
    BY <1>1, <1>1a, <2>1, <2>2, NoJobFacts DEF Inv, TypeOK, JobShape, Busy
<1> QED
  BY <1>2, <1>3

LEMMA NextInv == Inv /\ [Next]_vars => Inv'
<1> SUFFICES ASSUME Inv, [Next]_vars PROVE Inv'
  OBVIOUS
<1> USE DEF Inv, TypeOK, Operating, JobShape, Busy
<1> job \in Jobs
  BY DEF Jobs
<1>1. CASE JobMain
  <2>1. (job.tick /\ timers') \in BOOLEAN
    BY Zenon
  <2> QED
    BY <1>1, <2>1 DEF JobMain, InFlight
<1>2. CASE Poll
  BY <1>2 DEF Poll
<1>3. ASSUME NEW k \in {"op", "blind"}, CallOp(k) PROVE Inv'
  BY <1>3 DEF CallOp
<1>4. ASSUME NEW k \in {"op", "blind"}, AsyncSync(k) PROVE Inv'
  BY <1>4, NoJobFacts DEF AsyncSync, Jobs
<1>5. CASE RunOp \/ RunBlind
  <2>1. job = NoJob /\ job.done = FALSE
    BY <1>5, NoJobFacts DEF RunOp, RunBlind
  <2>2. job' = NoJob
    BY <1>5, <2>1 DEF RunOp, RunBlind, Overtaken, NoJob
  <2>3. due' \in BOOLEAN /\ timers' \in BOOLEAN
    BY <1>5, ScheduledBool DEF RunOp, RunBlind
  <2> QED
    BY <1>5, <2>1, <2>2, <2>3, NoJobFacts DEF RunOp, RunBlind
<1>7. CASE Paint
  <2>1. Armed(due) /\ job' = NewJob(FALSE)
    BY <1>7 DEF Paint
  <2>2. due' \in BOOLEAN /\ left' \in 0 .. Ticks
    BY <2>1, ArmedFacts
  <2>3. job' \in Jobs /\ JobShape'
    BY <2>1, NewJobFacts
  <2>4. ev' \in 0 .. MaxEv
    BY <1>7 DEF Paint
  <2> QED
    BY <1>7, <2>2, <2>3, <2>4 DEF Paint, Jobs
<1>8. CASE Render
  <2>1. due' \in BOOLEAN
    BY <1>8, Zenon DEF Render
  <2>2. job' \in Jobs /\ JobShape'
    BY <1>8, NoJobFacts DEF Render
  <2>3. ev' \in 0 .. MaxEv /\ left' \in 0 .. Ticks
    BY <1>8 DEF Render
  <2>4. timers' \in BOOLEAN /\ efd' \in BOOLEAN
    BY <1>8 DEF Render
  <2> QED
    BY <1>8, <2>1, <2>2, <2>3, <2>4 DEF Render, Jobs
<1>9. CASE EndEvents
  BY <1>9 DEF EndEvents
<1>10. ASSUME NEW r \in BOOLEAN, Finish(r) \/ Quiesce(r) PROVE Inv'
  <2>1. Applied(r)
    BY <1>10 DEF Finish, Quiesce
  <2> QED
    BY <1>10, <2>1, AppliedInv DEF Finish, Quiesce, Jobs
<1>12. CASE NotReady
  BY <1>12 DEF NotReady
<1>13. CASE TickStart
  <2>1. job' \in Jobs /\ JobShape'
    BY <1>13, NewJobFacts DEF TickStart
  <2>2. left' \in 0 .. Ticks
    BY <1>13 DEF TickStart
  <2> QED
    BY <1>13, <2>1, <2>2 DEF TickStart, Jobs
<1>14. CASE TickBusy \/ NoTick \/ NotYet
  BY <1>14 DEF TickBusy, NoTick, NotYet
<1>15. CASE UNCHANGED vars
  BY <1>15 DEF vars
<1> QED
  BY <1>1, <1>2, <1>3, <1>4, <1>5, <1>7, <1>8, <1>9, <1>10, <1>12,
     <1>13, <1>14, <1>15 DEF Next, Loop

LEMMA InvHolds == Spec => []Inv
BY InitInv, NextInv, PTL DEF Spec

\* The state keeps its types; in particular the ticks of a page never exceed
\* JS_TICKS_PER_LOAD although publish_geometry grants one.
THEOREM TypeCorrect == Spec => []TypeOK
BY InvHolds, PTL DEF Inv

\* One channel: while an operation of the loop uses the pipe the job's thread
\* does not (tab_async_sync at the head of every operation).
THEOREM OneUserOfThePipe == Spec => []PipeExclusive
<1>1. Inv => PipeExclusive
  BY DEF Inv, Operating, PipeExclusive, Busy, InFlight, JobShape, NoJob, TypeOK
<1> QED
  BY <1>1, InvHolds, PTL

\* A result that is there to be applied is of the worker's last operation
\* (tab_async_sync discards what it joins).
THEOREM ResultsFresh == Spec => []NeverStale
<1>1. Inv => NeverStale
  BY DEF Inv, JobShape, NeverStale
<1> QED
  BY <1>1, InvHolds, PTL

(***************************************************************************)
(* Timers.                                                                 *)
(***************************************************************************)
LEMMA TimerInit == Init => TimerInv
<1> SUFFICES ASSUME Init PROVE TimerInv
  OBVIOUS
<1>1. Inv
  BY InitInv
<1>2. left > 0 /\ due = timers /\ pc = "poll" /\ job = NoJob
  BY DEF Init
<1> QED
  BY <1>1, <1>2, NoJobFacts DEF TimerInv, ReportTrue, GeomTick, Pending, Busy

LEMMA AppliedTimers ==
    ASSUME TimerInv, NEW r \in BOOLEAN, Applied(r), UNCHANGED timers, pc \notin {"run", "runblind"}
    PROVE  /\ due' => left' > 0
           /\ ReportTrue' /\ GeomTick'
           /\ ~Busy' /\ timers' /\ left' > 0 => due' \/ mute'
<1> USE DEF TimerInv
<1>1. CASE r
  <2>1. job' = NewJob(FALSE) /\ Armed(Report(due))
    BY <1>1 DEF Applied
  <2>2. Report(due) => left > 0
    BY Zenon DEF Report, Scheduled
  <2>3. due' = TRUE /\ left' > 0
    BY <2>1, <2>2 DEF Armed, Inv, TypeOK
  <2> QED
    BY <2>1, <2>3, NewJobFacts DEF ReportTrue, GeomTick, Busy
<1>2. CASE ~r
  <2>1. job' = NoJob /\ due' = Report(due) /\ left' = left
    BY <1>2 DEF Applied
  <2>2. CASE Busy /\ job.tick
    <3>1. due' = (job.report /\ left > 0)
      BY <2>1, <2>2 DEF Report, Scheduled
    <3>2. job.done = TRUE
      BY <2>2 DEF Applied, Settled, Busy, Inv, TypeOK, JobShape
    <3>3. job.report = timers
      BY <3>2, <2>2 DEF ReportTrue
    <3> QED
      BY <2>1, <3>1, <3>3, NoJobFacts DEF ReportTrue, GeomTick, Busy
  <2>3. CASE ~(Busy /\ job.tick)
    <3>1. due' = due /\ mute' = mute
      BY <2>1, <2>3 DEF Report, Applied
    <3> QED
      BY <2>1, <2>3, <3>1, NoJobFacts DEF ReportTrue, GeomTick, Busy, Pending
  <2> QED
    BY <2>2, <2>3
<1> QED
  BY <1>1, <1>2

LEMMA TimerNext == TimerInv /\ [Next]_vars => TimerInv'
<1> SUFFICES ASSUME TimerInv, [Next]_vars PROVE TimerInv'
  OBVIOUS
<1>0. Inv /\ Inv'
  BY NextInv DEF TimerInv
<1> USE <1>0 DEF TimerInv, ReportTrue, GeomTick, Pending, Busy
<1>1. CASE JobMain
  <2>1. job'.st = job.st /\ job'.tick = job.tick /\ job'.done = TRUE
    BY <1>1 DEF JobMain, Inv, TypeOK
  <2>2. job'.report = (job.tick /\ timers')
    BY <1>1 DEF JobMain, Inv, TypeOK
  <2>3. job.st = "running"
    BY <1>1 DEF JobMain, InFlight
  <2>4. timers' \in BOOLEAN
    BY <1>1 DEF JobMain
  <2>5. ReportTrue'
    BY <2>1, <2>2, <2>4
  <2> QED
    BY <1>1, <2>1, <2>3, <2>5 DEF JobMain
<1>2. CASE Poll \/ EndEvents \/ NotReady \/ TickBusy \/ NotYet
  BY <1>2 DEF Poll, EndEvents, NotReady, TickBusy, NotYet
<1>3. ASSUME NEW k \in {"op", "blind"}, CallOp(k) PROVE TimerInv'
  BY <1>3 DEF CallOp
<1>4. ASSUME NEW k \in {"op", "blind"}, AsyncSync(k) PROVE TimerInv'
  BY <1>4, NoJobFacts DEF AsyncSync
<1>5. CASE RunOp
  <2>1. job = NoJob
    BY <1>5 DEF RunOp, Inv, Operating, JobShape
  <2>2. job' = NoJob
    BY <1>5, <2>1 DEF RunOp, Overtaken, NoJob
  <2>3. due' = (timers' /\ left > 0) /\ left' = left /\ pc' = "events"
    BY <1>5 DEF RunOp, Scheduled
  <2> QED
    BY <2>2, <2>3, NoJobFacts
<1>6. CASE RunBlind
  <2>1. job = NoJob
    BY <1>6 DEF RunBlind, Inv, Operating, JobShape
  <2>2. job' = NoJob
    BY <1>6, <2>1 DEF RunBlind, Overtaken, NoJob
  <2>3. due' = due /\ left' = left /\ mute' = TRUE
    BY <1>6 DEF RunBlind
  <2> QED
    BY <2>2, <2>3, NoJobFacts
<1>7. CASE Paint
  <2>1. Armed(due) /\ job' = NewJob(FALSE) /\ timers' = timers /\ pc' = pc
    BY <1>7 DEF Paint
  <2>2. due' = TRUE /\ left' > 0
    BY <2>1 DEF Armed, Inv, TypeOK
  <2> QED
    BY <2>1, <2>2, NewJobFacts
<1>8. CASE Render
  BY <1>8, NoJobFacts DEF Render
<1>9. ASSUME NEW r \in BOOLEAN, Finish(r) \/ Quiesce(r) PROVE TimerInv'
  <2>1. Applied(r) /\ timers' = timers /\ pc \notin {"run", "runblind"} /\ pc' \in {"tick", "events"}
    BY <1>9 DEF Finish, Quiesce
  <2> HIDE DEF TimerInv
  <2> QED
    BY <2>1, AppliedTimers DEF TimerInv
<1>10. CASE TickStart
  <2>1. due' = FALSE
    BY <1>10 DEF TickStart
  <2>2. CASE job' = NewJob(TRUE)
    BY <2>1, <2>2, NewJobFacts
  <2>3. CASE job' = job /\ mute' = TRUE
    <3>1. ~Busy
      BY <1>10 DEF TickStart
    <3>2. job = NoJob
      BY <3>1 DEF Inv, JobShape
    <3> QED
      BY <2>1, <2>3, <3>2, NoJobFacts
  <2> QED
    BY <1>10, <2>2, <2>3 DEF TickStart
<1>11. CASE NoTick
  <2>1. due = FALSE
    BY <1>11 DEF NoTick, Inv, TypeOK
  <2> QED
    BY <1>11, <2>1 DEF NoTick
<1>12. CASE UNCHANGED vars
  BY <1>12 DEF vars
<1> QED
  BY <1>1, <1>2, <1>3, <1>4, <1>5, <1>6, <1>7, <1>8, <1>9, <1>10, <1>11, <1>12
     DEF Next, Loop

\* Pending timers keep a tick due (schedule_js_tick, publish_geometry and the
\* BUSY branch of the loop) unless the last report was dropped: by an operation
\* that answers with no view, or because the tick's thread was not created.
THEOREM TimersStayArmed == Spec => []TimersArmed
<1>1. TimerInv => TimersArmed
  BY DEF TimerInv, Pending, TimersArmed
<1> QED
  BY <1>1, TimerInit, TimerNext, PTL DEF Spec

(***************************************************************************)
(* VideoPlayer.  A pipe and what its writer has still to write are the rest *)
(* of one message and then whole ones, so that the reader that has taken a *)
(* message to its end finds a tag; and the join of video_stop leaves no    *)
(* feeder behind.                                                          *)
(***************************************************************************)

(* A set of numbers that is not empty has a least one, and from it induction. *)
LEMMA NatMin ==
    ASSUME NEW T \in SUBSET Nat, T # {}
    PROVE  \E x \in T : \A y \in T : x <= y
<1> DEFINE R == OpToRel(<, Nat)
<1>1. \A u, v \in Nat : u < v => <<u, v>> \in R
  BY DEF OpToRel
<1>2. IsWellFoundedOn(R, Nat)
  BY NatLessThanWellFounded
<1> HIDE DEF R
<1>3. PICK x \in T : \A y \in T : ~(<<y, x>> \in R)
  BY <1>2, WFMin
<1>4. \A y \in T : ~(y < x)
  BY <1>1, <1>3
<1>5. \A y \in T : x <= y
  BY <1>4
<1> QED
  BY <1>5

LEMMA Induction ==
    ASSUME NEW T \in SUBSET Nat, 0 \in T, \A n \in T : n + 1 \in T
    PROVE  T = Nat
<1> SUFFICES ASSUME T # Nat PROVE FALSE
  OBVIOUS
<1>1. PICK x \in Nat \ T : \A y \in Nat \ T : x <= y
  BY NatMin
<1>2. x # 0
  OBVIOUS
<1>3. x - 1 \in Nat /\ x - 1 \notin Nat \ T /\ (x - 1) + 1 = x
  BY <1>1, <1>2
<1> QED
  BY <1>3, <1>1


-----------------------------------------------------------------------------
(* Units in a pipe, n of them still owed to a message begun before: at each place
   f[i] units are owed, u is a unit owed, sz how many a tag brings. *)
Owes(f, s, n, u, sz) ==
    /\ f \in [0 .. Len(s) -> Nat] /\ f[0] = n /\ f[Len(s)] = 0
    /\ \A i \in 1 .. Len(s) :
          IF f[i - 1] > 0 THEN s[i] = u /\ f[i] = f[i - 1] - 1
          ELSE s[i] \in DOMAIN sz /\ f[i] = sz[s[i]]

Parses(s, n, u, sz) == \E f : Owes(f, s, n, u, sz)

(* An empty pipe owes nothing. *)
LEMMA ParseEmpty ==
    ASSUME NEW n, NEW u, NEW sz
    PROVE  Parses(<<>>, 0, u, sz) /\ (Parses(<<>>, n, u, sz) => n = 0)
<1>1. Owes([i \in 0 .. 0 |-> 0], <<>>, 0, u, sz)
  BY DEF Owes
<1>2. Parses(<<>>, 0, u, sz)
  BY <1>1 DEF Parses
<1>3. ASSUME NEW f, Owes(f, <<>>, n, u, sz) PROVE n = 0
  BY <1>3 DEF Owes
<1> QED
  BY <1>2, <1>3 DEF Parses

(* Taking the first unit, *)
LEMMA ParseHead ==
    ASSUME NEW S, NEW s \in Seq(S), s # <<>>, NEW n, NEW u, NEW sz, Parses(s, n, u, sz)
    PROVE  /\ n \in Nat
           /\ n > 0 => Head(s) = u /\ Parses(Tail(s), n - 1, u, sz)
           /\ n = 0 => Head(s) \in DOMAIN sz /\ Parses(Tail(s), sz[Head(s)], u, sz)
<1>1. PICK f : Owes(f, s, n, u, sz)
  BY DEF Parses
<1> DEFINE N == Len(s)
           g == [i \in 0 .. N - 1 |-> f[i + 1]]
           m == f[1]
<1>2. /\ N \in Nat /\ N > 0 /\ Head(s) = s[1] /\ Tail(s) \in Seq(S) /\ Len(Tail(s)) = N - 1
      /\ \A i \in 1 .. N - 1 : Tail(s)[i] = s[i + 1]
  OBVIOUS
<1>3. /\ f \in [0 .. N -> Nat] /\ f[0] = n /\ f[N] = 0
      /\ \A i \in 1 .. N : IF f[i - 1] > 0 THEN s[i] = u /\ f[i] = f[i - 1] - 1
                           ELSE s[i] \in DOMAIN sz /\ f[i] = sz[s[i]]
  BY <1>1 DEF Owes
<1> HIDE DEF N
<1>4. g \in [0 .. N - 1 -> Nat] /\ g[0] = m /\ g[N - 1] = 0
  BY <1>2, <1>3
<1>5. ASSUME NEW i \in 1 .. N - 1
      PROVE  IF g[i - 1] > 0 THEN Tail(s)[i] = u /\ g[i] = g[i - 1] - 1
             ELSE Tail(s)[i] \in DOMAIN sz /\ g[i] = sz[Tail(s)[i]]
  <2>1. i + 1 \in 1 .. N /\ (i + 1) - 1 = i /\ g[i - 1] = f[i] /\ g[i] = f[i + 1]
    BY <1>2
  <2>2. IF f[(i + 1) - 1] > 0 THEN s[i + 1] = u /\ f[i + 1] = f[(i + 1) - 1] - 1
        ELSE s[i + 1] \in DOMAIN sz /\ f[i + 1] = sz[s[i + 1]]
    BY <1>3, <2>1
  <2> HIDE DEF g
  <2> QED
    BY <1>2, <2>1, <2>2
<1>6. Owes(g, Tail(s), m, u, sz)
  <2> HIDE DEF g, m
  <2> QED
    BY <1>2, <1>4, <1>5 DEF Owes
<1>7. Parses(Tail(s), m, u, sz)
  BY <1>6 DEF Parses
<1>8. 1 \in 1 .. N /\ 1 - 1 = 0
  BY <1>2
<1>9. IF n > 0 THEN s[1] = u /\ m = n - 1 ELSE s[1] \in DOMAIN sz /\ m = sz[s[1]]
  <2>1. IF f[1 - 1] > 0 THEN s[1] = u /\ f[1] = f[1 - 1] - 1 ELSE s[1] \in DOMAIN sz /\ f[1] = sz[s[1]]
    BY <1>3, <1>8
  <2> QED
    BY <1>3, <1>8, <2>1
<1>10. n \in Nat
  BY <1>2, <1>3
<1> HIDE DEF m
<1> QED
  BY <1>2, <1>7, <1>9, <1>10

(* putting whole messages behind, *)
LEMMA ParseConcat ==
    ASSUME NEW S, NEW s \in Seq(S), NEW r \in Seq(S), NEW n, NEW u, NEW sz,
           Parses(s, n, u, sz), Parses(r, 0, u, sz)
    PROVE  Parses(s \o r, n, u, sz)
<1>1. PICK f : Owes(f, s, n, u, sz)
  BY DEF Parses
<1>2. PICK g : Owes(g, r, 0, u, sz)
  BY DEF Parses
<1> DEFINE w == s \o r
           N == Len(s)
           M == Len(r)
           h == [i \in 0 .. N + M |-> IF i <= N THEN f[i] ELSE g[i - N]]
<1>3. /\ N \in Nat /\ M \in Nat /\ Len(w) = N + M
      /\ \A i \in 1 .. N + M : w[i] = IF i <= N THEN s[i] ELSE r[i - N]
  BY ConcatProperties
<1>4. /\ f \in [0 .. N -> Nat] /\ f[0] = n /\ f[N] = 0
      /\ \A i \in 1 .. N : IF f[i - 1] > 0 THEN s[i] = u /\ f[i] = f[i - 1] - 1
                           ELSE s[i] \in DOMAIN sz /\ f[i] = sz[s[i]]
  BY <1>1 DEF Owes
<1>5. /\ g \in [0 .. M -> Nat] /\ g[0] = 0 /\ g[M] = 0
      /\ \A i \in 1 .. M : IF g[i - 1] > 0 THEN r[i] = u /\ g[i] = g[i - 1] - 1
                           ELSE r[i] \in DOMAIN sz /\ g[i] = sz[r[i]]
  BY <1>2 DEF Owes
<1> HIDE DEF w, N, M
<1>6. h \in [0 .. N + M -> Nat] /\ h[0] = n /\ h[N + M] = 0
  <2>1. ASSUME NEW i \in 0 .. N + M PROVE h[i] \in Nat
    <3>1. CASE i <= N
      BY <1>3, <1>4, <3>1
    <3>2. CASE i > N
      <4>1. i - N \in 0 .. M
        BY <1>3, <3>2
      <4> QED
        BY <1>3, <1>5, <3>2, <4>1
    <3> QED
      BY <1>3, <3>1, <3>2
  <2>2. h[0] = n
    BY <1>3, <1>4
  <2>3. h[N + M] = 0
    <3>1. CASE M = 0
      BY <1>3, <1>4, <3>1
    <3>2. CASE M # 0
      <4>1. ~(N + M <= N) /\ (N + M) - N = M /\ N + M \in 0 .. N + M
        BY <1>3, <3>2
      <4> QED
        BY <1>5, <4>1
    <3> QED
      BY <3>1, <3>2
  <2> QED
    BY <2>1, <2>2, <2>3
<1>7. ASSUME NEW i \in 1 .. N + M
      PROVE  IF h[i - 1] > 0 THEN w[i] = u /\ h[i] = h[i - 1] - 1
             ELSE w[i] \in DOMAIN sz /\ h[i] = sz[w[i]]
  <2>1. CASE i <= N
    <3>1. i \in 1 .. N /\ h[i - 1] = f[i - 1] /\ h[i] = f[i] /\ w[i] = s[i]
      BY <1>3, <2>1
    <3> HIDE DEF h
    <3> QED
      BY <1>4, <3>1
  <2>2. CASE i > N
    <3>1. i - N \in 1 .. M /\ h[i] = g[i - N] /\ w[i] = r[i - N] /\ (i - N) - 1 = (i - 1) - N
      BY <1>3, <2>2
    <3>2. h[i - 1] = g[(i - N) - 1]
      <4>1. CASE i = N + 1
        <5>1. h[i - 1] = f[N]
          BY <1>3, <4>1
        <5>2. (i - N) - 1 = 0
          BY <1>3, <4>1
        <5> QED
          BY <1>4, <1>5, <5>1, <5>2
      <4>2. CASE i # N + 1
        <5>1. i - 1 \in 0 .. N + M /\ ~(i - 1 <= N)
          BY <1>3, <2>2, <4>2
        <5> QED
          BY <3>1, <5>1
      <4> QED
        BY <4>1, <4>2
    <3> HIDE DEF h
    <3> QED
      BY <1>5, <3>1, <3>2
  <2> QED
    BY <1>3, <2>1, <2>2
<1>8. Owes(h, w, n, u, sz)
  <2> HIDE DEF h
  <2> QED
    BY <1>3, <1>6, <1>7 DEF Owes
<1> QED
  BY <1>8 DEF Parses, w

(* and a message on its own. *)
LEMMA ParseMessage ==
    ASSUME NEW u, NEW sz, NEW tag \in DOMAIN sz, sz[tag] \in Nat, NEW S, NEW w \in Seq(S),
           Len(w) = sz[tag] + 1, w[1] = tag, \A i \in 2 .. Len(w) : w[i] = u
    PROVE  Parses(w, 0, u, sz)
<1> DEFINE N == sz[tag] + 1
           f == [i \in 0 .. N |-> IF i = 0 THEN 0 ELSE N - i]
<1>1. f \in [0 .. N -> Nat] /\ f[0] = 0 /\ f[N] = 0
  OBVIOUS
<1>2. ASSUME NEW i \in 1 .. N
      PROVE  IF f[i - 1] > 0 THEN w[i] = u /\ f[i] = f[i - 1] - 1
             ELSE w[i] \in DOMAIN sz /\ f[i] = sz[w[i]]
  <2>1. CASE i = 1
    BY <2>1
  <2>2. CASE i # 1
    <3>1. f[i - 1] = N - (i - 1) /\ f[i] = N - i /\ N - (i - 1) > 0 /\ N - i = (N - (i - 1)) - 1
      BY <2>2
    <3>2. i \in 2 .. Len(w)
      BY <2>2
    <3> HIDE DEF f, N
    <3> QED
      BY <3>1, <3>2
  <2> QED
    BY <2>1, <2>2
<1>3. Owes(f, w, 0, u, sz)
  <2>1. Len(w) = N
    OBVIOUS
  <2> HIDE DEF f, N
  <2> QED
    BY <1>1, <1>2, <2>1 DEF Owes
<1> QED
  BY <1>3 DEF Parses

(* A unit moves from one end of a pipe to the other: nothing changes in between. *)
LEMMA PipeMoves ==
    ASSUME NEW S, NEW a \in Seq(S), NEW b \in Seq(S), b # <<>>
    PROVE  /\ Append(a, Head(b)) \in Seq(S) /\ Tail(b) \in Seq(S)
           /\ Append(a, Head(b)) \o Tail(b) = a \o b
<1> DEFINE p == Append(a, Head(b))
           q == Tail(b)
           v == p \o q
           w == a \o b
<1>1. /\ p \in Seq(S) /\ Len(p) = Len(a) + 1 /\ p[Len(a) + 1] = b[1]
      /\ \A i \in 1 .. Len(a) : p[i] = a[i]
  OBVIOUS
<1>2. q \in Seq(S) /\ Len(q) = Len(b) - 1 /\ \A i \in 1 .. Len(b) - 1 : q[i] = b[i + 1]
  OBVIOUS
<1>n. Len(a) \in Nat /\ Len(b) \in Nat /\ Len(b) > 0
  OBVIOUS
<1> HIDE DEF p, q
<1>3. /\ v \in Seq(S) /\ Len(v) = Len(p) + Len(q)
      /\ \A i \in 1 .. Len(p) + Len(q) : v[i] = IF i <= Len(p) THEN p[i] ELSE q[i - Len(p)]
  BY <1>1, <1>2, ConcatProperties
<1>4. /\ w \in Seq(S) /\ Len(w) = Len(a) + Len(b)
      /\ \A i \in 1 .. Len(a) + Len(b) : w[i] = IF i <= Len(a) THEN a[i] ELSE b[i - Len(a)]
  BY ConcatProperties
<1> HIDE DEF v, w
<1>5. ASSUME NEW i \in 1 .. Len(a) + Len(b) PROVE v[i] = w[i]
  <2>0. i \in 1 .. Len(p) + Len(q)
    BY <1>n, <1>1, <1>2
  <2>v. v[i] = IF i <= Len(p) THEN p[i] ELSE q[i - Len(p)]
    BY <1>3, <2>0
  <2>w. w[i] = IF i <= Len(a) THEN a[i] ELSE b[i - Len(a)]
    BY <1>4
  <2>1. CASE i <= Len(a)
    <3>1. i <= Len(p) /\ i \in 1 .. Len(a)
      BY <1>n, <1>1, <2>1
    <3> QED
      BY <1>1, <2>1, <2>v, <2>w, <3>1
  <2>2. CASE i = Len(a) + 1
    <3>1. i - Len(a) = 1 /\ i <= Len(p) /\ ~(i <= Len(a))
      BY <1>n, <1>1, <2>2
    <3>2. v[i] = p[Len(a) + 1] /\ w[i] = b[1]
      BY <2>2, <2>v, <2>w, <3>1
    <3> QED
      BY <1>1, <3>2
  <2>3. CASE i > Len(a) + 1
    <3>1. /\ i - Len(p) \in 1 .. Len(b) - 1 /\ (i - Len(p)) + 1 = i - Len(a)
          /\ ~(i <= Len(p)) /\ ~(i <= Len(a))
      BY <1>n, <1>1, <2>3
    <3>2. v[i] = q[i - Len(p)] /\ w[i] = b[i - Len(a)]
      BY <2>v, <2>w, <3>1
    <3> QED
      BY <1>2, <3>1, <3>2
  <2> QED
    BY <1>n, <2>1, <2>2, <2>3
<1>6. Len(v) = Len(a) + Len(b)
  BY <1>n, <1>1, <1>2, <1>3
<1>7. v = w
  BY <1>3, <1>4, <1>5, <1>6, SeqEqual
<1> QED
  BY <1>1, <1>2, <1>7 DEF p, q, v, w

(* What is read is the first unit of all that is on its way. *)
LEMMA PipeHead ==
    ASSUME NEW S, NEW a \in Seq(S), NEW b \in Seq(S), a # <<>>
    PROVE  /\ a \o b \in Seq(S) /\ a \o b # <<>> /\ Head(a \o b) = Head(a)
           /\ Tail(a) \in Seq(S) /\ Tail(a \o b) = Tail(a) \o b
<1> DEFINE w == a \o b
           q == Tail(a)
           v == q \o b
           x == Tail(w)
<1>n. Len(a) \in Nat /\ Len(b) \in Nat /\ Len(a) > 0
  OBVIOUS
<1>1. /\ w \in Seq(S) /\ Len(w) = Len(a) + Len(b)
      /\ \A i \in 1 .. Len(a) + Len(b) : w[i] = IF i <= Len(a) THEN a[i] ELSE b[i - Len(a)]
  BY ConcatProperties
<1>2. q \in Seq(S) /\ Len(q) = Len(a) - 1 /\ \A i \in 1 .. Len(a) - 1 : q[i] = a[i + 1]
  OBVIOUS
<1> HIDE DEF w, q
<1>3. /\ v \in Seq(S) /\ Len(v) = Len(q) + Len(b)
      /\ \A i \in 1 .. Len(q) + Len(b) : v[i] = IF i <= Len(q) THEN q[i] ELSE b[i - Len(q)]
  BY <1>2, ConcatProperties
<1>4. w # <<>> /\ Head(w) = a[1]
  BY <1>n, <1>1
<1>5. x \in Seq(S) /\ Len(x) = Len(w) - 1 /\ \A i \in 1 .. Len(w) - 1 : x[i] = w[i + 1]
  BY <1>1, <1>4
<1> HIDE DEF v, x
<1>6. ASSUME NEW i \in 1 .. Len(w) - 1 PROVE v[i] = x[i]
  <2>0. i \in 1 .. Len(q) + Len(b) /\ i + 1 \in 1 .. Len(a) + Len(b)
    BY <1>n, <1>1, <1>2
  <2>v. v[i] = IF i <= Len(q) THEN q[i] ELSE b[i - Len(q)]
    BY <1>3, <2>0
  <2>x. x[i] = IF i + 1 <= Len(a) THEN a[i + 1] ELSE b[(i + 1) - Len(a)]
    BY <1>1, <1>5, <2>0
  <2>1. CASE i <= Len(a) - 1
    <3>1. i <= Len(q) /\ i + 1 <= Len(a) /\ i \in 1 .. Len(a) - 1
      BY <1>n, <1>2, <2>1
    <3> QED
      BY <1>2, <2>v, <2>x, <3>1
  <2>2. CASE i > Len(a) - 1
    <3>1. i - Len(q) = (i + 1) - Len(a) /\ ~(i <= Len(q)) /\ ~(i + 1 <= Len(a))
      BY <1>n, <1>1, <1>2, <2>2
    <3> QED
      BY <2>v, <2>x, <3>1
  <2> QED
    BY <1>n, <1>1, <2>1, <2>2
<1>7. Len(v) = Len(x)
  BY <1>n, <1>1, <1>2, <1>3, <1>5
<1>8. v = x
  BY <1>n, <1>1, <1>3, <1>5, <1>6, <1>7, SeqEqual
<1> QED
  BY <1>1, <1>2, <1>4, <1>8 DEF w, q, v, x

-----------------------------------------------------------------------------
CmdUnits == {"DECODE", "FLUSH", "b"}
OutTags  == {"V", "A", "INFO", "ERROR", "EOS"}
OutUnits == OutTags \cup {"p"}

CmdSize == [c \in {"DECODE", "FLUSH"} |-> IF c = "DECODE" THEN Body ELSE 0]
OutSize == [c \in OutTags |-> Video!PayloadOf(c)]

(* A tag followed by n units. *)
LEMMA TaggedIs ==
    ASSUME NEW S, NEW tag \in S, NEW u \in S, NEW n \in Nat,
           NEW w, w = <<tag>> \o [k \in 1 .. n |-> u]
    PROVE  w \in Seq(S) /\ Len(w) = n + 1 /\ w[1] = tag /\ \A i \in 2 .. n + 1 : w[i] = u
<1> DEFINE a == <<tag>>
           b == [k \in 1 .. n |-> u]
<1>1. a \in Seq(S) /\ Len(a) = 1 /\ a[1] = tag
  OBVIOUS
<1>2. b \in Seq(S) /\ Len(b) = n /\ \A k \in 1 .. n : b[k] = u
  <2>1. b \in [1 .. n -> S]
    OBVIOUS
  <2>2. b \in Seq(S)
    BY <2>1
  <2> QED
    BY <2>1, <2>2
<1> HIDE DEF a, b
<1>3. w = a \o b
  BY DEF a, b
<1>4. /\ w \in Seq(S) /\ Len(w) = Len(a) + Len(b)
      /\ \A i \in 1 .. Len(a) + Len(b) : w[i] = IF i <= Len(a) THEN a[i] ELSE b[i - Len(a)]
  BY <1>1, <1>2, <1>3, ConcatProperties
<1>5. w[1] = tag
  BY <1>1, <1>2, <1>4
<1>6. ASSUME NEW i \in 2 .. n + 1 PROVE w[i] = u
  <2>1. i - 1 \in 1 .. n
    OBVIOUS
  <2>2. w[i] = b[i - 1]
    BY <1>1, <1>2, <1>4
  <2> QED
    BY <1>2, <2>1, <2>2
<1>7. Len(w) = n + 1
  BY <1>1, <1>2, <1>4
<1> QED
  BY <1>4, <1>5, <1>6, <1>7

(* The commands of the feeder are whole, *)
LEMMA SegmentParses ==
    ASSUME Video!VideoAssumption
    PROVE  /\ Video!Segment \in Seq(CmdUnits) /\ Parses(Video!Segment, 0, "b", CmdSize)
           /\ <<"FLUSH">> \in Seq(CmdUnits) /\ Parses(<<"FLUSH">>, 0, "b", CmdSize)
           /\ CmdSize["DECODE"] = Body /\ CmdSize["FLUSH"] = 0 /\ Body \in Nat
<1>0. Body \in Nat
  BY DEF Video!VideoAssumption
<1>1. "DECODE" \in CmdUnits /\ "b" \in CmdUnits /\ "FLUSH" \in CmdUnits
  BY DEF CmdUnits
<1>2. /\ CmdSize["DECODE"] = Body /\ CmdSize["FLUSH"] = 0
      /\ "DECODE" \in DOMAIN CmdSize /\ "FLUSH" \in DOMAIN CmdSize
  BY DEF CmdSize
<1> DEFINE w == Video!Segment
           x == <<"FLUSH">>
<1>3. w \in Seq(CmdUnits) /\ Len(w) = Body + 1 /\ w[1] = "DECODE" /\ \A i \in 2 .. Body + 1 : w[i] = "b"
  BY <1>0, <1>1, TaggedIs DEF Video!Segment
<1> HIDE DEF w
<1>4. Parses(w, 0, "b", CmdSize)
  BY <1>0, <1>2, <1>3, ParseMessage
<1>5. x \in Seq(CmdUnits) /\ Len(x) = 1 /\ x[1] = "FLUSH"
  BY <1>1
<1> HIDE DEF x
<1>6. Parses(x, 0, "b", CmdSize)
  <2>1. \A i \in 2 .. Len(x) : x[i] = "b"
    BY <1>5
  <2>2. CmdSize["FLUSH"] \in Nat /\ Len(x) = CmdSize["FLUSH"] + 1
    BY <1>2, <1>5
  <2> QED
    BY <1>2, <1>5, <2>1, <2>2, ParseMessage
<1> QED
  BY <1>0, <1>2, <1>3, <1>4, <1>5, <1>6 DEF w, x

(* (payloads are counted) *)
LEMMA PayloadIs == \A c \in OutTags : Video!PayloadOf(c) \in Nat
BY DEF OutTags, Video!PayloadOf

(* as is each message of the decoder, *)
LEMMA MessageParses ==
    ASSUME NEW tag \in OutTags
    PROVE  Video!Message(tag) \in Seq(OutUnits) /\ Parses(Video!Message(tag), 0, "p", OutSize)
<1>0. Video!PayloadOf(tag) \in Nat
  BY PayloadIs
<1>1. tag \in OutUnits /\ "p" \in OutUnits /\ tag \in DOMAIN OutSize /\ OutSize[tag] = Video!PayloadOf(tag)
  BY DEF OutUnits, OutSize
<1> DEFINE w == Video!Message(tag)
           n == Video!PayloadOf(tag)
<1>2. w = <<tag>> \o [k \in 1 .. n |-> "p"]
  BY DEF Video!Message
<1> HIDE DEF w
<1>m. n \in Nat
  BY <1>0
<1> HIDE DEF n
<1>3. w \in Seq(OutUnits) /\ Len(w) = n + 1 /\ w[1] = tag /\ \A i \in 2 .. n + 1 : w[i] = "p"
  BY <1>m, <1>1, <1>2, TaggedIs
<1>4. Parses(w, 0, "p", OutSize)
  BY <1>0, <1>1, <1>3, ParseMessage DEF n
<1> QED
  BY <1>3, <1>4 DEF w

(* and the messages of any decoded sequence of frames. *)
LEMMA MessagesParse ==
    ASSUME NEW fr \in Seq({"V", "A"})
    PROVE  Video!Messages(fr) \in Seq(OutUnits) /\ Parses(Video!Messages(fr), 0, "p", OutSize)
<1> DEFINE N == Len(fr)
           R(x, k) == IF k = 0 THEN <<>> ELSE x \o Video!Message(fr[k])
           P(f, m) == f = [k \in 0 .. m |-> R(f[k - 1], k)]
           T == {m \in Nat : \E f : P(f, m)}
<1>n. N \in Nat /\ \A k \in 1 .. N : fr[k] \in OutTags
  BY DEF OutTags
<1>r. Video!Messages(fr) = (LET units[k \in 0 .. N] == R(units[k - 1], k) IN units[N])
  BY DEF Video!Messages
<1>z. \A x, k : R(x, k) = IF k = 0 THEN <<>> ELSE x \o Video!Message(fr[k])
  OBVIOUS
<1>0. \A x, y : R(x, 0) = R(y, 0)
  OBVIOUS
<1> HIDE DEF R, N
<1>1. 0 \in T
  <2> DEFINE first == R(0, 0)
             f == [k \in 0 .. 0 |-> first]
  <2>1. \A k \in 0 .. 0 : f[k] = R(f[k - 1], k)
    <3>1. \A k \in 0 .. 0 : k = 0 /\ f[k] = first
      OBVIOUS
    <3> HIDE DEF f
    <3> QED
      BY <1>0, <3>1
  <2>2. P(f, 0)
    BY <2>1
  <2> QED
    BY <2>2
<1>2. ASSUME NEW n \in T PROVE n + 1 \in T
  <2>1. PICK f : P(f, n)
    OBVIOUS
  <2>n. n \in Nat
    OBVIOUS
  <2> DEFINE last == R(f[n], n + 1)
             h == [k \in 0 .. n + 1 |-> IF k = n + 1 THEN last ELSE f[k]]
  <2>l. last = R(f[n], n + 1)
    OBVIOUS
  <2> HIDE DEF last
  <2>2. ASSUME NEW k \in 0 .. n + 1 PROVE h[k] = R(h[k - 1], k)
    <3>1. CASE k = 0
      <4>1. h[k] = f[0] /\ 0 \in 0 .. n
        BY <2>n, <3>1
      <4>2. f[0] = R(f[0 - 1], 0)
        BY <2>1, <4>1
      <4> QED
        BY <1>0, <3>1, <4>1, <4>2
    <3>2. CASE k = n + 1
      <4>1. h[k] = last /\ k - 1 \in 0 .. n + 1 /\ h[k - 1] = f[n]
        BY <2>n, <3>2
      <4> QED
        BY <4>1, <2>l, <3>2
    <3>3. CASE k # 0 /\ k # n + 1
      <4>1. k \in 0 .. n /\ k - 1 \in 0 .. n + 1 /\ k - 1 # n + 1
        BY <2>n, <3>3
      <4>2. h[k] = f[k] /\ h[k - 1] = f[k - 1]
        BY <4>1, <3>3
      <4>3. f[k] = R(f[k - 1], k)
        BY <2>1, <4>1
      <4> QED
        BY <4>2, <4>3
    <3> QED
      BY <3>1, <3>2, <3>3
  <2>3. P(h, n + 1)
    BY <2>2
  <2>4. n + 1 \in Nat
    BY <2>n
  <2> QED
    BY <2>3, <2>4
<1>3. T = Nat
  <2> HIDE DEF T
  <2>1. T \in SUBSET Nat
    BY DEF T
  <2> QED
    BY <1>1, <1>2, <2>1, Induction
<1>4. \E f : P(f, N)
  BY <1>3, <1>n
<1> DEFINE g == CHOOSE f : P(f, N)
<1>5. P(g, N)
  BY <1>4
<1>6. Video!Messages(fr) = g[N]
  BY <1>r
<1> HIDE DEF g
<1>7. ASSUME NEW k \in 0 .. N PROVE g[k] = R(g[k - 1], k)
  BY <1>5, <1>n
<1> DEFINE Good(w) == w \in Seq(OutUnits) /\ Parses(w, 0, "p", OutSize)
           U == {k \in Nat : k <= N => Good(g[k])}
<1>8. 0 \in U
  <2>1. g[0] = <<>>
    BY <1>7, <1>z, <1>n
  <2>2. Good(<<>>)
    BY ParseEmpty
  <2> QED
    BY <2>1, <2>2
<1>9. ASSUME NEW k \in U PROVE k + 1 \in U
  <2> SUFFICES ASSUME k + 1 <= N PROVE Good(g[k + 1])
    OBVIOUS
  <2>1. k \in Nat /\ Good(g[k]) /\ k + 1 \in 0 .. N /\ (k + 1) - 1 = k /\ k + 1 # 0 /\ k + 1 \in 1 .. N
    BY <1>n
  <2> DEFINE a == g[k]
             b == Video!Message(fr[k + 1])
  <2>2. g[k + 1] = a \o b
    <3>1. g[k + 1] = R(g[(k + 1) - 1], k + 1)
      BY <1>7, <2>1
    <3> QED
      BY <1>z, <2>1, <3>1
  <2>3. Good(b)
    BY <1>n, <2>1, MessageParses
  <2>4. Good(a)
    BY <2>1
  <2> HIDE DEF a, b
  <2>5. a \o b \in Seq(OutUnits) /\ Parses(a \o b, 0, "p", OutSize)
    BY <2>3, <2>4, ParseConcat, ConcatProperties
  <2> QED
    BY <2>2, <2>5
<1>10. U = Nat
  <2> HIDE DEF U
  <2>1. U \in SUBSET Nat
    BY DEF U
  <2> QED
    BY <1>8, <1>9, <2>1, Induction
<1>11. Good(g[N])
  BY <1>10, <1>n
<1> QED
  BY <1>6, <1>11

-----------------------------------------------------------------------------
(* The inductive invariant. *)
Units ==
    /\ tosend \in Seq(CmdUnits) /\ cmd \in Seq(CmdUnits)
    /\ emit \in Seq(OutUnits) /\ vout \in Seq(OutUnits)
    /\ need \in Nat /\ msg \in [tag : OutUnits \cup {"none"}, left : Nat]

(* Whose the feeder, the pipes and the decoder are. *)
Owned ==
    /\ feeder \notin {"none", "done"} => base /\ fds /\ vpid # "none"
    /\ win \in {"quit", "play"} => feeder = "none"
    /\ win = "play" => vpid = "none"
    /\ vpid = "none" => cmd = <<>> /\ vout = <<>> /\ emit = <<>>
    /\ feeder \notin {"send", "flush"} => tosend = <<>>
    /\ dec = "body" => emit = <<>>

CmdOwed == IF dec = "body" THEN need ELSE 0
OutOwed == IF win = "payload" THEN msg.left ELSE 0

CmdFramed == vpid = "up" => Parses(cmd \o tosend, CmdOwed, "b", CmdSize)
OutFramed == vpid = "up" => Parses(vout \o emit, OutOwed, "p", OutSize)

VideoInv == Units /\ Owned /\ CmdFramed /\ OutFramed

(* The invariant holds at the start, and each action keeps it. *)
LEMMA InitVideo == Video!Init => VideoInv
<1> SUFFICES ASSUME Video!Init PROVE VideoInv
  OBVIOUS
<1> USE DEF Video!Init, Video!Idle
<1>1. Units
  BY DEF Units
<1>2. Owned
  BY DEF Owned
<1>3. CmdFramed /\ OutFramed
  BY DEF CmdFramed, OutFramed
<1> QED
  BY <1>1, <1>2, <1>3 DEF VideoInv

(* Steps that leave a pipe and its two ends alone. *)
LEMMA CmdStays == CmdFramed /\ UNCHANGED <<vpid, cmd, tosend, dec, need>> => CmdFramed'
BY DEF CmdFramed, CmdOwed

LEMMA OutStays == OutFramed /\ UNCHANGED <<vpid, vout, emit, msg, win>> => OutFramed'
BY DEF OutFramed, OutOwed

(* The window moves between messages. *)
LEMMA OutMoves ==
    ASSUME OutFramed, UNCHANGED <<vpid, vout, emit>>, OutOwed = 0, OutOwed' = 0
    PROVE  OutFramed'
BY DEF OutFramed

(* The feeder between two commands; *)
LEMMA FeederQuiet ==
    ASSUME Video!VideoAssumption, VideoInv,
           Video!FeederCancelled \/ Video!FeederTop \/ Video!FeederSkips \/ Video!FeederSent \/ Video!FeederEnds
    PROVE  VideoInv'
<1>0. /\ UNCHANGED <<active, win, after, vcount, msg, vdue, base, tosend, vpid, fds, cmd, vout,
                     dec, need, emit, inited>>
      /\ feeder \notin {"none", "done"} /\ (feeder' \in {"send", "flush"} => tosend = <<>>)
      /\ (feeder' \notin {"send", "flush"} => tosend = <<>>)
  BY DEF VideoInv, Owned, Video!FeederCancelled, Video!FeederTop, Video!FeederSkips, Video!FeederSent, Video!FeederEnds, Video!window, Video!decoder
<1>1. Units'
  BY <1>0 DEF VideoInv, Units
<1>2. Owned'
  BY <1>0 DEF VideoInv, Owned
<1>3. CmdFramed' /\ OutFramed'
  BY <1>0, CmdStays, OutStays DEF VideoInv
<1> QED
  BY <1>1, <1>2, <1>3 DEF VideoInv

(* The feeder has a whole command to write. *)
LEMMA FeederBegins ==
    ASSUME Video!VideoAssumption, VideoInv, Video!FeederFetched \/ Video!FeederLast
    PROVE  VideoInv'
<1>0. /\ UNCHANGED <<active, win, after, vcount, msg, vdue, base, vpid, fds, cmd, vout,
                     dec, need, emit, inited>>
      /\ feeder \in {"fetch", "top", "last"} /\ feeder' \in {"send", "flush", "done"}
      /\ tosend' \in {Video!Segment, <<"FLUSH">>, tosend} /\ (feeder' = "done" => tosend' = tosend)
  BY DEF Video!FeederFetched, Video!FeederLast, Video!window, Video!decoder
<1>1. tosend = <<>>
  BY <1>0 DEF VideoInv, Owned
<1>2. tosend' \in Seq(CmdUnits) /\ Parses(tosend', 0, "b", CmdSize)
  <2>1. CASE tosend' = <<>>
    <3>1. Parses(<<>>, 0, "b", CmdSize)
      BY ParseEmpty
    <3> QED
      BY <2>1, <3>1
  <2>2. CASE tosend' # <<>>
    BY <1>0, <1>1, <2>2, SegmentParses
  <2> QED
    BY <2>1, <2>2
<1>3. Units'
  BY <1>0, <1>2 DEF VideoInv, Units
<1>4. Owned'
  BY <1>0, <1>1 DEF VideoInv, Owned
<1>5. CmdFramed'
  <2> SUFFICES ASSUME vpid = "up" PROVE Parses(cmd \o tosend', CmdOwed, "b", CmdSize)
    BY <1>0 DEF CmdFramed, CmdOwed
  <2>1. cmd \in Seq(CmdUnits) /\ Parses(cmd \o <<>>, CmdOwed, "b", CmdSize)
    BY <1>1 DEF VideoInv, CmdFramed, Units
  <2>2. cmd \o <<>> = cmd
    BY <2>1
  <2>3. Parses(cmd, CmdOwed, "b", CmdSize)
    BY <2>1, <2>2
  <2>4. PICK r : r = tosend'
    OBVIOUS
  <2>5. PICK n : n = CmdOwed
    OBVIOUS
  <2>6. Parses(cmd \o r, n, "b", CmdSize)
    BY <1>2, <2>1, <2>3, <2>4, <2>5, ParseConcat
  <2> QED
    BY <2>4, <2>5, <2>6
<1>6. OutFramed'
  BY <1>0, OutStays DEF VideoInv
<1> QED
  BY <1>3, <1>4, <1>5, <1>6 DEF VideoInv

(* a write, or one that fails because the decoder is gone. *)
LEMMA FeederWritesKeeps ==
    ASSUME Video!VideoAssumption, VideoInv, Video!FeederWrites
    PROVE  VideoInv'
<1>0. /\ UNCHANGED <<feeder, active, win, after, vcount, msg, vdue, base, vpid, fds, vout,
                     dec, need, emit, inited>>
      /\ feeder \in {"send", "flush"} /\ tosend # <<>>
  BY DEF Video!FeederWrites, Video!window, Video!decoder
<1>1. cmd \in Seq(CmdUnits) /\ tosend \in Seq(CmdUnits)
  BY DEF VideoInv, Units
<1>2. CASE vpid = "up"
  <2>1. cmd' = Append(cmd, Head(tosend)) /\ tosend' = Tail(tosend)
    BY <1>2 DEF Video!FeederWrites
  <2>2. cmd' \in Seq(CmdUnits) /\ tosend' \in Seq(CmdUnits) /\ cmd' \o tosend' = cmd \o tosend
    BY <1>0, <1>1, <2>1, PipeMoves
  <2>3. Units'
    BY <1>0, <2>2 DEF VideoInv, Units
  <2>4. Owned'
    BY <1>0, <1>2 DEF VideoInv, Owned
  <2>5. CmdFramed'
    BY <1>0, <2>2 DEF VideoInv, CmdFramed, CmdOwed
  <2> QED
    BY <1>0, <2>3, <2>4, <2>5, OutStays DEF VideoInv
<1>3. CASE vpid # "up"
  <2>1. cmd' = cmd /\ tosend' = <<>>
    BY <1>3 DEF Video!FeederWrites
  <2>2. Units'
    BY <1>0, <2>1 DEF VideoInv, Units
  <2>3. Owned'
    BY <1>0, <2>1 DEF VideoInv, Owned
  <2> QED
    BY <1>0, <1>3, <2>2, <2>3, OutStays DEF VideoInv, CmdFramed
<1> QED
  BY <1>2, <1>3

(* The decoder takes a unit from the pipe. *)
LEMMA CmdTaken ==
    ASSUME Video!VideoAssumption, VideoInv, vpid = "up", cmd # <<>>
    PROVE  /\ CmdOwed > 0 => Parses(Tail(cmd) \o tosend, CmdOwed - 1, "b", CmdSize)
           /\ CmdOwed = 0 => /\ Head(cmd) \in {"DECODE", "FLUSH"}
                             /\ Parses(Tail(cmd) \o tosend, CmdSize[Head(cmd)], "b", CmdSize)
           /\ Tail(cmd) \in Seq(CmdUnits)
<1>1. cmd \in Seq(CmdUnits) /\ tosend \in Seq(CmdUnits)
  BY DEF VideoInv, Units
<1>2. PICK w : w = cmd \o tosend
  OBVIOUS
<1>3. w \in Seq(CmdUnits) /\ w # <<>> /\ Head(w) = Head(cmd) /\ Tail(w) = Tail(cmd) \o tosend
      /\ Tail(cmd) \in Seq(CmdUnits)
  BY <1>1, <1>2, PipeHead
<1>4. Parses(w, CmdOwed, "b", CmdSize)
  BY <1>2 DEF VideoInv, CmdFramed
<1>5. PICK n : n = CmdOwed
  OBVIOUS
<1>6. /\ n > 0 => Parses(Tail(w), n - 1, "b", CmdSize)
      /\ n = 0 => Head(w) \in DOMAIN CmdSize /\ Parses(Tail(w), CmdSize[Head(w)], "b", CmdSize)
  BY <1>3, <1>4, <1>5, ParseHead
<1>7. DOMAIN CmdSize = {"DECODE", "FLUSH"}
  BY DEF CmdSize
<1> QED
  BY <1>3, <1>5, <1>6, <1>7

(* The window takes a unit. *)
LEMMA OutTaken ==
    ASSUME VideoInv, vpid = "up", vout # <<>>
    PROVE  /\ OutOwed > 0 => Parses(Tail(vout) \o emit, OutOwed - 1, "p", OutSize)
           /\ OutOwed = 0 => /\ Head(vout) \in OutTags
                             /\ Parses(Tail(vout) \o emit, OutSize[Head(vout)], "p", OutSize)
<1>1. vout \in Seq(OutUnits) /\ emit \in Seq(OutUnits)
  BY DEF VideoInv, Units
<1>2. PICK w : w = vout \o emit
  OBVIOUS
<1>3. w \in Seq(OutUnits) /\ w # <<>> /\ Head(w) = Head(vout) /\ Tail(w) = Tail(vout) \o emit
  BY <1>1, <1>2, PipeHead
<1>4. Parses(w, OutOwed, "p", OutSize)
  BY <1>2 DEF VideoInv, OutFramed
<1>5. PICK n : n = OutOwed
  OBVIOUS
<1>6. /\ n > 0 => Parses(Tail(w), n - 1, "p", OutSize)
      /\ n = 0 => Head(w) \in DOMAIN OutSize /\ Parses(Tail(w), OutSize[Head(w)], "p", OutSize)
  BY <1>3, <1>4, <1>5, ParseHead
<1>7. DOMAIN OutSize = OutTags
  BY DEF OutSize
<1> QED
  BY <1>3, <1>5, <1>6, <1>7

(* The decoder has whole messages to write. *)
LEMMA OutEmits ==
    ASSUME VideoInv, emit = <<>>, UNCHANGED <<vpid, vout, msg, win>>,
           emit' \in Seq(OutUnits), Parses(emit', 0, "p", OutSize)
    PROVE  OutFramed'
<1> SUFFICES ASSUME vpid = "up" PROVE Parses(vout \o emit', OutOwed, "p", OutSize)
  BY DEF OutFramed, OutOwed
<1>1. vout \in Seq(OutUnits) /\ Parses(vout \o <<>>, OutOwed, "p", OutSize)
  BY DEF VideoInv, OutFramed, Units
<1>2. vout \o <<>> = vout
  BY <1>1
<1>3. Parses(vout, OutOwed, "p", OutSize)
  BY <1>1, <1>2
<1>4. PICK r : r = emit'
  OBVIOUS
<1>5. PICK n : n = OutOwed
  OBVIOUS
<1>6. Parses(vout \o r, n, "p", OutSize)
  BY <1>1, <1>3, <1>4, <1>5, ParseConcat
<1> QED
  BY <1>4, <1>5, <1>6

(* media_decoder_run reads a command, *)
LEMMA DecoderCommandKeeps ==
    ASSUME Video!VideoAssumption, VideoInv, Video!DecoderCommand
    PROVE  VideoInv'
<1>0. /\ UNCHANGED <<active, win, after, vcount, msg, vdue, base, feeder, seg, tosend, vpid, fds, vout, inited>>
      /\ vpid = "up" /\ dec = "cmd" /\ emit = <<>> /\ cmd # <<>> /\ cmd' = Tail(cmd)
  BY DEF Video!DecoderCommand, Video!window, Video!feeder
<1>1. /\ Head(cmd) \in {"DECODE", "FLUSH"} /\ cmd' \in Seq(CmdUnits)
      /\ Parses(cmd' \o tosend, CmdSize[Head(cmd)], "b", CmdSize)
  BY <1>0, CmdTaken DEF CmdOwed
<1>2. CmdSize["DECODE"] = Body /\ CmdSize["FLUSH"] = 0 /\ Body \in Nat
  BY SegmentParses
<1>3. CASE Head(cmd) = "DECODE"
  <2>1. dec' = "body" /\ need' = Body /\ emit' = emit
    BY <1>3 DEF Video!DecoderCommand
  <2>2. Units'
    BY <1>0, <1>1, <1>2, <2>1 DEF VideoInv, Units
  <2>3. Owned'
    BY <1>0, <2>1 DEF VideoInv, Owned
  <2>4. CmdFramed'
    BY <1>0, <1>1, <1>2, <1>3, <2>1 DEF CmdFramed, CmdOwed
  <2>5. OutFramed'
    BY <1>0, <2>1, OutStays DEF VideoInv
  <2> QED
    BY <2>2, <2>3, <2>4, <2>5 DEF VideoInv
<1>4. CASE Head(cmd) = "FLUSH"
  <2>1. PICK fr \in Decodes \cup {<<>>} :
            emit' = (IF inited THEN Video!Messages(fr) ELSE <<>>) \o Video!Message("EOS") /\ UNCHANGED <<dec, need>>
    BY <1>4 DEF Video!DecoderCommand
  <2>2. fr \in Seq({"V", "A"})
    <3>1. Decodes \subseteq Seq({"V", "A"}) /\ <<>> \in Seq({"V", "A"})
      BY DEF Video!VideoAssumption
    <3> QED
      BY <3>1
  <2>3. PICK a : a = IF inited THEN Video!Messages(fr) ELSE <<>>
    OBVIOUS
  <2>4. PICK b : b = Video!Message("EOS")
    OBVIOUS
  <2>5. a \in Seq(OutUnits) /\ Parses(a, 0, "p", OutSize)
    BY <2>2, <2>3, MessagesParse, ParseEmpty
  <2>6. b \in Seq(OutUnits) /\ Parses(b, 0, "p", OutSize)
    BY <2>4, MessageParses DEF OutTags
  <2>7. a \o b \in Seq(OutUnits) /\ Parses(a \o b, 0, "p", OutSize)
    BY <2>5, <2>6, ParseConcat, ConcatProperties
  <2>8. emit' \in Seq(OutUnits) /\ Parses(emit', 0, "p", OutSize) /\ UNCHANGED <<dec, need>>
    BY <2>1, <2>3, <2>4, <2>7
  <2>9. Units'
    BY <1>0, <1>1, <2>8 DEF VideoInv, Units
  <2>10. Owned'
    BY <1>0, <2>8 DEF VideoInv, Owned
  <2>11. CmdFramed'
    BY <1>0, <1>1, <1>2, <1>4, <2>8 DEF CmdFramed, CmdOwed
  <2>12. OutFramed'
    BY <1>0, <2>8, OutEmits
  <2> QED
    BY <2>9, <2>10, <2>11, <2>12 DEF VideoInv
<1> QED
  BY <1>1, <1>3, <1>4

(* the body of a segment, *)
LEMMA DecoderReadsKeeps ==
    ASSUME Video!VideoAssumption, VideoInv, Video!DecoderReads
    PROVE  VideoInv'
<1>0. /\ UNCHANGED <<active, win, after, vcount, msg, vdue, base, feeder, seg, tosend, vpid, fds, vout,
                     dec, emit, inited>>
      /\ vpid = "up" /\ dec = "body" /\ need > 0 /\ cmd # <<>> /\ cmd' = Tail(cmd) /\ need' = need - 1
  BY DEF Video!DecoderReads, Video!window, Video!feeder
<1>n. need \in Nat
  BY DEF VideoInv, Units
<1>1. cmd' \in Seq(CmdUnits) /\ Parses(cmd' \o tosend, need', "b", CmdSize)
  BY <1>0, CmdTaken DEF CmdOwed
<1>2. Units'
  BY <1>0, <1>n, <1>1 DEF VideoInv, Units
<1>3. Owned'
  BY <1>0 DEF VideoInv, Owned
<1>4. CmdFramed'
  BY <1>0, <1>1 DEF CmdFramed, CmdOwed
<1> QED
  BY <1>0, <1>2, <1>3, <1>4, OutStays DEF VideoInv

(* decodes it, perhaps with an error, *)
LEMMA DecodeSegmentKeeps ==
    ASSUME Video!VideoAssumption, VideoInv, Video!DecodeSegment
    PROVE  VideoInv'
<1>0. /\ UNCHANGED <<active, win, after, vcount, msg, vdue, base, feeder, seg, tosend, vpid, fds, cmd, vout, need>>
      /\ vpid = "up" /\ dec = "body" /\ need = 0 /\ dec' = "cmd"
  BY DEF Video!DecodeSegment, Video!window, Video!feeder
<1>1. emit = <<>>
  BY <1>0 DEF VideoInv, Owned
<1>2. emit' \in Seq(OutUnits) /\ Parses(emit', 0, "p", OutSize)
  <2>1. CASE emit' = Video!Message("ERROR")
    BY <2>1, MessageParses DEF OutTags
  <2>2. ASSUME NEW fr \in Decodes, emit' = (IF inited THEN <<>> ELSE Video!Message("INFO")) \o Video!Messages(fr)
        PROVE  emit' \in Seq(OutUnits) /\ Parses(emit', 0, "p", OutSize)
    <3>1. fr \in Seq({"V", "A"})
      BY DEF Video!VideoAssumption
    <3>2. PICK a : a = IF inited THEN <<>> ELSE Video!Message("INFO")
      OBVIOUS
    <3>3. PICK b : b = Video!Messages(fr)
      OBVIOUS
    <3>4. a \in Seq(OutUnits) /\ Parses(a, 0, "p", OutSize)
      BY <3>2, MessageParses, ParseEmpty DEF OutTags
    <3>5. b \in Seq(OutUnits) /\ Parses(b, 0, "p", OutSize)
      BY <3>1, <3>3, MessagesParse
    <3>6. a \o b \in Seq(OutUnits) /\ Parses(a \o b, 0, "p", OutSize)
      BY <3>4, <3>5, ParseConcat, ConcatProperties
    <3> QED
      BY <2>2, <3>2, <3>3, <3>6
  <2> QED
    BY <2>1, <2>2 DEF Video!DecodeSegment
<1>3. Units'
  BY <1>0, <1>2 DEF VideoInv, Units
<1>4. Owned'
  BY <1>0 DEF VideoInv, Owned
<1>5. CmdFramed'
  BY <1>0 DEF VideoInv, CmdFramed, CmdOwed
<1>6. OutFramed'
  BY <1>0, <1>1, <1>2, OutEmits
<1> QED
  BY <1>3, <1>4, <1>5, <1>6 DEF VideoInv

(* and writes. *)
LEMMA DecoderWritesKeeps ==
    ASSUME Video!VideoAssumption, VideoInv, Video!DecoderWrites
    PROVE  VideoInv'
<1>0. /\ UNCHANGED <<active, win, after, vcount, msg, vdue, base, feeder, seg, tosend, vpid, fds, cmd,
                     dec, need, inited>>
      /\ vpid = "up" /\ emit # <<>> /\ vout' = Append(vout, Head(emit)) /\ emit' = Tail(emit)
  BY DEF Video!DecoderWrites, Video!window, Video!feeder
<1>1. vout \in Seq(OutUnits) /\ emit \in Seq(OutUnits)
  BY DEF VideoInv, Units
<1>2. vout' \in Seq(OutUnits) /\ emit' \in Seq(OutUnits) /\ vout' \o emit' = vout \o emit
  BY <1>0, <1>1, PipeMoves
<1>3. Units'
  BY <1>0, <1>2 DEF VideoInv, Units
<1>4. Owned'
  BY <1>0 DEF VideoInv, Owned
<1>5. OutFramed'
  BY <1>0, <1>2 DEF VideoInv, OutFramed, OutOwed
<1> QED
  BY <1>0, <1>3, <1>4, <1>5, CmdStays DEF VideoInv

(* A decoder that dies leaves nothing to agree on. *)
LEMMA DecoderDiesKeeps ==
    ASSUME VideoInv, Video!DecoderDies
    PROVE  VideoInv'
<1>0. /\ UNCHANGED <<active, win, after, vcount, msg, vdue, base, feeder, seg, tosend, fds, cmd, vout>>
      /\ vpid = "up" /\ vpid' = "dead" /\ dec' = "none" /\ need' = 0 /\ emit' = <<>>
  BY DEF Video!DecoderDies, Video!window, Video!feeder
<1>1. Units'
  BY <1>0 DEF VideoInv, Units
<1>2. Owned'
  BY <1>0 DEF VideoInv, Owned
<1> QED
  BY <1>0, <1>1, <1>2 DEF VideoInv, CmdFramed, OutFramed

(* The window reads a tag *)
LEMMA ReadTagKeeps ==
    ASSUME VideoInv, Video!ReadTag
    PROVE  VideoInv'
<1>0. /\ UNCHANGED <<after, vdue, base, feeder, seg, tosend, vpid, fds, cmd, dec, need, emit, inited>>
      /\ win \in {"loop", "drain"} /\ vout # <<>> /\ vout' = Tail(vout)
  BY DEF Video!ReadTag, Video!PollIn, Video!feeder, Video!decoder
<1>1. vout \in Seq(OutUnits) /\ Head(vout) \in OutUnits /\ Tail(vout) \in Seq(OutUnits)
  BY <1>0 DEF VideoInv, Units
<1>2. vpid = "up" => Head(vout) \in OutTags /\ Parses(vout' \o emit, OutSize[Head(vout)], "p", OutSize)
  BY <1>0, OutTaken DEF OutOwed
<1>3. Head(vout) \in OutTags => OutSize[Head(vout)] = Video!PayloadOf(Head(vout))
  BY DEF OutSize
<1>4. CASE Head(vout) = "EOS"
  <2>1. win' = "loop" /\ msg' = msg
    BY <1>4 DEF Video!ReadTag
  <2>2. Video!PayloadOf("EOS") = 0
    BY DEF Video!PayloadOf
  <2>3. Units'
    BY <1>0, <1>1, <2>1 DEF VideoInv, Units
  <2>4. Owned'
    BY <1>0, <2>1 DEF VideoInv, Owned
  <2>5. OutFramed'
    BY <1>0, <1>2, <1>3, <1>4, <2>1, <2>2 DEF OutFramed, OutOwed
  <2> QED
    BY <1>0, <2>3, <2>4, <2>5, CmdStays DEF VideoInv
<1>5. CASE Head(vout) # "EOS"
  <2>1. win' = "payload" /\ msg' = [tag |-> Head(vout), left |-> Video!PayloadOf(Head(vout))]
    BY <1>5 DEF Video!ReadTag
  <2>2. Video!PayloadOf(Head(vout)) \in Nat
    BY DEF Video!PayloadOf
  <2>3. Units'
    BY <1>0, <1>1, <2>1, <2>2 DEF VideoInv, Units
  <2>4. Owned'
    BY <1>0, <2>1 DEF VideoInv, Owned
  <2>5. OutFramed'
    BY <1>0, <1>2, <1>3, <2>1 DEF OutFramed, OutOwed
  <2> QED
    BY <1>0, <2>3, <2>4, <2>5, CmdStays DEF VideoInv
<1> QED
  BY <1>4, <1>5

(* and the payload. *)
LEMMA ReadPayloadKeeps ==
    ASSUME VideoInv, Video!ReadPayload
    PROVE  VideoInv'
<1>0. /\ UNCHANGED <<active, win, after, vcount, vdue, base, feeder, seg, tosend, vpid, fds, cmd,
                     dec, need, emit, inited>>
      /\ win = "payload" /\ msg.left > 0 /\ vout # <<>> /\ vout' = Tail(vout)
      /\ msg' = [msg EXCEPT !.left = @ - 1]
  BY DEF Video!ReadPayload, Video!feeder, Video!decoder
<1>1. /\ msg \in [tag : OutUnits \cup {"none"}, left : Nat] /\ vout \in Seq(OutUnits)
      /\ Tail(vout) \in Seq(OutUnits)
  BY <1>0 DEF VideoInv, Units
<1>2. msg' \in [tag : OutUnits \cup {"none"}, left : Nat] /\ msg'.left = msg.left - 1
  BY <1>0, <1>1
<1>3. vpid = "up" => Parses(vout' \o emit, msg.left - 1, "p", OutSize)
  BY <1>0, OutTaken DEF OutOwed
<1>4. Units'
  BY <1>0, <1>1, <1>2 DEF VideoInv, Units
<1>5. Owned'
  BY <1>0 DEF VideoInv, Owned
<1>6. OutFramed'
  BY <1>0, <1>2, <1>3 DEF OutFramed, OutOwed
<1> QED
  BY <1>0, <1>4, <1>5, <1>6, CmdStays DEF VideoInv

(* The window between two messages. *)
LEMMA WindowKeeps ==
    ASSUME VideoInv,
           \/ Video!ReadCut \/ Video!ReadDone \/ Video!DrainEnds \/ Video!FrameDue \/ Video!Click \/ Video!Leave
           \/ Video!StopBegins \/ Video!PlayFails
    PROVE  VideoInv'
<1>0. /\ UNCHANGED <<base, feeder, seg, tosend, vpid, fds, cmd, vout, dec, need, emit, inited>>
      /\ msg' \in {msg, [tag |-> "none", left |-> 0]}
  BY DEF Video!ReadCut, Video!ReadDone, Video!DrainEnds, Video!FrameDue, Video!Click, Video!Leave, Video!StopBegins, Video!PlayFails, Video!feeder, Video!decoder
<1>1. /\ win' \notin {"payload", "play"} /\ (win' = "quit" => feeder = "none")
      /\ (vpid = "up" => win # "payload" \/ msg.left = 0)
  BY DEF Video!ReadCut, Video!ReadDone, Video!DrainEnds, Video!FrameDue, Video!Click, Video!Leave, Video!StopBegins, Video!PlayFails
<1>2. Units'
  BY <1>0 DEF VideoInv, Units
<1>3. Owned'
  BY <1>0, <1>1 DEF VideoInv, Owned
<1>4. OutFramed'
  BY <1>0, <1>1 DEF VideoInv, OutFramed, OutOwed
<1> QED
  BY <1>0, <1>2, <1>3, <1>4, CmdStays DEF VideoInv

(* video_stop joins the feeder *)
LEMMA JoinKeeps ==
    ASSUME VideoInv, Video!Join
    PROVE  VideoInv'
<1>0. /\ UNCHANGED <<active, after, vcount, msg, vdue, base, tosend, vpid, fds, cmd, vout,
                     dec, need, emit, inited>>
      /\ win = "join" /\ feeder = "done" /\ feeder' = "none" /\ win' = "quit"
  BY DEF Video!Join, Video!decoder
<1>1. Units'
  BY <1>0 DEF VideoInv, Units
<1>2. Owned'
  BY <1>0 DEF VideoInv, Owned
<1>3. OutFramed'
  BY <1>0 DEF VideoInv, OutFramed, OutOwed
<1> QED
  BY <1>0, <1>1, <1>2, <1>3, CmdStays DEF VideoInv

(* and closes the pipes; *)
LEMMA QuitKeeps ==
    ASSUME VideoInv, Video!Quit
    PROVE  VideoInv'
<1>0. /\ UNCHANGED <<feeder, seg, tosend>> /\ win = "quit"
      /\ msg' = [tag |-> "none", left |-> 0] /\ vpid' = "none" /\ cmd' = <<>> /\ vout' = <<>>
      /\ dec' = "none" /\ need' = 0 /\ emit' = <<>>
  BY DEF Video!Quit, Video!feeder
<1>1. feeder = "none"
  BY <1>0 DEF VideoInv, Owned
<1>2. Units'
  BY <1>0 DEF VideoInv, Units
<1>3. Owned'
  BY <1>0, <1>1 DEF VideoInv, Owned
<1> QED
  BY <1>0, <1>2, <1>3 DEF VideoInv, CmdFramed, OutFramed

(* video_play starts with empty ones. *)
LEMMA PlayKeeps ==
    ASSUME VideoInv, Video!PlayStarts \/ Video!PlayAborts
    PROVE  VideoInv'
<1>0. /\ UNCHANGED <<msg, tosend, cmd, vout, need, emit>> /\ win = "play" /\ win' \in {"loop", "stop"}
      /\ vpid' = "up" /\ fds' = TRUE /\ dec' = "cmd"
  BY DEF Video!PlayStarts, Video!PlayAborts, Video!feeder
<1>1. feeder = "none" /\ vpid = "none"
  BY <1>0 DEF VideoInv, Owned
<1>t. feeder' \in {"top", "done", "none"} /\ (feeder' = "top" => base')
  <2>1. CASE Video!PlayStarts
    <3>1. base' \in BOOLEAN /\ feeder' = IF base' THEN "top" ELSE "done"
      BY <2>1 DEF Video!PlayStarts
    <3> QED
      BY <3>1
  <2>2. CASE Video!PlayAborts
    <3>1. feeder' = "none"
      BY <1>1, <2>2 DEF Video!PlayAborts, Video!feeder
    <3> QED
      BY <3>1
  <2> QED
    BY <2>1, <2>2
<1>2. cmd = <<>> /\ vout = <<>> /\ emit = <<>> /\ tosend = <<>>
  BY <1>1 DEF VideoInv, Owned
<1>3. Units'
  BY <1>0 DEF VideoInv, Units
<1>4. Owned'
  BY <1>0, <1>1, <1>2, <1>t DEF Owned
<1>5. <<>> \o <<>> = <<>>
  OBVIOUS
<1>6. CmdFramed'
  <2>1. Parses(<<>>, 0, "b", CmdSize)
    BY ParseEmpty
  <2> QED
    BY <1>0, <1>2, <1>5, <2>1 DEF CmdFramed, CmdOwed
<1>7. OutFramed'
  <2>1. Parses(<<>>, 0, "p", OutSize)
    BY ParseEmpty
  <2> QED
    BY <1>0, <1>2, <1>5, <2>1 DEF OutFramed, OutOwed
<1> QED
  BY <1>3, <1>4, <1>6, <1>7 DEF VideoInv

(* The invariant is strong enough. *)
LEMMA VideoHolds ==
    ASSUME Video!VideoAssumption, VideoInv
    PROVE  Video!FeederOwns /\ Video!Framed
<1>1. Video!FeederOwns
  BY DEF Video!FeederOwns, VideoInv, Owned
<1>2. ASSUME vpid = "up", dec = "cmd", cmd # <<>> PROVE Head(cmd) # "b"
  <2>1. Head(cmd) \in {"DECODE", "FLUSH"}
    BY <1>2, CmdTaken DEF CmdOwed
  <2> QED
    BY <2>1
<1>3. ASSUME vpid = "up", win \in {"loop", "drain"}, vout # <<>> PROVE Head(vout) # "p"
  <2>1. Head(vout) \in OutTags
    BY <1>3, OutTaken DEF OutOwed
  <2> QED
    BY <2>1 DEF OutTags
<1> QED
  BY <1>1, <1>2, <1>3 DEF Video!Framed

(* For the specification of the player: *)
LEMMA VideoOwned ==
    ASSUME Video!VideoAssumption
    PROVE  Video!Spec => [](Video!FeederOwns /\ Video!Framed)
<1>1. VideoInv /\ [Video!Next]_(Video!vars) => VideoInv'
  <2> SUFFICES ASSUME VideoInv, [Video!Next]_(Video!vars) PROVE VideoInv'
    OBVIOUS
  <2>1. CASE Video!Feeder
    BY <2>1, FeederQuiet, FeederBegins, FeederWritesKeeps DEF Video!Feeder
  <2>2. CASE Video!Decoder
    BY <2>2, DecoderCommandKeeps, DecoderReadsKeeps, DecodeSegmentKeeps, DecoderWritesKeeps DEF Video!Decoder
  <2>3. CASE Video!Reading
    BY <2>3, ReadTagKeeps, ReadPayloadKeeps, WindowKeeps DEF Video!Reading
  <2>4. CASE Video!Stopping
    BY <2>4, WindowKeeps, JoinKeeps, QuitKeeps DEF Video!Stopping
  <2>5. CASE UNCHANGED Video!vars
    BY <2>5, CmdStays, OutStays DEF Video!vars, Video!window, Video!feeder, Video!decoder, VideoInv, Units, Owned
  <2> QED
    BY <2>1, <2>2, <2>3, <2>4, <2>5, DecoderDiesKeeps, WindowKeeps, PlayKeeps DEF Video!Next
<1>2. VideoInv => Video!FeederOwns /\ Video!Framed
  BY VideoHolds
<1> QED
  BY <1>1, <1>2, InitVideo, PTL DEF Video!Spec

(***************************************************************************)
(* AudioSink.                                                              *)
(***************************************************************************)

(* The children that are not reaped are the one audio_pid names. *)
SinkInv ==
    /\ kids \in [{1, 2} -> [player : Nat, format : Formats \cup {"none"}, alive : BOOLEAN]]
    /\ idx \in Nat /\ stream \in Formats
    /\ pid \in {0, 1, 2}
    /\ \A p \in {1, 2} : kids[p] # Audio!NoKid => p = pid

(* After a stop there is no child. *)
LEMMA Stopped ==
    ASSUME SinkInv
    PROVE  /\ Audio!KidsAfterStop \in [{1, 2} -> [player : Nat, format : Formats \cup {"none"}, alive : BOOLEAN]]
           /\ \A p \in {1, 2} : Audio!KidsAfterStop[p] = Audio!NoKid
<1>1. Audio!NoKid \in [player : Nat, format : Formats \cup {"none"}, alive : BOOLEAN]
  BY DEF Audio!NoKid
<1> QED
  BY <1>1 DEF SinkInv, Audio!KidsAfterStop

(* A new player is the only child. *)
LEMMA SpawnKeeps ==
    ASSUME SinkInv, Audio!SpawnFrame
    PROVE  SinkInv'
<1> DEFINE K == [player : Nat, format : Formats \cup {"none"}, alive : BOOLEAN]
<1>0. UNCHANGED <<idx, stream>> /\ idx \in Nat /\ stream \in Formats
  BY DEF Audio!SpawnFrame, SinkInv
<1>1. CASE waiting
  <2>1. pid' = 0 /\ kids' = Audio!KidsAfterStop
    BY <1>1 DEF Audio!SpawnFrame
  <2> QED
    BY <1>0, <2>1, Stopped DEF SinkInv
<1>2. CASE ~waiting
  <2>1. PICK p \in Audio!FreePids(Audio!KidsAfterStop) :
            /\ pid' = p
            /\ kids' = [Audio!KidsAfterStop EXCEPT ![p] = [player |-> idx, format |-> stream, alive |-> TRUE]]
    BY <1>2 DEF Audio!SpawnFrame
  <2>2. p \in {1, 2}
    BY DEF Audio!FreePids
  <2>3. PICK ks : ks = Audio!KidsAfterStop
    OBVIOUS
  <2>4. ks \in [{1, 2} -> K] /\ \A q \in {1, 2} : ks[q] = Audio!NoKid
    BY <2>3, Stopped
  <2>5. PICK k : k = [player |-> idx, format |-> stream, alive |-> TRUE]
    OBVIOUS
  <2>6. k \in K
    BY <1>0, <2>5
  <2>7. kids' = [ks EXCEPT ![p] = k]
    BY <2>1, <2>3, <2>5
  <2>8. kids' \in [{1, 2} -> K] /\ \A q \in {1, 2} : q # p => kids'[q] = Audio!NoKid
    BY <2>2, <2>4, <2>6, <2>7
  <2> QED
    BY <1>0, <2>1, <2>2, <2>8 DEF SinkInv
<1> QED
  BY <1>1, <1>2

(* For the specification of the sink: *)
LEMMA SinkAlone ==
    ASSUME Audio!SinkAssumption
    PROVE  Audio!Spec => []Audio!OneSink
<1>1. Audio!Init => SinkInv
  BY DEF Audio!Init, SinkInv, Audio!NoKid
<1>2. SinkInv /\ [Audio!Next]_(Audio!vars) => SinkInv'
  <2> SUFFICES ASSUME SinkInv, [Audio!Next]_(Audio!vars) PROVE SinkInv'
    OBVIOUS
  <2>1. CASE Audio!WriteFrame
    <3>1. CASE kids[pid].alive
      BY <2>1, <3>1 DEF Audio!WriteFrame, SinkInv
    <3>2. CASE ~kids[pid].alive
      <4>1. pid' = 0 /\ kids' = Audio!KidsAfterStop /\ idx' = (idx + 1) % 3 /\ stream' = stream
        BY <2>1, <3>2 DEF Audio!WriteFrame
      <4>2. idx' \in Nat
        BY <4>1 DEF SinkInv
      <4> QED
        BY <4>1, <4>2, Stopped DEF SinkInv
    <3> QED
      BY <3>1, <3>2
  <2>2. CASE Audio!SpawnFrame
    BY <2>2, SpawnKeeps
  <2>3. CASE Audio!BackoffEnds \/ Audio!NewFormat \/ UNCHANGED Audio!vars
    BY <2>3 DEF Audio!BackoffEnds, Audio!NewFormat, Audio!vars, SinkInv
  <2>4. CASE Audio!AudioStop
    BY <2>4, Stopped DEF Audio!AudioStop, SinkInv
  <2>5. ASSUME NEW p \in {1, 2}, Audio!SinkDies(p) \/ Audio!SinkKilled(p) PROVE SinkInv'
    <3>1. kids' = [kids EXCEPT ![p].alive = FALSE] /\ UNCHANGED <<pid, idx, stream>> /\ kids[p].alive
      BY <2>5 DEF Audio!SinkDies, Audio!SinkKilled
    <3>2. kids[p] # Audio!NoKid
      BY <3>1 DEF Audio!NoKid
    <3>3. p = pid
      BY <3>2 DEF SinkInv
    <3>4. \A q \in {1, 2} : q # p => kids'[q] = kids[q]
      BY <3>1 DEF SinkInv
    <3>5. kids' \in [{1, 2} -> [player : Nat, format : Formats \cup {"none"}, alive : BOOLEAN]]
      BY <3>1, ZenonT(40) DEF SinkInv
    <3>6. \A q \in {1, 2} : kids'[q] # Audio!NoKid => q = pid
      BY <3>3, <3>4 DEF SinkInv
    <3> QED
      BY <3>1, <3>5, <3>6 DEF SinkInv
  <2> QED
    BY <2>1, <2>2, <2>3, <2>4, <2>5 DEF Audio!Next, Audio!Frame
<1>3. SinkInv => Audio!OneSink
  <2> SUFFICES ASSUME SinkInv PROVE Audio!OneSink
    OBVIOUS
  <2>1. \A p \in {1, 2} : kids[p].alive => p = pid
    BY DEF SinkInv, Audio!NoKid
  <2> QED
    BY <2>1 DEF Audio!OneSink
<1> QED
  BY <1>1, <1>2, <1>3, PTL DEF Audio!Spec

-----------------------------------------------------------------------------
(* The feeder never outlives the pipes and the base URL it uses, the decoder never
   takes segment bytes for a command nor the window pixels for a tag, and at most one
   audio player is alive (video_stop, media_decoder_run, video_read_frame, audio_stop),
   for playlists, segments, pipes and decoded sequences of any length. *)
THEOREM MediaSafe ==
    ASSUME Video!VideoAssumption, Audio!SinkAssumption
    PROVE  Video!Spec /\ Audio!Spec => []MediaOwned
BY VideoOwned, SinkAlone, PTL DEF MediaOwned

(***************************************************************************)
(* WsPump.  Whatever curl and the socket hold of them, the frames on their *)
(* way follow the last one of the message that is being put together.      *)
(***************************************************************************)

FrameAt(m, k) == [msg |-> m, at |-> k, size |-> Msgs[m][k], last |-> (k = Len(Msgs[m]))]
FrameSet == {FrameAt(m, k) : m \in 1 .. Len(Msgs), k \in Nat \ {0}}
Sendable == {f \in FrameSet : f.at <= Len(Msgs[f.msg])}
FrameAfter(f) == IF f.at = Len(Msgs[f.msg]) THEN FrameAt(f.msg + 1, 1) ELSE FrameAt(f.msg, f.at + 1)

Chained(s, f) ==
    /\ s \in Seq(Sendable)
    /\ s # <<>> => s[1] = f
    /\ \A i \in 1 .. Len(s) - 1 : s[i + 1] = FrameAfter(s[i])

(* What frames and messages are made of. *)
LEMMA FrameIs ==
    ASSUME NEW m, NEW k
    PROVE  FrameAt(m, k).msg = m /\ FrameAt(m, k).at = k /\ FrameAt(m, k).size = Msgs[m][k]
           /\ (FrameAt(m, k).last <=> k = Len(Msgs[m]))
BY DEF FrameAt

LEMMA MsgIs ==
    ASSUME Socket!PumpAssumption, NEW m \in 1 .. Len(Msgs)
    PROVE  Msgs[m] \in Seq(Nat) /\ Len(Msgs[m]) \in Nat /\ Len(Msgs[m]) > 0
           /\ \A k \in 1 .. Len(Msgs[m]) : Msgs[m][k] \in Nat /\ FrameAt(m, k) \in Sendable
<1>1. Msgs[m] \in Seq(Nat) /\ Msgs[m] # <<>>
  BY DEF Socket!PumpAssumption
<1>2. Len(Msgs[m]) \in Nat /\ Len(Msgs[m]) > 0
  BY <1>1
<1>3. ASSUME NEW k \in 1 .. Len(Msgs[m]) PROVE Msgs[m][k] \in Nat /\ FrameAt(m, k) \in Sendable
  <2>1. Msgs[m][k] \in Nat /\ k \in Nat \ {0} /\ k <= Len(Msgs[m])
    BY <1>1, <1>2
  <2>2. FrameAt(m, k) \in FrameSet
    BY <2>1 DEF FrameSet
  <2> QED
    BY <2>1, <2>2, FrameIs DEF Sendable
<1> QED
  BY <1>1, <1>2, <1>3

LEMMA SendableIs ==
    ASSUME Socket!PumpAssumption, NEW f \in Sendable
    PROVE  \E m \in 1 .. Len(Msgs) : \E k \in 1 .. Len(Msgs[m]) : f = FrameAt(m, k)
<1>1. PICK m \in 1 .. Len(Msgs), k \in Nat \ {0} : f = FrameAt(m, k)
  BY DEF Sendable, FrameSet
<1>2. f.at = k /\ f.msg = m
  BY <1>1, FrameIs
<1>3. k <= Len(Msgs[m])
  BY <1>2 DEF Sendable
<1>4. Len(Msgs[m]) \in Nat
  BY MsgIs
<1>5. k \in 1 .. Len(Msgs[m])
  BY <1>3, <1>4
<1> QED
  BY <1>1, <1>5

(* The frame after another. *)
LEMMA AfterIs ==
    ASSUME NEW m, NEW k
    PROVE  FrameAfter(FrameAt(m, k)) = IF k = Len(Msgs[m]) THEN FrameAt(m + 1, 1) ELSE FrameAt(m, k + 1)
BY FrameIs DEF FrameAfter

(* A chain that goes on where another ends. *)
LEMMA ChainConcat ==
    ASSUME NEW f, NEW g, NEW a, NEW b, Chained(a, f), Chained(b, g),
           a # <<>> /\ b # <<>> => FrameAfter(a[Len(a)]) = g, a = <<>> => f = g
    PROVE  Chained(a \o b, f)
<1>1. a \in Seq(Sendable) /\ b \in Seq(Sendable)
  BY DEF Chained
<1> DEFINE w == a \o b
           A == Len(a)
           B == Len(b)
<1>2. /\ A \in Nat /\ B \in Nat /\ w \in Seq(Sendable) /\ Len(w) = A + B
      /\ \A i \in 1 .. A + B : w[i] = IF i <= A THEN a[i] ELSE b[i - A]
  BY <1>1, ConcatProperties
<1>3. (A = 0 <=> a = <<>>) /\ (B = 0 <=> b = <<>>) /\ (A + B = 0 <=> w = <<>>)
  BY <1>1, <1>2
<1>4. /\ (A > 0 => a[1] = f) /\ \A i \in 1 .. A - 1 : a[i + 1] = FrameAfter(a[i])
      /\ (B > 0 => b[1] = g) /\ \A i \in 1 .. B - 1 : b[i + 1] = FrameAfter(b[i])
  BY <1>2, <1>3 DEF Chained
<1>5. A > 0 /\ B > 0 => FrameAfter(a[A]) = g
  BY <1>2, <1>3
<1>6. A = 0 => f = g
  BY <1>3
<1> HIDE DEF w, A, B
<1>7. A + B > 0 => w[1] = f
  <2> SUFFICES ASSUME A + B > 0 PROVE w[1] = f
    OBVIOUS
  <2>1. w[1] = IF 1 <= A THEN a[1] ELSE b[1 - A]
    BY <1>2
  <2>2. CASE A = 0
    <3>1. 1 - A = 1 /\ ~(1 <= A) /\ B > 0
      BY <1>2, <2>2
    <3> QED
      BY <1>4, <1>6, <2>1, <2>2, <3>1
  <2>3. CASE A # 0
    BY <1>2, <1>4, <2>1, <2>3
  <2> QED
    BY <2>2, <2>3
<1>8. ASSUME NEW i \in 1 .. (A + B) - 1 PROVE w[i + 1] = FrameAfter(w[i])
  <2>0. i \in 1 .. A + B /\ i + 1 \in 1 .. A + B
    BY <1>2
  <2>v. w[i] = IF i <= A THEN a[i] ELSE b[i - A]
    BY <1>2, <2>0
  <2>w. w[i + 1] = IF i + 1 <= A THEN a[i + 1] ELSE b[(i + 1) - A]
    BY <1>2, <2>0
  <2>1. CASE i + 1 <= A
    <3>1. i <= A /\ i \in 1 .. A - 1
      BY <1>2, <2>1
    <3> QED
      BY <1>4, <2>v, <2>w, <2>1, <3>1
  <2>2. CASE i = A
    <3>1. i <= A /\ ~(i + 1 <= A) /\ (i + 1) - A = 1 /\ A > 0 /\ B > 0
      BY <1>2, <2>2
    <3> QED
      BY <1>4, <1>5, <2>v, <2>w, <2>2, <3>1
  <2>3. CASE i > A
    <3>1. ~(i <= A) /\ ~(i + 1 <= A) /\ (i + 1) - A = (i - A) + 1 /\ i - A \in 1 .. B - 1
      BY <1>2, <2>3
    <3> QED
      BY <1>4, <2>v, <2>w, <3>1
  <2> QED
    BY <1>2, <2>1, <2>2, <2>3
<1>9. Chained(w, f)
  BY <1>2, <1>3, <1>7, <1>8 DEF Chained
<1> QED
  BY <1>9 DEF w

(* A chain without its first frame. *)
LEMMA ChainTail ==
    ASSUME NEW f, NEW s, Chained(s, f), s # <<>>
    PROVE  Head(s) = f /\ f \in Sendable /\ Chained(Tail(s), FrameAfter(f))
<1>1. s \in Seq(Sendable) /\ s[1] = f /\ \A i \in 1 .. Len(s) - 1 : s[i + 1] = FrameAfter(s[i])
  BY DEF Chained
<1> DEFINE q == Tail(s)
<1>2. /\ Len(s) \in Nat /\ Len(s) > 0 /\ q \in Seq(Sendable) /\ Len(q) = Len(s) - 1
      /\ \A i \in 1 .. Len(s) - 1 : q[i] = s[i + 1]
  BY <1>1
<1>3. Head(s) = f /\ f \in Sendable
  BY <1>1, <1>2
<1> HIDE DEF q
<1>4. q # <<>> => q[1] = FrameAfter(f)
  <2> SUFFICES ASSUME q # <<>> PROVE q[1] = FrameAfter(f)
    OBVIOUS
  <2>1. 1 \in 1 .. Len(s) - 1
    BY <1>2
  <2> QED
    BY <1>1, <1>2, <2>1
<1>5. ASSUME NEW i \in 1 .. Len(q) - 1 PROVE q[i + 1] = FrameAfter(q[i])
  <2>1. i \in 1 .. Len(s) - 1 /\ i + 1 \in 1 .. Len(s) - 1
    BY <1>2
  <2> QED
    BY <1>1, <1>2, <2>1
<1>6. Chained(q, FrameAfter(f))
  BY <1>2, <1>4, <1>5 DEF Chained
<1> QED
  BY <1>3, <1>6 DEF q

(* The frames of a message are a chain. *)
LEMMA FramesAre ==
    ASSUME Socket!PumpAssumption, NEW m \in 1 .. Len(Msgs)
    PROVE  /\ Socket!Frames(m) \in Seq(Sendable) /\ Len(Socket!Frames(m)) = Len(Msgs[m])
           /\ \A k \in 1 .. Len(Msgs[m]) : Socket!Frames(m)[k] = FrameAt(m, k)
           /\ Chained(Socket!Frames(m), FrameAt(m, 1))
<1> DEFINE L == Len(Msgs[m])
           s == Socket!Frames(m)
<1>0. L \in Nat /\ L > 0 /\ \A k \in 1 .. L : FrameAt(m, k) \in Sendable
  BY MsgIs
<1>1. s = [k \in 1 .. L |-> FrameAt(m, k)]
  BY DEF Socket!Frames, FrameAt
<1> HIDE DEF s, L
<1>2. s \in [1 .. L -> Sendable]
  BY <1>0, <1>1
<1>3. s \in Seq(Sendable) /\ Len(s) = L
  BY <1>0, <1>2
<1>4. \A k \in 1 .. L : s[k] = FrameAt(m, k)
  BY <1>1
<1>5. ASSUME NEW i \in 1 .. L - 1 PROVE s[i + 1] = FrameAfter(s[i])
  <2>1. i \in 1 .. L /\ i + 1 \in 1 .. L /\ i # L
    BY <1>0
  <2> QED
    BY <1>4, <2>1, AfterIs DEF L
<1>6. Chained(s, FrameAt(m, 1))
  BY <1>0, <1>3, <1>4, <1>5 DEF Chained
<1> QED
  BY <1>3, <1>4, <1>6 DEF s, L

(* Everything the peer sends is one chain from the first frame. *)
LEMMA AllChained ==
    ASSUME Socket!PumpAssumption
    PROVE  Chained(Socket!All, FrameAt(1, 1))
<1> DEFINE N == Len(Msgs)
           R(x, k) == IF k = 0 THEN <<>> ELSE x \o Socket!Frames(k)
           P(f, m) == f = [k \in 0 .. m |-> R(f[k - 1], k)]
           T == {m \in Nat : \E f : P(f, m)}
<1>n. N \in Nat
  BY DEF Socket!PumpAssumption
<1>r. Socket!All = (LET upto[k \in 0 .. N] == R(upto[k - 1], k) IN upto[N])
  BY DEF Socket!All
<1>z. \A x, k : R(x, k) = IF k = 0 THEN <<>> ELSE x \o Socket!Frames(k)
  OBVIOUS
<1>0. \A x, y : R(x, 0) = R(y, 0)
  OBVIOUS
<1> HIDE DEF R, N
<1>1. 0 \in T
  <2> DEFINE first == R(0, 0)
             f == [k \in 0 .. 0 |-> first]
  <2>1. \A k \in 0 .. 0 : f[k] = R(f[k - 1], k)
    <3>1. \A k \in 0 .. 0 : k = 0 /\ f[k] = first
      OBVIOUS
    <3> HIDE DEF f
    <3> QED
      BY <1>0, <3>1
  <2>2. P(f, 0)
    BY <2>1
  <2> QED
    BY <2>2
<1>2. ASSUME NEW n \in T PROVE n + 1 \in T
  <2>1. PICK f : P(f, n)
    OBVIOUS
  <2>n. n \in Nat
    OBVIOUS
  <2> DEFINE last == R(f[n], n + 1)
             h == [k \in 0 .. n + 1 |-> IF k = n + 1 THEN last ELSE f[k]]
  <2>l. last = R(f[n], n + 1)
    OBVIOUS
  <2> HIDE DEF last
  <2>2. ASSUME NEW k \in 0 .. n + 1 PROVE h[k] = R(h[k - 1], k)
    <3>1. CASE k = 0
      <4>1. h[k] = f[0] /\ 0 \in 0 .. n
        BY <2>n, <3>1
      <4>2. f[0] = R(f[0 - 1], 0)
        BY <2>1, <4>1
      <4> QED
        BY <1>0, <3>1, <4>1, <4>2
    <3>2. CASE k = n + 1
      <4>1. h[k] = last /\ k - 1 \in 0 .. n + 1 /\ h[k - 1] = f[n]
        BY <2>n, <3>2
      <4> QED
        BY <4>1, <2>l, <3>2
    <3>3. CASE k # 0 /\ k # n + 1
      <4>1. k \in 0 .. n /\ k - 1 \in 0 .. n + 1 /\ k - 1 # n + 1
        BY <2>n, <3>3
      <4>2. h[k] = f[k] /\ h[k - 1] = f[k - 1]
        BY <4>1, <3>3
      <4>3. f[k] = R(f[k - 1], k)
        BY <2>1, <4>1
      <4> QED
        BY <4>2, <4>3
    <3> QED
      BY <3>1, <3>2, <3>3
  <2>3. P(h, n + 1)
    BY <2>2
  <2>4. n + 1 \in Nat
    BY <2>n
  <2> QED
    BY <2>3, <2>4
<1>3. T = Nat
  <2> HIDE DEF T
  <2>1. T \in SUBSET Nat
    BY DEF T
  <2> QED
    BY <1>1, <1>2, <2>1, Induction
<1>4. \E f : P(f, N)
  BY <1>3, <1>n
<1> DEFINE g == CHOOSE f : P(f, N)
<1>5. P(g, N)
  BY <1>4
<1>6. Socket!All = g[N]
  BY <1>r
<1> HIDE DEF g
<1>7. ASSUME NEW k \in 0 .. N PROVE g[k] = R(g[k - 1], k)
  BY <1>5, <1>n
<1> DEFINE Good(w, k) ==
               /\ Chained(w, FrameAt(1, 1))
               /\ k = 0 => w = <<>>
               /\ k > 0 => w # <<>> /\ w[Len(w)] = FrameAt(k, Len(Msgs[k]))
           U == {k \in Nat : k <= N => Good(g[k], k)}
<1>8. 0 \in U
  <2>1. g[0] = <<>>
    BY <1>7, <1>z, <1>n
  <2>2. Chained(<<>>, FrameAt(1, 1))
    BY DEF Chained
  <2>3. Good(g[0], 0)
    BY <2>1, <2>2
  <2> QED
    BY <2>3
<1>9. ASSUME NEW k \in U PROVE k + 1 \in U
  <2> SUFFICES ASSUME k + 1 <= N PROVE Good(g[k + 1], k + 1)
    OBVIOUS
  <2>1. k \in Nat /\ Good(g[k], k) /\ k + 1 \in 0 .. N /\ (k + 1) - 1 = k /\ k + 1 # 0 /\ k + 1 \in 1 .. Len(Msgs)
    BY <1>n DEF N
  <2> DEFINE a == g[k]
             b == Socket!Frames(k + 1)
             L == Len(Msgs[k + 1])
  <2>2. g[k + 1] = a \o b
    <3>1. g[k + 1] = R(g[(k + 1) - 1], k + 1)
      BY <1>7, <2>1
    <3> QED
      BY <1>z, <2>1, <3>1
  <2>3. b \in Seq(Sendable) /\ Len(b) = L /\ b[L] = FrameAt(k + 1, L) /\ Chained(b, FrameAt(k + 1, 1)) /\ L \in Nat /\ L > 0
    BY <2>1, FramesAre, MsgIs
  <2>4. Good(a, k)
    BY <2>1
  <2> HIDE DEF a, b, L
  <2>5. a = <<>> => FrameAt(1, 1) = FrameAt(k + 1, 1)
    BY <2>1, <2>4
  <2>6. a # <<>> => FrameAfter(a[Len(a)]) = FrameAt(k + 1, 1)
    <3> SUFFICES ASSUME a # <<>> PROVE FrameAfter(a[Len(a)]) = FrameAt(k + 1, 1)
      OBVIOUS
    <3>1. k > 0
      BY <2>1, <2>4
    <3>2. a[Len(a)] = FrameAt(k, Len(Msgs[k]))
      BY <2>4, <3>1
    <3> QED
      BY <3>2, AfterIs
  <2>7. Chained(a \o b, FrameAt(1, 1))
    BY <2>3, <2>4, <2>5, <2>6, ChainConcat
  <2>8. a \in Seq(Sendable)
    BY <2>4 DEF Chained
  <2>9. PICK w : w = a \o b
    OBVIOUS
  <2>10. /\ w \in Seq(Sendable) /\ Len(w) = Len(a) + L
         /\ \A i \in 1 .. Len(a) + L : w[i] = IF i <= Len(a) THEN a[i] ELSE b[i - Len(a)]
    BY <2>3, <2>8, <2>9, ConcatProperties
  <2>11. Len(a) \in Nat /\ ~(Len(a) + L <= Len(a)) /\ (Len(a) + L) - Len(a) = L /\ Len(a) + L \in 1 .. Len(a) + L
    BY <2>3, <2>8
  <2>12. w # <<>> /\ w[Len(w)] = FrameAt(k + 1, L)
    BY <2>3, <2>10, <2>11
  <2>13. g[k + 1] = w /\ Chained(w, FrameAt(1, 1))
    BY <2>2, <2>7, <2>9
  <2> QED
    BY <2>1, <2>12, <2>13 DEF L
<1>10. U = Nat
  <2> HIDE DEF U
  <2>1. U \in SUBSET Nat
    BY DEF U
  <2> QED
    BY <1>8, <1>9, <2>1, Induction
<1>11. Good(g[N], N)
  BY <1>10, <1>n
<1> QED
  BY <1>6, <1>11

(* The length of a message, frame by frame. *)
LEMMA SizeIs ==
    ASSUME Socket!PumpAssumption, NEW m \in 1 .. Len(Msgs)
    PROVE  /\ Socket!Size(m)[0] = 0
           /\ \A k \in 1 .. Len(Msgs[m]) : Socket!Size(m)[k] = Socket!Size(m)[k - 1] + Msgs[m][k]
<1> DEFINE N == Len(Msgs[m])
           R(x, k) == IF k = 0 THEN 0 ELSE x + Msgs[m][k]
           P(f, j) == f = [k \in 0 .. j |-> R(f[k - 1], k)]
           T == {j \in Nat : \E f : P(f, j)}
<1>n. N \in Nat
  BY MsgIs
<1>r. Socket!Size(m) = (LET upto[k \in 0 .. N] == R(upto[k - 1], k) IN upto)
  BY DEF Socket!Size
<1>z. \A x, k : R(x, k) = IF k = 0 THEN 0 ELSE x + Msgs[m][k]
  OBVIOUS
<1>0. \A x, y : R(x, 0) = R(y, 0)
  OBVIOUS
<1> HIDE DEF R, N
<1>1. 0 \in T
  <2> DEFINE first == R(0, 0)
             f == [k \in 0 .. 0 |-> first]
  <2>1. \A k \in 0 .. 0 : f[k] = R(f[k - 1], k)
    <3>1. \A k \in 0 .. 0 : k = 0 /\ f[k] = first
      OBVIOUS
    <3> HIDE DEF f
    <3> QED
      BY <1>0, <3>1
  <2>2. P(f, 0)
    BY <2>1
  <2> QED
    BY <2>2
<1>2. ASSUME NEW n \in T PROVE n + 1 \in T
  <2>1. PICK f : P(f, n)
    OBVIOUS
  <2>n. n \in Nat
    OBVIOUS
  <2> DEFINE last == R(f[n], n + 1)
             h == [k \in 0 .. n + 1 |-> IF k = n + 1 THEN last ELSE f[k]]
  <2>l. last = R(f[n], n + 1)
    OBVIOUS
  <2> HIDE DEF last
  <2>2. ASSUME NEW k \in 0 .. n + 1 PROVE h[k] = R(h[k - 1], k)
    <3>1. CASE k = 0
      <4>1. h[k] = f[0] /\ 0 \in 0 .. n
        BY <2>n, <3>1
      <4>2. f[0] = R(f[0 - 1], 0)
        BY <2>1, <4>1
      <4> QED
        BY <1>0, <3>1, <4>1, <4>2
    <3>2. CASE k = n + 1
      <4>1. h[k] = last /\ k - 1 \in 0 .. n + 1 /\ h[k - 1] = f[n]
        BY <2>n, <3>2
      <4> QED
        BY <4>1, <2>l, <3>2
    <3>3. CASE k # 0 /\ k # n + 1
      <4>1. k \in 0 .. n /\ k - 1 \in 0 .. n + 1 /\ k - 1 # n + 1
        BY <2>n, <3>3
      <4>2. h[k] = f[k] /\ h[k - 1] = f[k - 1]
        BY <4>1, <3>3
      <4>3. f[k] = R(f[k - 1], k)
        BY <2>1, <4>1
      <4> QED
        BY <4>2, <4>3
    <3> QED
      BY <3>1, <3>2, <3>3
  <2>3. P(h, n + 1)
    BY <2>2
  <2>4. n + 1 \in Nat
    BY <2>n
  <2> QED
    BY <2>3, <2>4
<1>3. T = Nat
  <2> HIDE DEF T
  <2>1. T \in SUBSET Nat
    BY DEF T
  <2> QED
    BY <1>1, <1>2, <2>1, Induction
<1>4. \E f : P(f, N)
  BY <1>3, <1>n
<1> DEFINE g == CHOOSE f : P(f, N)
<1>5. P(g, N)
  BY <1>4
<1>6. Socket!Size(m) = g
  BY <1>r
<1> HIDE DEF g
<1>7. ASSUME NEW k \in 0 .. N PROVE g[k] = R(g[k - 1], k)
  BY <1>5, <1>n
<1>8. g[0] = 0
  BY <1>7, <1>z, <1>n
<1>9. ASSUME NEW k \in 1 .. N PROVE g[k] = g[k - 1] + Msgs[m][k]
  <2>1. k \in 0 .. N /\ k # 0
    BY <1>n
  <2>2. g[k] = R(g[k - 1], k)
    BY <1>7, <2>1
  <2> QED
    BY <1>z, <2>1, <2>2
<1> DEFINE l == Socket!Size(m)
<1>10. l = g
  BY <1>6
<1> HIDE DEF l
<1>11. l[0] = 0 /\ \A k \in 1 .. N : l[k] = l[k - 1] + Msgs[m][k]
  BY <1>8, <1>9, <1>10
<1> QED
  BY <1>11 DEF l, N

-----------------------------------------------------------------------------
OnTheWay == (ahead \o sock) \o wire

(* The frames that are on their way follow the one the message has last. *)
PumpInv ==
    /\ ahead \in Seq(Sendable) /\ sock \in Seq(Sendable) /\ wire \in Seq(Sendable)
    /\ acc \in Seq(Sendable) /\ given \in Seq(Seq(Sendable))
    /\ length \in Nat /\ length <= MaxMessage
    /\ \A k \in 1 .. Len(given) : given[k] = Socket!Frames(k) /\ Socket!Bytes(k) <= MaxMessage
    /\ \A k \in 1 .. Len(acc) : acc[k] = FrameAt(Len(given) + 1, k)
    /\ acc = <<>> => length = 0
    /\ acc # <<>> => /\ Len(given) + 1 \in 1 .. Len(Msgs) /\ Len(acc) < Len(Msgs[Len(given) + 1])
                     /\ length = Socket!Size(Len(given) + 1)[Len(acc)]
    /\ link = "open" => Chained(OnTheWay, FrameAt(Len(given) + 1, Len(acc) + 1))

(* The invariant at the start. *)
LEMMA InitPump ==
    ASSUME Socket!PumpAssumption, Socket!Init
    PROVE  PumpInv
<1>1. Chained(Socket!All, FrameAt(1, 1))
  BY AllChained
<1>2. wire \in Seq(Sendable) /\ wire = Socket!All
  BY <1>1 DEF Socket!Init, Chained
<1>3. OnTheWay = wire
  <2>1. <<>> \o <<>> = <<>> /\ <<>> \o wire = wire
    BY <1>2
  <2> QED
    BY <2>1 DEF Socket!Init, OnTheWay
<1>4. Len(given) = 0 /\ Len(acc) = 0 /\ 0 + 1 = 1
  BY DEF Socket!Init
<1>5. Chained(OnTheWay, FrameAt(Len(given) + 1, Len(acc) + 1))
  BY <1>1, <1>2, <1>3, <1>4
<1> QED
  BY <1>2, <1>4, <1>5 DEF Socket!Init, PumpInv, Socket!PumpAssumption

(* Appending to the second of two sequences. *)
LEMMA AppendMoves ==
    ASSUME NEW S, NEW a \in Seq(S), NEW b \in Seq(S), NEW x \in S
    PROVE  a \o Append(b, x) = Append(a \o b, x)
<1> DEFINE p == Append(b, x)
           q == a \o b
           v == a \o p
           w == Append(q, x)
<1>1. p \in Seq(S) /\ Len(p) = Len(b) + 1 /\ p[Len(b) + 1] = x /\ \A i \in 1 .. Len(b) : p[i] = b[i]
  OBVIOUS
<1>n. Len(a) \in Nat /\ Len(b) \in Nat
  OBVIOUS
<1>2. /\ q \in Seq(S) /\ Len(q) = Len(a) + Len(b)
      /\ \A i \in 1 .. Len(a) + Len(b) : q[i] = IF i <= Len(a) THEN a[i] ELSE b[i - Len(a)]
  BY ConcatProperties
<1> HIDE DEF p, q
<1>3. /\ v \in Seq(S) /\ Len(v) = Len(a) + Len(p)
      /\ \A i \in 1 .. Len(a) + Len(p) : v[i] = IF i <= Len(a) THEN a[i] ELSE p[i - Len(a)]
  BY <1>1, ConcatProperties
<1>4. w \in Seq(S) /\ Len(w) = Len(q) + 1 /\ w[Len(q) + 1] = x /\ \A i \in 1 .. Len(q) : w[i] = q[i]
  BY <1>2
<1> HIDE DEF v, w
<1>5. Len(v) = Len(w) /\ Len(w) = (Len(a) + Len(b)) + 1
  BY <1>n, <1>1, <1>2, <1>3, <1>4
<1>6. ASSUME NEW i \in 1 .. Len(w) PROVE v[i] = w[i]
  <2>v. v[i] = IF i <= Len(a) THEN a[i] ELSE p[i - Len(a)]
    BY <1>3, <1>5
  <2>1. CASE i = Len(q) + 1
    <3>1. ~(i <= Len(a)) /\ i - Len(a) = Len(b) + 1
      BY <1>n, <1>2, <2>1
    <3> QED
      BY <1>1, <1>4, <2>v, <2>1, <3>1
  <2>2. CASE i # Len(q) + 1
    <3>0. Len(q) \in Nat /\ Len(q) = Len(a) + Len(b) /\ Len(w) = Len(q) + 1
      BY <1>n, <1>2, <1>4
    <3>1. i \in 1 .. Len(a) + Len(b) /\ i \in 1 .. Len(q)
      BY <2>2, <3>0
    <3>2. w[i] = IF i <= Len(a) THEN a[i] ELSE b[i - Len(a)]
      BY <1>2, <1>4, <3>1
    <3>3. CASE i <= Len(a)
      BY <2>v, <3>2, <3>3
    <3>4. CASE ~(i <= Len(a))
      <4>1. i - Len(a) \in 1 .. Len(b)
        BY <1>n, <3>1, <3>4
      <4> QED
        BY <1>1, <2>v, <3>2, <3>4, <4>1
    <3> QED
      BY <3>3, <3>4
  <2> QED
    BY <2>1, <2>2
<1>7. v = w
  BY <1>3, <1>4, <1>5, <1>6, SeqEqual
<1> QED
  BY <1>7 DEF p, q, v, w

(* A frame moves from the wire to the socket. *)
LEMMA ArriveKeeps ==
    ASSUME Socket!PumpAssumption, PumpInv, Socket!Arrive
    PROVE  PumpInv'
<1>0. /\ ahead \in Seq(Sendable) /\ sock \in Seq(Sendable) /\ wire \in Seq(Sendable) /\ wire # <<>>
      /\ sock' = Append(sock, Head(wire)) /\ wire' = Tail(wire)
      /\ UNCHANGED <<ahead, acc, length, given, reads, link>>
  BY DEF PumpInv, Socket!Arrive
<1>1. Head(wire) \in Sendable /\ sock' \in Seq(Sendable) /\ wire' \in Seq(Sendable)
  BY <1>0
<1>2. PICK a : a = ahead \o sock
  OBVIOUS
<1>3. a \in Seq(Sendable)
  BY <1>0, <1>2
<1>4. ahead' \o sock' = Append(a, Head(wire))
  BY <1>0, <1>1, <1>2, AppendMoves
<1>5. Append(a, Head(wire)) \o Tail(wire) = a \o wire
  BY <1>0, <1>3, PipeMoves
<1>6. OnTheWay' = OnTheWay
  BY <1>0, <1>2, <1>4, <1>5 DEF OnTheWay
<1> QED
  BY <1>0, <1>1, <1>6 DEF PumpInv

(* What curl answers with: the first of the frames, in their order. *)
LEMMA SupplyIs ==
    ASSUME NEW S, ahead \in Seq(S), sock \in Seq(S), NEW s \in Socket!Supply
    PROVE  /\ s[1] \in Seq(S) /\ s[2] \in Seq(S) /\ s[1] # <<>>
           /\ s[1] \o s[2] = ahead \o sock
<1>1. CASE ahead # <<>>
  <2>1. s = <<ahead, sock>>
    BY <1>1 DEF Socket!Supply
  <2> QED
    BY <1>1, <2>1
<1>2. CASE ahead = <<>>
  <2>1. PICK k \in 1 .. Len(sock) : s = <<SubSeq(sock, 1, k), SubSeq(sock, k + 1, Len(sock))>>
    BY <1>2 DEF Socket!Supply
  <2>2. PICK a : a = SubSeq(sock, 1, k)
    OBVIOUS
  <2>3. PICK b : b = SubSeq(sock, k + 1, Len(sock))
    OBVIOUS
  <2>n. Len(sock) \in Nat /\ k \in Nat /\ k > 0 /\ k <= Len(sock)
    OBVIOUS
  <2>4. a \in Seq(S) /\ Len(a) = k /\ \A i \in 1 .. k : a[i] = sock[i]
    BY <2>2, <2>n, SubSeqProperties
  <2>5. b \in Seq(S) /\ Len(b) = Len(sock) - k /\ \A i \in 1 .. Len(sock) - k : b[i] = sock[k + i]
    <3>1. CASE k = Len(sock)
      BY <2>3, <2>n, <3>1, SubSeqProperties
    <3>2. CASE k # Len(sock)
      BY <2>3, <2>n, <3>2, SubSeqProperties
    <3> QED
      BY <3>1, <3>2
  <2>6. PICK w : w = a \o b
    OBVIOUS
  <2>7. /\ w \in Seq(S) /\ Len(w) = Len(a) + Len(b)
        /\ \A i \in 1 .. Len(a) + Len(b) : w[i] = IF i <= Len(a) THEN a[i] ELSE b[i - Len(a)]
    BY <2>4, <2>5, <2>6, ConcatProperties
  <2>8. Len(w) = Len(sock)
    BY <2>n, <2>4, <2>5, <2>7
  <2>9. ASSUME NEW i \in 1 .. Len(sock) PROVE w[i] = sock[i]
    <3>1. w[i] = IF i <= k THEN a[i] ELSE b[i - k]
      BY <2>4, <2>7, <2>8
    <3>2. CASE i <= k
      BY <2>4, <3>1, <3>2
    <3>3. CASE ~(i <= k)
      <4>1. i - k \in 1 .. Len(sock) - k /\ k + (i - k) = i
        BY <2>n, <3>3
      <4> QED
        BY <2>5, <3>1, <3>3, <4>1
    <3> QED
      BY <3>2, <3>3
  <2>10. w = sock
    BY <2>7, <2>8, <2>9, SeqEqual
  <2>11. ahead \o sock = sock
    BY <1>2
  <2> QED
    <3>1. s[1] = a /\ s[2] = b
      BY <2>1, <2>2, <2>3
    <3>2. a # <<>>
      BY <2>n, <2>4
    <3> QED
      BY <2>4, <2>5, <2>6, <2>10, <2>11, <3>1, <3>2
<1> QED
  BY <1>1, <1>2

(* A frame is received: it is the next one, and ends its message or goes on with it. *)
LEMMA RecvKeeps ==
    ASSUME Socket!PumpAssumption, PumpInv, Socket!Recv
    PROVE  PumpInv'
<1>1. PICK s \in Socket!Supply :
          /\ ahead' = Tail(s[1]) /\ sock' = s[2]
          /\ IF Socket!TooLong(Head(s[1]))
             THEN link' = "failed" /\ reads' = 0 /\ UNCHANGED <<acc, length, given>>
             ELSE Socket!Add(Head(s[1])) /\ reads' = reads - 1 /\ UNCHANGED link
  BY DEF Socket!Recv
<1>0. link = "open" /\ wire' = wire
  BY DEF Socket!Recv
<1>t. /\ ahead \in Seq(Sendable) /\ sock \in Seq(Sendable) /\ wire \in Seq(Sendable)
      /\ acc \in Seq(Sendable) /\ given \in Seq(Seq(Sendable)) /\ length \in Nat /\ length <= MaxMessage
      /\ MaxMessage \in Nat
  BY DEF PumpInv, Socket!PumpAssumption
<1> DEFINE m == Len(given) + 1
           k == Len(acc) + 1
           f == FrameAt(m, k)
<1>2. PICK a : a = s[1]
  OBVIOUS
<1>3. PICK b : b = s[2]
  OBVIOUS
<1>4. a \in Seq(Sendable) /\ b \in Seq(Sendable) /\ a # <<>> /\ a \o b = ahead \o sock
  BY <1>2, <1>3, <1>t, SupplyIs
<1>5. PICK c : c = a \o b
  OBVIOUS
<1>6. c \in Seq(Sendable) /\ c # <<>> /\ Head(c) = Head(a) /\ Tail(a) \in Seq(Sendable) /\ Tail(c) = Tail(a) \o b
  <2>1. a \in Seq(Sendable) /\ b \in Seq(Sendable) /\ a # <<>>
    BY <1>4
  <2>2. /\ a \o b \in Seq(Sendable) /\ a \o b # <<>> /\ Head(a \o b) = Head(a)
        /\ Tail(a) \in Seq(Sendable) /\ Tail(a \o b) = Tail(a) \o b
    BY ONLY <2>1, PipeHead
  <2> QED
    BY <1>5, <2>2
<1>7. PICK d : d = c \o wire
  OBVIOUS
<1>8. d \in Seq(Sendable) /\ d # <<>> /\ Head(d) = Head(c) /\ Tail(d) = Tail(c) \o wire
  <2>1. c \in Seq(Sendable) /\ wire \in Seq(Sendable) /\ c # <<>>
    BY <1>6, <1>t
  <2>2. /\ c \o wire \in Seq(Sendable) /\ c \o wire # <<>> /\ Head(c \o wire) = Head(c)
        /\ Tail(c \o wire) = Tail(c) \o wire
    BY ONLY <2>1, PipeHead
  <2> QED
    BY <1>7, <2>2
<1>9. d = OnTheWay
  BY <1>4, <1>5, <1>7 DEF OnTheWay
<1>10. Chained(d, f)
  BY <1>0, <1>9 DEF PumpInv
<1>11. Head(d) = f /\ f \in Sendable /\ Chained(Tail(d), FrameAfter(f))
  BY <1>8, <1>10, ChainTail
<1>12. OnTheWay' = Tail(d)
  BY <1>0, <1>1, <1>2, <1>3, <1>6, <1>8 DEF OnTheWay
<1>13. Head(s[1]) = f
  BY <1>2, <1>6, <1>8, <1>11
<1>14. ahead' \in Seq(Sendable) /\ sock' \in Seq(Sendable) /\ wire' \in Seq(Sendable)
  BY <1>0, <1>1, <1>2, <1>3, <1>4, <1>6, <1>t
<1>15. m \in 1 .. Len(Msgs) /\ k \in 1 .. Len(Msgs[m])
  <2>1. PICK i \in 1 .. Len(Msgs) : \E j \in 1 .. Len(Msgs[i]) : f = FrameAt(i, j)
    BY <1>11, SendableIs
  <2>2. PICK j \in 1 .. Len(Msgs[i]) : f = FrameAt(i, j)
    BY <2>1
  <2>3. i = m /\ j = k
    BY <2>2, FrameIs
  <2> QED
    BY <2>2, <2>3
<1>16. CASE Socket!TooLong(f)
  <2>1. link' = "failed" /\ UNCHANGED <<acc, length, given>>
    BY <1>1, <1>13, <1>16
  <2> QED
    BY <1>14, <2>1 DEF PumpInv
<1>17. CASE ~Socket!TooLong(f)
  <2>1. Socket!Add(f) /\ link' = link
    BY <1>1, <1>13, <1>17
  <2>2. f.size = Msgs[m][k] /\ Msgs[m][k] \in Nat /\ Len(Msgs[m]) \in Nat
    BY <1>15, FrameIs, MsgIs
  <2>3. length + Msgs[m][k] <= MaxMessage
    BY <1>17, <1>t, <2>2, SMTT(20) DEF Socket!TooLong
  <2>4. Socket!Size(m)[k] = length + Msgs[m][k]
    <3>1. Socket!Size(m)[0] = 0 /\ Socket!Size(m)[k] = Socket!Size(m)[k - 1] + Msgs[m][k]
      BY <1>15, SizeIs
    <3>2. k - 1 = Len(acc) /\ Len(acc) \in Nat
      BY <1>t
    <3>3. length = Socket!Size(m)[Len(acc)]
      <4>1. CASE acc = <<>>
        BY <3>1, <4>1 DEF PumpInv
      <4>2. CASE acc # <<>>
        BY <4>2 DEF PumpInv
      <4> QED
        BY <4>1, <4>2
    <3> QED
      BY <3>1, <3>2, <3>3
  <2>5. PICK e : e = Append(acc, f)
    OBVIOUS
  <2>6. e \in Seq(Sendable) /\ Len(e) = k /\ e[k] = f /\ \A i \in 1 .. Len(acc) : e[i] = acc[i]
    BY <1>11, <1>t, <2>5
  <2>7. \A i \in 1 .. k : e[i] = FrameAt(m, i)
    <3>1. \A i \in 1 .. Len(acc) : acc[i] = FrameAt(m, i)
      BY DEF PumpInv
    <3>2. Len(acc) \in Nat
      BY <1>t
    <3> HIDE DEF f
    <3>3. e[k] = FrameAt(m, k)
      BY <2>6 DEF f
    <3> QED
      BY <2>6, <3>1, <3>2, <3>3
  <2>8. f.last <=> k = Len(Msgs[m])
    BY FrameIs
  <2>9. Len(given) \in Nat /\ Len(acc) \in Nat
    BY <1>t
  <2>10. CASE k = Len(Msgs[m])
    <3>1. given' = Append(given, e) /\ acc' = <<>> /\ length' = 0
      BY <2>1, <2>5, <2>8, <2>10 DEF Socket!Add
    <3>2. e = Socket!Frames(m)
      <4>1. PICK r : r = Socket!Frames(m)
        OBVIOUS
      <4>2. r \in Seq(Sendable) /\ Len(r) = k /\ \A i \in 1 .. k : r[i] = FrameAt(m, i)
        BY <1>15, <2>10, <4>1, FramesAre
      <4> HIDE DEF m, k, f
      <4> QED
        BY <2>6, <2>7, <4>1, <4>2, SeqEqual
    <3>3. Socket!Bytes(m) <= MaxMessage
      BY <2>3, <2>4, <2>10 DEF Socket!Bytes
    <3>4. given' \in Seq(Seq(Sendable)) /\ Len(given') = m /\ \A i \in 1 .. Len(given) : given'[i] = given[i]
      BY <1>t, <2>6, <3>1
    <3>5. given'[m] = e
      BY <1>t, <2>6, <3>1
    <3>6. ASSUME NEW i \in 1 .. Len(given') PROVE given'[i] = Socket!Frames(i) /\ Socket!Bytes(i) <= MaxMessage
      <4>1. CASE i = m
        BY <3>2, <3>3, <3>5, <4>1
      <4>2. CASE i # m
        <5>1. i \in 1 .. Len(given)
          BY <2>9, <3>4, <4>2
        <5> QED
          BY <3>4, <5>1 DEF PumpInv
      <4> QED
        BY <4>1, <4>2
    <3>7. FrameAfter(f) = FrameAt(m + 1, 1)
      BY <2>10, AfterIs
    <3>8. Chained(OnTheWay', FrameAt(Len(given') + 1, Len(acc') + 1))
      <4>1. Len(acc') + 1 = 1
        BY <3>1
      <4> QED
        BY <1>11, <1>12, <3>4, <3>7, <4>1
    <3>9. /\ acc' \in Seq(Sendable) /\ length' \in Nat /\ length' <= MaxMessage /\ acc' = <<>> /\ length' = 0
          /\ \A i \in 1 .. Len(acc') : acc'[i] = FrameAt(Len(given') + 1, i)
      BY <1>t, <3>1
    <3> QED
      BY <1>14, <3>4, <3>6, <3>8, <3>9 DEF PumpInv
  <2>11. CASE k # Len(Msgs[m])
    <3>1. acc' = e /\ length' = length + Msgs[m][k] /\ given' = given
      BY <2>1, <2>2, <2>5, <2>8, <2>11 DEF Socket!Add
    <3>2. FrameAfter(f) = FrameAt(m, k + 1)
      BY <2>11, AfterIs
    <3>3. Chained(OnTheWay', FrameAt(Len(given') + 1, Len(acc') + 1))
      BY <1>11, <1>12, <2>6, <3>1, <3>2
    <3>4. Len(acc') < Len(Msgs[m]) /\ length' \in Nat /\ length' = Socket!Size(m)[Len(acc')] /\ length' <= MaxMessage
      <4>1. Len(acc') = k
        BY <2>6, <3>1
      <4>2. k < Len(Msgs[m])
        BY <1>15, <2>2, <2>9, <2>11
      <4>3. length' \in Nat /\ length' <= MaxMessage
        BY <1>t, <2>2, <2>3, <3>1, SMTT(20)
      <4>4. length' = Socket!Size(m)[k]
        BY <2>4, <3>1
      <4> QED
        BY <4>1, <4>2, <4>3, <4>4
    <3>5. acc' # <<>>
      BY <2>6, <2>9, <3>1
    <3>6. \A i \in 1 .. Len(acc') : acc'[i] = FrameAt(m, i)
      BY <2>6, <2>7, <3>1
    <3>7. acc' \in Seq(Sendable)
      BY <2>6, <3>1
    <3> HIDE DEF f, k
    <3> QED
      BY <1>14, <1>15, <1>t, <3>1, <3>3, <3>4, <3>5, <3>6, <3>7 DEF PumpInv
  <2> QED
    BY <2>10, <2>11
<1> QED
  BY <1>16, <1>17

(* Every message the page gets is one the peer sent, whole, in order and within
   SF_WS_MAX_MESSAGE, however its frames fall into reads and pumps
   (wh_on_readable). *)
THEOREM MessagesComeWhole ==
    ASSUME Socket!PumpAssumption
    PROVE  Socket!Spec => []MessagesWhole
<1>1. Socket!Init => PumpInv
  BY InitPump
<1>2. PumpInv /\ [Socket!Next]_(Socket!vars) => PumpInv'
  <2> SUFFICES ASSUME PumpInv, [Socket!Next]_(Socket!vars) PROVE PumpInv'
    OBVIOUS
  <2>1. CASE Socket!Pump \/ Socket!Again \/ UNCHANGED Socket!vars
    <3>1. UNCHANGED <<wire, sock, ahead, acc, length, given, link>>
      BY <2>1 DEF Socket!Pump, Socket!Again, Socket!vars
    <3> QED
      BY <3>1 DEF PumpInv, OnTheWay
  <2> QED
    BY <2>1, ArriveKeeps, RecvKeeps DEF Socket!Next
<1>3. PumpInv => Socket!MessagesWhole
  <2> SUFFICES ASSUME PumpInv, NEW k \in DOMAIN given PROVE given[k] = Socket!Frames(k) /\ Socket!Bytes(k) <= MaxMessage
    BY DEF Socket!MessagesWhole
  <2>1. k \in 1 .. Len(given)
    BY DEF PumpInv
  <2> QED
    BY <2>1 DEF PumpInv
<1> QED
  BY <1>1, <1>2, <1>3, PTL DEF Socket!Spec, MessagesWhole
=============================================================================
