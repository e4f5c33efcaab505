----------------------------- MODULE WorkerBirth -----------------------------
(***************************************************************************)
(* How a tab gets its worker process (src/tab.c): tab_prewarm keeps one    *)
(* spare worker without waiting for it, tab_open takes it or spawns one,   *)
(* and trusts it only after it has said that it is confined.  A worker may *)
(* fail to start, fail to confine itself, or die at any time.              *)
(***************************************************************************)
EXTENDS Naturals, FiniteSets

CONSTANTS Threads,   \* threads that open and close tabs
          Pids,      \* bound: the processes there can be, in the order of their birth
          None

\* A process is not None, and the other two holders of one are not threads.
BirthAssumption == None \notin Pids /\ {"spare", "tab"} \cap Threads = {}

VARIABLES
    proc,    \* "none", "started", "confined", "exited" (not yet waited for), "reaped"
    said,    \* the handshake byte in a worker's pipe, until it is read
    piped,   \* the workers whose pipes the parent holds
    spare,   \* g_spare, or None: g_have_spare
    th,      \* [pc, sp] of each thread
    tabs,    \* the workers of open tabs and of the iframes of the page shown
    frames,  \* those of iframes (frame_host.c)
    ending   \* the program is on its way out

birthVars == <<proc, said, piped, spare, th, tabs, frames, ending>>

Quiet == [pc |-> "idle", sp |-> None]
At(t, pc) == th[t].pc = pc
Go(t, pc, p) == th' = [th EXCEPT ![t] = [pc |-> pc, sp |-> p]]

(*------------------------------ the worker -------------------------------*)

\* spawn_worker: pipes, fork and exec, and nothing is waited for.
Spawned(p) ==
    /\ proc[p] = "none"
    /\ \A q \in Pids : proc[q] = "none" => p <= q
    /\ proc' = [proc EXCEPT ![p] = "started"]
    /\ piped' = piped \cup {p}

\* exec and confinement, in child_main: the byte is written in either case.
Confine(p) ==
    /\ proc[p] = "started"
    /\ proc' = [proc EXCEPT ![p] = "confined"]
    /\ said' = [said EXCEPT ![p] = "ready"]
    /\ UNCHANGED <<piped, spare, th, tabs, frames, ending>>

\* execv fails: _exit(127), with nothing said.
ExecFails(p) ==
    /\ proc[p] = "started"
    /\ proc' = [proc EXCEPT ![p] = "exited"]
    /\ UNCHANGED <<said, piped, spare, th, tabs, frames, ending>>

NotConfined(p) ==
    /\ proc[p] = "started"
    /\ proc' = [proc EXCEPT ![p] = "exited"]
    /\ said' = [said EXCEPT ![p] = "no"]
    /\ UNCHANGED <<piped, spare, th, tabs, frames, ending>>

\* Killed from outside, or by its own fault.
Dies(p) ==
    /\ proc[p] = "confined"
    /\ proc' = [proc EXCEPT ![p] = "exited"]
    /\ UNCHANGED <<said, piped, spare, th, tabs, frames, ending>>

\* The end of its request pipe.
Quits(p) ==
    /\ proc[p] = "confined"
    /\ p \notin piped
    /\ proc' = [proc EXCEPT ![p] = "exited"]
    /\ UNCHANGED <<said, piped, spare, th, tabs, frames, ending>>

(*-------------------------------- opening --------------------------------*)

\* tab_prewarm, of the window's thread: under the lock, once.
Prewarm(p) ==
    /\ ~ending
    /\ spare = None
    /\ Spawned(p)
    /\ spare' = p
    /\ UNCHANGED <<said, th, tabs, frames, ending>>

\* (the spare taken is left there)
TakenKept(t) == Go(t, "adopt spare", spare) /\ UNCHANGED spare

Taken(t) == Go(t, "adopt spare", spare) /\ spare' = None

\* tab_open, under the lock.
Open(t) ==
    /\ ~ending
    /\ At(t, "idle")
    /\ IF spare # None THEN Taken(t) ELSE Go(t, "spawn", None) /\ UNCHANGED spare
    /\ UNCHANGED <<proc, said, piped, tabs, frames, ending>>

Spawn(t, p) ==
    /\ At(t, "spawn")
    /\ Spawned(p)
    /\ Go(t, "adopt", p)
    /\ UNCHANGED <<said, spare, tabs, frames, ending>>

SpawnFails(t) ==
    /\ At(t, "spawn")
    /\ Go(t, "idle", None)
    /\ UNCHANGED <<proc, said, piped, spare, tabs, frames, ending>>

Adoptable(p) == said[p] = "ready"

\* adopt_worker: the handshake is read, and the worker is a tab's or a frame's.
Adopt(t) ==
    LET p == th[t].sp
    IN /\ At(t, "adopt spare") \/ At(t, "adopt")
       /\ Adoptable(p)
       /\ said' = [said EXCEPT ![p] = "nothing"]
       /\ tabs' = tabs \cup {p}
       /\ frames' \in {frames, frames \cup {p}}
       /\ Go(t, "idle", None)
       /\ UNCHANGED <<proc, piped, spare, ending>>

\* The other byte, or the end of the pipe: reap_spawned closes the pipes.
Refuse(t) ==
    LET p == th[t].sp
    IN /\ At(t, "adopt spare") \/ At(t, "adopt")
       /\ ~Adoptable(p)
       /\ said[p] = "no" \/ proc[p] = "exited"
       /\ piped' = piped \ {p}
       /\ said' = [said EXCEPT ![p] = "nothing"]
       /\ Go(t, IF At(t, "adopt spare") THEN "reap spare" ELSE "reap", p)
       /\ UNCHANGED <<proc, spare, tabs, frames, ending>>

\* ... and waits for it; after a spare there is still a worker to spawn.
Reap(t) ==
    LET p == th[t].sp
    IN /\ At(t, "reap spare") \/ At(t, "reap")
       /\ proc[p] = "exited"
       /\ proc' = [proc EXCEPT ![p] = "reaped"]
       /\ Go(t, IF At(t, "reap spare") THEN "spawn" ELSE "idle", None)
       /\ UNCHANGED <<said, piped, spare, tabs, frames, ending>>

(*-------------------------------- closing --------------------------------*)

\* tab_close, and reap_spawned of the spare: kill and wait.
Killed(p) ==
    /\ proc' = [proc EXCEPT ![p] = "reaped"]
    /\ piped' = piped \ {p}
    /\ said' = [said EXCEPT ![p] = "nothing"]

\* A frame's worker is closed with its page (fh_free); the end of the program
\* closes the page's worker only.
Close(t, p) ==
    /\ At(t, "idle")
    /\ p \in tabs
    /\ ending => p \notin frames
    /\ tabs' = tabs \ {p} /\ frames' = frames \ {p}
    /\ Killed(p)
    /\ UNCHANGED <<spare, th, ending>>

\* The program ends: the page's worker is closed, then the spare.
End ==
    /\ ~ending
    /\ ending' = TRUE
    /\ UNCHANGED <<proc, said, piped, spare, th, tabs, frames>>

Shutdown(p) == Killed(p)

ShutdownSpare ==
    /\ ending
    /\ spare # None
    /\ tabs \subseteq frames
    /\ \A t \in Threads : At(t, "idle")
    /\ Shutdown(spare)
    /\ spare' = None
    /\ UNCHANGED <<th, tabs, frames, ending>>

\* The process ends, and with it its ends of the pipes.
Exit ==
    /\ ending
    /\ spare = None
    /\ tabs \subseteq frames
    /\ \A t \in Threads : At(t, "idle")
    /\ piped # {} /\ piped' = {}
    /\ UNCHANGED <<proc, said, spare, th, tabs, frames, ending>>

BirthInit ==
    /\ proc = [p \in Pids |-> "none"]
    /\ said = [p \in Pids |-> "nothing"]
    /\ piped = {}
    /\ spare = None
    /\ th = [t \in Threads |-> Quiet]
    /\ tabs = {} /\ frames = {}
    /\ ending = FALSE

Run(t) == (\E p \in Pids : Spawn(t, p)) \/ SpawnFails(t) \/ Adopt(t) \/ Refuse(t) \/ Reap(t)
Child(p) == Confine(p) \/ ExecFails(p) \/ NotConfined(p) \/ Quits(p)

BirthNext ==
    \/ \E p \in Pids : Prewarm(p) \/ Child(p) \/ Dies(p)
    \/ \E t \in Threads : Open(t) \/ Run(t) \/ \E p \in Pids : Close(t, p)
    \/ End \/ ShutdownSpare \/ Exit

\* The kernel runs every thread and every worker; at the end the window closes
\* its tab and the spare, and the process ends.
BirthFairness ==
    /\ \A t \in Threads : WF_birthVars(Run(t)) /\ WF_birthVars(ending /\ \E p \in Pids : Close(t, p))
    /\ \A p \in Pids : WF_birthVars(Child(p))
    /\ WF_birthVars(ShutdownSpare) /\ WF_birthVars(Exit)

BirthSpec == BirthInit /\ [][BirthNext]_birthVars /\ BirthFairness

(*------------------------------ properties -------------------------------*)

\* The places of the program that hold a process.
Holders(p) ==
    {t \in Threads : th[t].sp = p} \cup (IF spare = p THEN {"spare"} ELSE {})
    \cup (IF p \in tabs THEN {"tab"} ELSE {})

\* Every worker that spawn_worker forked and nobody waited for yet is the spare,
\* in the hands of one thread, or one tab's, and never two of these: none is
\* lost, and none is given to two tabs.
Accounted == \A p \in Pids : Cardinality(Holders(p)) = (IF proc[p] \in {"none", "reaped"} THEN 0 ELSE 1)

\* tab_open returns, whatever becomes of the workers.
OpenReturns == \A t \in Threads : (~At(t, "idle")) ~> At(t, "idle")

\* Nothing is left running when the program has ended: a worker was waited for,
\* or it is a frame's, which nobody waits for and which ends by itself at the end
\* of its pipe.
NoneLeft ==
    ending ~> \A p \in Pids : \/ proc[p] \in {"none", "reaped"}
                              \/ p \in frames /\ proc[p] = "exited"
================================================================================
