---------------------------- MODULE MCProcesses -----------------------------
(***************************************************************************)
(* The window's process and what runs beside its loop, for TLC: the        *)
(* background job of a tab (TabAsync), the workers' births and ends        *)
(* (WorkerBirth), the time a worker gives to a page's code (ScriptBudget), *)
(* the video player with its feeder and its decoder (VideoPlayer), its     *)
(* audio sink (AudioSink) and what a WebSocket connection delivers         *)
(* (WsPump).  A behaviour moves one of them, `part', and leaves the others *)
(* as they begin; their actions touch no variable of each other.           *)
(***************************************************************************)
EXTENDS Processes

VARIABLE part

\* Pages of up to three scripts; code that never ends anywhere.
MCPages == {<<>>, <<"inline", "inline">>, <<"external", "inline", "external">>}
MCLoops == Places

\* A segment and a frame are longer than the pipes, so both writers block.
MCDecodes == {<<>>, <<"V">>, <<"A", "V", "V">>}

\* Messages in one and in several frames, empty ones, one at the limit and one
\* past it.
MCMsgs == <<<<1>>, <<0, 2, 0>>, <<0>>, <<1, 2>>, <<1>>, <<2, 2>>, <<1>>>>

ASSUME /\ BirthAssumption /\ BudgetAssumption /\ Video!VideoAssumption
       /\ Audio!SinkAssumption /\ Socket!PumpAssumption

ProcessesInit ==
    /\ part \in {"loop", "birth", "budget", "video", "audio", "socket"}
    /\ Init /\ (part # "loop" => ~timers)
    /\ BirthInit
    /\ BudgetInit /\ (part # "budget" => todo = <<>>)
    /\ Video!Init
    /\ Audio!Init /\ (part # "audio" => stream = "f44")
    /\ Socket!Init

ProcessesNext ==
    /\ UNCHANGED part
    /\ \/ /\ part = "loop" /\ Next
          /\ UNCHANGED <<birthVars, budgetVars, videoVars, audioVars, socketVars>>
       \/ /\ part = "birth" /\ BirthNext
          /\ UNCHANGED <<vars, budgetVars, videoVars, audioVars, socketVars>>
       \/ /\ part = "budget" /\ BudgetNext
          /\ UNCHANGED <<vars, birthVars, videoVars, audioVars, socketVars>>
       \/ /\ part = "video" /\ Video!Next
          /\ UNCHANGED <<vars, birthVars, budgetVars, audioVars, socketVars>>
       \/ /\ part = "audio" /\ Audio!Next
          /\ UNCHANGED <<vars, birthVars, budgetVars, videoVars, socketVars>>
       \/ /\ part = "socket" /\ Socket!Next
          /\ UNCHANGED <<vars, birthVars, budgetVars, videoVars, audioVars>>
       \* Only the loop never stops: elsewhere there may be nothing more to do.
       \/ /\ part # "loop"
          /\ UNCHANGED <<vars, birthVars, budgetVars, videoVars, audioVars, socketVars>>

\* The fairness of each part, where it moves.
ProcessesFairness ==
    /\ WF_vars(part = "loop" /\ Loop) /\ WF_vars(part = "loop" /\ JobMain)
    /\ SF_vars(part = "loop" /\ TickStart)
    /\ \A t \in Threads :
          /\ WF_birthVars(part = "birth" /\ Run(t))
          /\ WF_birthVars(part = "birth" /\ ending /\ \E w \in Pids : Close(t, w))
    /\ \A w \in Pids : WF_birthVars(part = "birth" /\ Child(w))
    /\ WF_birthVars(part = "birth" /\ ShutdownSpare)
    /\ WF_birthVars(part = "birth" /\ Exit)
    /\ WF_budgetVars(part = "budget" /\ Worker)
    /\ WF_budgetVars(part = "budget" /\ Work)
    /\ WF_budgetVars(part = "budget" /\ Returns)
    /\ WF_budgetVars(part = "budget" /\ Interrupt)
    /\ WF_videoVars(part = "video" /\ Video!Feeder)
    /\ WF_videoVars(part = "video" /\ Video!Decoder)
    /\ WF_videoVars(part = "video" /\ Video!Reading)
    /\ WF_videoVars(part = "video" /\ Video!FrameDue)
    /\ WF_videoVars(part = "video" /\ Video!Stopping)
    /\ WF_videoVars(part = "video" /\ (Video!PlayFails \/ Video!PlayStarts \/ Video!PlayAborts))
    /\ WF_audioVars(part = "audio" /\ Audio!Frame)
    /\ WF_audioVars(part = "audio" /\ Audio!BackoffEnds)
    /\ \A p \in {1, 2} : WF_audioVars(part = "audio" /\ Audio!SinkDies(p))
    /\ WF_socketVars(part = "socket" /\ Socket!Arrive)
    /\ WF_socketVars(part = "socket" /\ (Socket!Pump \/ Socket!Recv \/ Socket!Again))

ProcessesSpec ==
    /\ ProcessesInit
    /\ [][ProcessesNext]_<<part, vars, birthVars, budgetVars, videoVars, audioVars, socketVars>>
    /\ ProcessesFairness
-----------------------------------------------------------------------------
\* A video comes to its end, is stopped or loses its decoder, whichever of the
\* three processes waits for another; sound comes back on a player that works.
MediaPlays ==
    /\ part = "video" => Video!PlaysOut
    /\ part = "audio" => Audio!SoundReturns

\* tab_open answers, and no worker is left when the window has ended; every
\* operation ends but where the page's code loops without a deadline.
ProcessesEnd ==
    /\ part = "birth" => OpenReturns /\ NoneLeft
    /\ part = "budget" => EveryRunEnds

\* Not so, of a page whose code loops where no deadline is armed.
EveryRunInterrupted == part = "budget" => RunsInterrupted

\* Every message is delivered, but those curl holds when a pump is used up.
Delivered == part = "socket" => Socket!Delivered
=============================================================================
