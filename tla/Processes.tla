----------------------------- MODULE Processes ------------------------------
(***************************************************************************)
(* What runs beside the window's loop, put together: the background job of *)
(* a tab (TabAsync), the workers' births and ends (WorkerBirth), the time  *)
(* a worker gives to a page's code (ScriptBudget), the video player with   *)
(* its feeder and its decoder (VideoPlayer), its audio sink (AudioSink)    *)
(* and what a WebSocket connection delivers (WsPump).  The parts share no  *)
(* variable; the module names the ones that two of them give one name.     *)
(***************************************************************************)
EXTENDS TabAsync, WorkerBirth, ScriptBudget

CONSTANTS
    NSegs, Body, CmdCap, OutCap, Catchup, Decodes, MayDie, Leaves,   \* VideoPlayer
    Works, Formats, Changes,                                         \* AudioSink
    Msgs, MaxMessage, Reads                                          \* WsPump

VARIABLES
    active, win, after, vcount, msg, vdue, base, feeder, seg, tosend, vpid, fds, cmd,
    vout, dec, need, emit, inited,
    pid, fmt, idx, waiting, kids, stream, heard, changes,
    wire, sock, ahead, acc, length, given, reads, link

Video == INSTANCE VideoPlayer WITH due <- vdue, pid <- vpid, th <- feeder, out <- vout
Audio == INSTANCE AudioSink
Socket == INSTANCE WsPump WITH len <- length, out <- given, n <- reads, st <- link

videoVars == <<active, win, after, vcount, msg, vdue, base, feeder, seg, tosend, vpid, fds,
               cmd, vout, dec, need, emit, inited>>
audioVars == <<pid, fmt, idx, waiting, kids, stream, heard, changes>>
socketVars == <<wire, sock, ahead, acc, length, given, reads, link>>

\* The feeder never outlives the pipes and the base URL it uses, both ends of
\* each pipe of the decoder agree on where a message begins, and at most one
\* audio player is alive.
MediaOwned == Video!FeederOwns /\ Video!Framed /\ Audio!OneSink

\* The messages of a connection reach the page whole and in order.
MessagesWhole == Socket!MessagesWhole
=============================================================================
