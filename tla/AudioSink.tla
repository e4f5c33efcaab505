------------------------------ MODULE AudioSink ------------------------------
(***************************************************************************)
(* The sound of a video (audio_spawn, audio_mark_dead, audio_write and     *)
(* audio_stop of gui/browser_ui.c): a player process is started for the    *)
(* first audio frame and fed through a pipe that never blocks.  Three      *)
(* players are known; which of them works depends on the system.  One that *)
(* died is noticed at the next write, and the next player is tried, at     *)
(* most one start every two seconds.                                       *)
(***************************************************************************)
EXTENDS Naturals

CONSTANTS Works,    \* the players of 0 .. 2 that work on this system
          Formats,  \* rates and channel counts of the stream
          Changes   \* bound: stops and format changes

SinkAssumption == Works \subseteq 0 .. 2 /\ Formats # {} /\ Changes \in Nat

VARIABLES
    pid,      \* audio_pid: 0, or the child
    fmt,      \* audio_rate and audio_ch, or "none"
    idx,      \* audio_sink_idx
    waiting,  \* audio_retry_ms is in the future
    kids,     \* children not reaped: [player, format, alive]; pid is a key
    stream,   \* the format the decoder sends
    heard,    \* the frame written last reached a player of its own format
    changes   \* stops and format changes so far

vars == <<pid, fmt, idx, waiting, kids, stream, heard, changes>>

\* No child has this pid.
NoKid == [player |-> 0, format |-> "none", alive |-> FALSE]

Init ==
    /\ pid = 0 /\ fmt = "none" /\ idx = 0 /\ waiting = FALSE
    /\ kids = [p \in {1, 2} |-> NoKid]
    /\ stream \in Formats /\ heard = FALSE /\ changes = 0

\* A pid for a new child: the system never reuses one not yet reaped.
FreePids(ks) == {p \in {1, 2} : ks[p] = NoKid}

\* SIGKILL and a wait that blocks: the child is gone when audio_stop returns.
KidsAfterStop == IF pid # 0 THEN [kids EXCEPT ![pid] = NoKid] ELSE kids

\* (a rotation that stops at the last player)
WriteFrameNoWrap ==
    /\ pid # 0 /\ fmt = stream
    /\ IF kids[pid].alive
       THEN heard' = (kids[pid].format = stream) /\ UNCHANGED <<pid, kids, idx>>
       ELSE /\ heard' = FALSE /\ pid' = 0 /\ kids' = KidsAfterStop
            /\ idx' = IF idx < 2 THEN idx + 1 ELSE 2
    /\ UNCHANGED <<fmt, waiting, stream, changes>>

\* A frame in the format of the running player: best effort, and a player that
\* is gone is reaped and the rotation advances.
WriteFrame ==
    /\ pid # 0 /\ fmt = stream
    /\ IF kids[pid].alive
       THEN heard' = (kids[pid].format = stream) /\ UNCHANGED <<pid, kids, idx>>
       ELSE /\ heard' = FALSE /\ pid' = 0 /\ kids' = KidsAfterStop
            /\ idx' = (idx + 1) % 3
    /\ UNCHANGED <<fmt, waiting, stream, changes>>

\* No player, or one of another format: it is stopped, and unless the backoff
\* runs a new one is started and written to.
SpawnFrame ==
    /\ pid = 0 \/ fmt # stream
    /\ IF waiting
       THEN /\ pid' = 0 /\ fmt' = "none" /\ kids' = KidsAfterStop
            /\ heard' = FALSE /\ UNCHANGED waiting
       ELSE /\ waiting' = TRUE /\ fmt' = stream
            /\ \E p \in FreePids(KidsAfterStop) :
                 /\ pid' = p
                 /\ kids' = [KidsAfterStop EXCEPT ![p] =
                       [player |-> idx, format |-> stream, alive |-> TRUE]]
            /\ heard' = TRUE
    /\ UNCHANGED <<idx, stream, changes>>

\* A player that does not work exits; one that works may be killed by the user.
SinkDies(p) ==
    /\ kids[p].alive /\ kids[p].player \notin Works
    /\ kids' = [kids EXCEPT ![p].alive = FALSE]
    /\ UNCHANGED <<pid, fmt, idx, waiting, stream, heard, changes>>

SinkKilled(p) ==
    /\ kids[p].alive /\ changes < Changes
    /\ kids' = [kids EXCEPT ![p].alive = FALSE] /\ changes' = changes + 1
    /\ UNCHANGED <<pid, fmt, idx, waiting, stream, heard>>

BackoffEnds ==
    /\ waiting /\ waiting' = FALSE
    /\ UNCHANGED <<pid, fmt, idx, kids, stream, heard, changes>>

\* video_stop, and another video.
AudioStop ==
    /\ changes < Changes /\ changes' = changes + 1
    /\ pid' = 0 /\ fmt' = "none" /\ kids' = KidsAfterStop /\ heard' = FALSE
    /\ stream' \in Formats
    /\ UNCHANGED <<idx, waiting>>

\* The stream changes its format.
NewFormat ==
    /\ changes < Changes /\ changes' = changes + 1
    /\ stream' \in Formats \ {stream}
    /\ UNCHANGED <<pid, fmt, idx, waiting, kids, heard>>

Frame == WriteFrame \/ SpawnFrame

Next ==
    \/ Frame \/ BackoffEnds \/ AudioStop \/ NewFormat
    \/ \E p \in {1, 2} : SinkDies(p) \/ SinkKilled(p)

\* Frames keep coming, time passes, and a player that cannot work exits before
\* long.
Fairness ==
    /\ WF_vars(Frame) /\ WF_vars(BackoffEnds)
    /\ \A p \in {1, 2} : WF_vars(SinkDies(p))

Spec == Init /\ [][Next]_vars /\ Fairness

-----------------------------------------------------------------------------
(* Properties.                                                             *)

\* The player started holds the sound device alone: the old one has let go of
\* it before a new one opens it (the comment in audio_stop).
OneSink == \A p, q \in {1, 2} : kids[p].alive /\ kids[q].alive => p = q

\* Whatever died and however the format changed, the sound comes back on a
\* player that works, when the system has one (the comment above
\* audio_sink_name).
SoundReturns == Works # {} => <>[](heard /\ pid # 0 /\ kids[pid].player \in Works)
=============================================================================
