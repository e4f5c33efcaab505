----------------------------- MODULE VideoPlayer -----------------------------
(***************************************************************************)
(* Playing a video: three actors in a row, each held back by the next one. *)
(* The feeder thread (video_feeder_thread of gui/browser_ui.c) downloads   *)
(* the segments of a playlist and writes them to the decoder's command     *)
(* pipe; the decoder process (src/media_decoder.c) decodes them and writes *)
(* frames to its output pipe; the window's loop reads that pipe only when  *)
(* the frame it holds is due.  Both pipes are bounded, so a consumer that  *)
(* does not read stops the whole row.  video_stop joins the feeder on the  *)
(* window's thread.                                                        *)
(*                                                                         *)
(* What travels is cut into units smaller than a pipe: a segment is its    *)
(* tag and length followed by body units, a message of the decoder its tag *)
(* followed by payload units.  A segment is never longer than what the     *)
(* decoder accepts (SF_DEFAULT_MAX_BODY is below MD_MAX_SEGMENT_BYTES).    *)
(***************************************************************************)
EXTENDS Naturals, Sequences

CONSTANTS NSegs,     \* segments of a playlist
          Body,      \* body units of a segment
          CmdCap,    \* units the command pipe holds
          OutCap,    \* units the output pipe holds
          Catchup,   \* MD_MAX_CATCHUP_READS
          Decodes,   \* what a segment may decode to: sequences of "V" and "A"
          MayDie,    \* whether the decoder may die
          Leaves     \* whether the user may leave the page while it plays

VideoAssumption ==
    /\ {NSegs, CmdCap, OutCap, Catchup} \subseteq Nat \ {0} /\ Body \in Nat
    /\ Decodes \subseteq Seq({"V", "A"}) /\ {MayDie, Leaves} \subseteq BOOLEAN

VARIABLES
    active,  \* video_active
    win,     \* where the window's thread is
    after,   \* what video_stop returns to: "play" (video_play) or "loop"
    vcount,  \* video frames read in this drain of the decoder's messages
    msg,     \* the message being read: its tag and the payload units missing
    due,     \* the frame held is not due yet
    base,    \* video_base_url is set
    th,      \* the feeder: "none" (no thread), its place, or "done"
    seg,     \* segments it has dealt with
    tosend,  \* units it has still to write
    pid,     \* decoder_pid: "none", "up", "dead" (an exited child not reaped)
    fds,     \* both pipes are open on the window's side
    cmd,     \* units in the command pipe
    out,     \* units in the output pipe
    dec,     \* where the decoder is
    need,    \* body units it has still to read
    emit,    \* units it has still to write
    inited   \* its stream_inited

window == <<active, win, after, vcount, msg, due, base>>
feeder == <<th, seg, tosend>>
decoder == <<dec, need, emit, inited>>
vars == <<window, feeder, pid, fds, cmd, out, decoder>>

\* The units of a command and of a message.
Segment == <<"DECODE">> \o [k \in 1 .. Body |-> "b"]

PayloadOf(tag) ==
    CASE tag = "V" -> 2
      [] tag \in {"A", "INFO", "ERROR"} -> 1
      [] OTHER -> 0

Message(tag) == <<tag>> \o [k \in 1 .. PayloadOf(tag) |-> "p"]

\* The messages of a decoded sequence of frames, one after the other.
Messages(fr) ==
    LET units[k \in 0 .. Len(fr)] ==
            IF k = 0 THEN <<>> ELSE units[k - 1] \o Message(fr[k])
    IN units[Len(fr)]

Idle ==
    /\ active = FALSE /\ win = "loop" /\ after = "loop" /\ vcount = 0
    /\ msg = [tag |-> "none", left |-> 0] /\ due = FALSE /\ base = FALSE

Init ==
    /\ Idle
    /\ th = "none" /\ seg = 0 /\ tosend = <<>>
    /\ pid = "none" /\ fds = FALSE /\ cmd = <<>> /\ out = <<>>
    /\ dec = "none" /\ need = 0 /\ emit = <<>> /\ inited = FALSE

(*------------------------------ the feeder -------------------------------*)

\* The top of the loop: cancelled, a segment that could not be resolved or
\* fetched, or a segment to send.
FeederCancelled ==
    /\ th = "top" /\ seg < NSegs /\ ~active
    /\ th' = "last" /\ UNCHANGED <<seg, tosend, window, pid, fds, cmd, out, decoder>>

FeederSkips ==
    /\ th = "fetch"
    /\ th' = "top" /\ seg' = seg + 1
    /\ UNCHANGED <<tosend, window, pid, fds, cmd, out, decoder>>

FeederTop ==
    /\ th = "top" /\ seg < NSegs /\ active
    /\ th' = "fetch" /\ UNCHANGED <<seg, tosend, window, pid, fds, cmd, out, decoder>>

\* (a feeder that gives up a segment when the video is stopped or slow)
FeederGivesUp ==
    /\ th = "fetch"
    /\ \E k \in 0 .. Body : tosend' = SubSeq(Segment, 1, 1 + k)
    /\ th' = "send"
    /\ UNCHANGED <<seg, window, pid, fds, cmd, out, decoder>>

FeederFetched ==
    /\ th = "fetch"
    /\ th' = "send" /\ tosend' = Segment
    /\ UNCHANGED <<seg, window, pid, fds, cmd, out, decoder>>

\* v_write: blocks while the pipe is full; fails at once when the decoder is
\* gone, which the feeder does not look at.
FeederWrites ==
    /\ th \in {"send", "flush"} /\ tosend # <<>>
    /\ IF pid = "up"
       THEN /\ Len(cmd) < CmdCap
            /\ cmd' = Append(cmd, Head(tosend)) /\ tosend' = Tail(tosend)
       ELSE /\ tosend' = <<>> /\ UNCHANGED cmd
    /\ UNCHANGED <<th, seg, window, pid, fds, out, decoder>>

FeederSent ==
    /\ th = "send" /\ tosend = <<>>
    /\ th' = "top" /\ seg' = seg + 1
    /\ UNCHANGED <<tosend, window, pid, fds, cmd, out, decoder>>

\* After the loop: MD_FLUSH when still playing.
FeederLast ==
    /\ \/ th = "top" /\ seg = NSegs
       \/ th = "last"
    /\ IF active THEN th' = "flush" /\ tosend' = <<"FLUSH">>
                 ELSE th' = "done" /\ UNCHANGED tosend
    /\ UNCHANGED <<seg, window, pid, fds, cmd, out, decoder>>

FeederEnds ==
    /\ th = "flush" /\ tosend = <<>>
    /\ th' = "done" /\ UNCHANGED <<seg, tosend, window, pid, fds, cmd, out, decoder>>

Feeder ==
    \/ FeederCancelled \/ FeederTop \/ FeederSkips \/ FeederFetched
    \/ FeederWrites \/ FeederSent \/ FeederLast \/ FeederEnds

(*------------------------------ the decoder ------------------------------*)

\* media_decoder_run: the next command.
DecoderCommand ==
    /\ pid = "up" /\ dec = "cmd" /\ emit = <<>> /\ cmd # <<>>
    /\ cmd' = Tail(cmd)
    /\ CASE Head(cmd) = "DECODE" -> dec' = "body" /\ need' = Body /\ UNCHANGED emit
         [] Head(cmd) = "FLUSH" ->
              \E fr \in Decodes \cup {<<>>} :
                emit' = (IF inited THEN Messages(fr) ELSE <<>>) \o Message("EOS")
                /\ UNCHANGED <<dec, need>>
    /\ UNCHANGED <<window, feeder, pid, fds, out, inited>>

DecoderReads ==
    /\ pid = "up" /\ dec = "body" /\ need > 0 /\ cmd # <<>>
    /\ cmd' = Tail(cmd) /\ need' = need - 1
    /\ UNCHANGED <<window, feeder, pid, fds, out, dec, emit, inited>>

\* decode_segment; a fatal error resets the decoder for the next segment.
DecodeSegment ==
    /\ pid = "up" /\ dec = "body" /\ need = 0
    /\ dec' = "cmd"
    /\ \/ \E fr \in Decodes :
            /\ emit' = (IF inited THEN <<>> ELSE Message("INFO")) \o Messages(fr)
            /\ inited' = TRUE
       \/ emit' = Message("ERROR") /\ inited' = FALSE
    /\ UNCHANGED <<window, feeder, pid, fds, cmd, out, need>>

\* write_full: blocks while the output pipe is full.
DecoderWrites ==
    /\ pid = "up" /\ emit # <<>> /\ Len(out) < OutCap
    /\ out' = Append(out, Head(emit)) /\ emit' = Tail(emit)
    /\ UNCHANGED <<window, feeder, pid, fds, cmd, dec, need, inited>>

\* Killed, out of memory or crashed in a codec.
DecoderDies ==
    /\ MayDie /\ pid = "up"
    /\ pid' = "dead" /\ dec' = "none" /\ need' = 0 /\ emit' = <<>> /\ inited' = FALSE
    /\ UNCHANGED <<window, feeder, fds, cmd, out>>

Decoder == DecoderCommand \/ DecoderReads \/ DecodeSegment \/ DecoderWrites

(*------------------------------ the window -------------------------------*)

\* poll reports POLLIN for a pipe that holds something, and only POLLHUP for
\* an empty one whose writer is gone: the loop looks at POLLIN alone.
PollIn == fds /\ out # <<>>

\* The decoder's descriptor is polled while playing and once the frame held
\* is due.
Polled == active /\ fds /\ ~due

\* video_read_frame: the tag.  The rest of the message is waited for.
ReadTag ==
    /\ \/ win = "loop" /\ Polled
       \/ win = "drain"
    /\ PollIn
    /\ out' = Tail(out)
    /\ IF Head(out) = "EOS"
       THEN active' = FALSE /\ win' = "loop" /\ vcount' = 0 /\ UNCHANGED msg
       ELSE /\ win' = "payload"
            /\ msg' = [tag |-> Head(out), left |-> PayloadOf(Head(out))]
            /\ UNCHANGED <<active, vcount>>
    /\ UNCHANGED <<after, due, base, feeder, pid, fds, cmd, decoder>>

\* v_read polls and tries again on a pipe that is empty.
ReadPayload ==
    /\ win = "payload" /\ msg.left > 0 /\ out # <<>>
    /\ out' = Tail(out) /\ msg' = [msg EXCEPT !.left = @ - 1]
    /\ UNCHANGED <<active, win, after, vcount, due, base, feeder, pid, fds, cmd, decoder>>

\* v_read meets the end of the pipe inside a message.
ReadCut ==
    /\ win = "payload" /\ msg.left > 0 /\ out = <<>> /\ pid = "dead"
    /\ win' = "loop" /\ vcount' = 0 /\ msg' = [tag |-> "none", left |-> 0]
    /\ UNCHANGED <<active, after, due, base, feeder, pid, fds, cmd, out, decoder>>

\* A whole message: a video frame is held until it is due, and the drain stops
\* at one that is not due yet or after Catchup of them.
ReadDone ==
    /\ win = "payload" /\ msg.left = 0
    /\ msg' = [tag |-> "none", left |-> 0]
    /\ IF msg.tag = "V"
       THEN /\ due' \in BOOLEAN
            /\ IF due' \/ vcount + 1 >= Catchup
               THEN win' = "loop" /\ vcount' = 0
               ELSE win' = "drain" /\ vcount' = vcount + 1
       ELSE win' = "drain" /\ UNCHANGED <<due, vcount>>
    /\ UNCHANGED <<active, after, base, feeder, pid, fds, cmd, out, decoder>>

DrainEnds ==
    /\ win = "drain" /\ ~PollIn
    /\ win' = "loop" /\ vcount' = 0
    /\ UNCHANGED <<active, after, msg, due, base, feeder, pid, fds, cmd, out, decoder>>

\* Time passes until the frame held is due.
FrameDue ==
    /\ due /\ win = "loop"
    /\ due' = FALSE
    /\ UNCHANGED <<active, win, after, vcount, msg, base, feeder, pid, fds, cmd, out, decoder>>

\* A click on a video is ignored while one plays (dispatch_click).
Click ==
    /\ win = "loop" /\ ~active
    /\ win' = "stop" /\ after' = "play"
    /\ UNCHANGED <<active, vcount, msg, due, base, feeder, pid, fds, cmd, out, decoder>>

\* Another page is rendered, or the window is closed.
Leave ==
    /\ Leaves /\ win = "loop"
    /\ win' = "stop" /\ after' = "loop"
    /\ UNCHANGED <<active, vcount, msg, due, base, feeder, pid, fds, cmd, out, decoder>>

\* video_stop up to the join, the join, and the decoder told to quit.
StopBegins ==
    /\ win = "stop"
    /\ active' = FALSE
    /\ win' = IF th # "none" THEN "join" ELSE "quit"
    /\ UNCHANGED <<after, vcount, msg, due, base, feeder, pid, fds, cmd, out, decoder>>

Join ==
    /\ win = "join" /\ th = "done"
    /\ th' = "none" /\ seg' = 0 /\ win' = "quit"
    /\ UNCHANGED <<active, after, vcount, msg, due, base, tosend, pid, fds, cmd, out, decoder>>

\* MD_QUIT is written like any command, and both pipes are closed.  What
\* happens to the old decoder concerns nobody from here on.
Quit ==
    /\ win = "quit" /\ (pid = "up" => Len(cmd) < CmdCap)
    /\ win' = after /\ vcount' = 0 /\ msg' = [tag |-> "none", left |-> 0]
    /\ active' = FALSE /\ due' = FALSE /\ base' = FALSE /\ after' = "loop"
    /\ pid' = "none" /\ fds' = FALSE /\ cmd' = <<>> /\ out' = <<>>
    /\ dec' = "none" /\ need' = 0 /\ emit' = <<>> /\ inited' = FALSE
    /\ UNCHANGED feeder

\* video_play after the stop: no playlist, or no decoder.
PlayFails ==
    /\ win = "play"
    /\ win' = "loop"
    /\ UNCHANGED <<active, after, vcount, msg, due, base, feeder, pid, fds, cmd, out, decoder>>

\* The decoder and the feeder start.  The feeder of a playlist with no base URL
\* (a master playlist that names segments and no variant) returns at once.
PlayStarts ==
    /\ win = "play"
    /\ win' = "loop" /\ active' = TRUE
    /\ base' \in BOOLEAN
    /\ th' = IF base' THEN "top" ELSE "done"
    /\ pid' = "up" /\ fds' = TRUE /\ dec' = "cmd"
    /\ UNCHANGED <<after, vcount, msg, due, seg, tosend, cmd, out, need, emit, inited>>

\* The decoder starts and the event descriptor or the thread does not.
PlayAborts ==
    /\ win = "play"
    /\ win' = "stop" /\ active' = TRUE
    /\ base' \in BOOLEAN
    /\ pid' = "up" /\ fds' = TRUE /\ dec' = "cmd"
    /\ UNCHANGED <<after, vcount, msg, due, feeder, cmd, out, need, emit, inited>>

Reading == ReadTag \/ ReadPayload \/ ReadCut \/ ReadDone \/ DrainEnds
Stopping == StopBegins \/ Join \/ Quit

Next ==
    \/ Feeder \/ Decoder \/ DecoderDies
    \/ Reading \/ FrameDue \/ Stopping
    \/ Click \/ Leave \/ PlayFails \/ PlayStarts \/ PlayAborts

\* Each thread and process keeps running: the feeder's fetch has a timeout,
\* the decoder ends what it is given, the window's loop comes round and the
\* clock reaches the instant a frame is due at.
Fairness ==
    /\ WF_vars(Feeder) /\ WF_vars(Decoder)
    /\ WF_vars(Reading) /\ WF_vars(FrameDue) /\ WF_vars(Stopping)
    /\ WF_vars(PlayFails \/ PlayStarts \/ PlayAborts)

Spec == Init /\ [][Next]_vars /\ Fairness

-----------------------------------------------------------------------------
(* Properties.                                                             *)

\* The feeder never runs on a descriptor, a playlist or a base URL that
\* video_stop has closed or freed, and there is never a second one: the join
\* comes first (browser_ui.c:562).
FeederOwns ==
    /\ th \notin {"none", "done"} => base /\ fds /\ pid # "none"
    /\ win = "play" => th = "none" /\ pid = "none"

\* Both ends of each pipe agree on where a message begins, whatever was
\* skipped, cut short by a stop or decoded with an error: the decoder never
\* takes segment bytes for a command, nor the window pixels for a tag.
Framed ==
    /\ pid = "up" /\ dec = "cmd" /\ cmd # <<>> => Head(cmd) # "b"
    /\ pid = "up" /\ win \in {"loop", "drain"} /\ out # <<>> => Head(out) # "p"

\* Backpressure never stops the row for good: a video that plays comes to its
\* end, is stopped, or loses its decoder.
PlaysOut == active /\ base ~> ~active \/ pid = "dead"

\* video_stop returns (the comment at browser_ui.c:11465: "so the thread
\* doesn't deadlock waiting for a pipe").
StopReturns == win = "stop" ~> win \in {"loop", "play"}
=============================================================================
