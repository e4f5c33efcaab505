------------------------------- MODULE WsPump -------------------------------
(***************************************************************************)
(* Receiving on one WebSocket (wh_on_readable of src/ws_hub.c): frames are *)
(* read without blocking, at most WH_READS_PER_PUMP a time, and put        *)
(* together into messages.  The window calls it when poll finds the socket *)
(* readable.                                                               *)
(*                                                                         *)
(* curl (external) reads ahead: it takes what the socket holds into a      *)
(* buffer of its own, which poll does not see, and answers from there.     *)
(***************************************************************************)
EXTENDS Naturals, Sequences

CONSTANTS Msgs,      \* what the peer sends: messages, each the sizes of its frames
          MaxMessage, \* SF_WS_MAX_MESSAGE
          Reads      \* WH_READS_PER_PUMP

PumpAssumption ==
    /\ Msgs \in Seq(Seq(Nat) \ {<<>>}) /\ MaxMessage \in Nat /\ Reads \in Nat \ {0}

VARIABLES
    wire,   \* frames not yet sent
    sock,   \* frames the socket holds
    ahead,  \* frames in curl's buffer
    acc,    \* the message being reassembled: the frames it is made of
    len,    \* its length
    out,    \* messages given to the page: their frames
    n,      \* reads left in this pump; 0 outside
    st      \* "open" or "failed"

vars == <<wire, sock, ahead, acc, len, out, n, st>>

\* A frame: its message, its place, its size, whether it is the last.
Frames(m) ==
    [k \in 1 .. Len(Msgs[m]) |->
        [msg |-> m, at |-> k, size |-> Msgs[m][k], last |-> k = Len(Msgs[m])]]

\* Everything the peer sends, message after message.
All ==
    LET upto[m \in 0 .. Len(Msgs)] == IF m = 0 THEN <<>> ELSE upto[m - 1] \o Frames(m)
    IN upto[Len(Msgs)]

Init ==
    /\ wire = All /\ sock = <<>> /\ ahead = <<>>
    /\ acc = <<>> /\ len = 0 /\ out = <<>> /\ n = 0 /\ st = "open"

\* The peer's next frame arrives.
Arrive ==
    /\ wire # <<>>
    /\ sock' = Append(sock, Head(wire)) /\ wire' = Tail(wire)
    /\ UNCHANGED <<ahead, acc, len, out, n, st>>

PumpBetween ==
    /\ n = 0 /\ st = "open" /\ sock # <<>> /\ acc = <<>>
    /\ n' = Reads
    /\ UNCHANGED <<wire, sock, ahead, acc, len, out, st>>

\* POLLIN
Pump ==
    /\ n = 0 /\ st = "open" /\ sock # <<>>
    /\ n' = Reads
    /\ UNCHANGED <<wire, sock, ahead, acc, len, out, st>>

\* curl_ws_recv: refills an empty buffer, then answers with its first frame.
Supply ==
    IF ahead # <<>> THEN {<<ahead, sock>>}
    ELSE {<<SubSeq(sock, 1, k), SubSeq(sock, k + 1, Len(sock))>> : k \in 1 .. Len(sock)}

\* sf_ws_recv finds nothing.
Again ==
    /\ n > 0 /\ st = "open" /\ ahead = <<>> /\ sock = <<>>
    /\ n' = 0
    /\ UNCHANGED <<wire, sock, ahead, acc, len, out, st>>

\* A message past the limit: fail_conn.
TooLong(f) == f.size > MaxMessage - len

AddEach(f) ==
    /\ out' = Append(out, Append(acc, f))
    /\ acc' = <<>> /\ len' = 0

\* A whole message goes to the page and the next one starts empty.
Add(f) ==
    IF f.last
    THEN out' = Append(out, Append(acc, f)) /\ acc' = <<>> /\ len' = 0
    ELSE acc' = Append(acc, f) /\ len' = len + f.size /\ UNCHANGED out

Recv ==
    /\ n > 0 /\ st = "open"
    /\ \E s \in Supply :
           /\ ahead' = Tail(s[1]) /\ sock' = s[2]
           /\ IF TooLong(Head(s[1]))
              THEN st' = "failed" /\ n' = 0 /\ UNCHANGED <<acc, len, out>>
              ELSE Add(Head(s[1])) /\ n' = n - 1 /\ UNCHANGED st
    /\ UNCHANGED wire

Next == Arrive \/ Pump \/ Recv \/ Again

\* The peer sends what it has, poll reports a readable socket and the pump
\* runs to its end.
Spec == Init /\ [][Next]_vars /\ WF_vars(Arrive) /\ WF_vars(Pump \/ Recv \/ Again)

(***************************************************************************)
(* Properties.                                                             *)
(***************************************************************************)
Size(m) ==
    LET upto[k \in 0 .. Len(Msgs[m])] == IF k = 0 THEN 0 ELSE upto[k - 1] + Msgs[m][k]
    IN upto

Bytes(m) == Size(m)[Len(Msgs[m])]

\* Every message handed to the page is one the peer sent, whole, in order,
\* whatever pieces and pumps it came in.
MessagesWhole ==
    \A k \in DOMAIN out : out[k] = Frames(k) /\ Bytes(k) <= MaxMessage

\* The messages before the first that is too long.
Deliverable ==
    {m \in 1 .. Len(Msgs) : \A k \in 1 .. m : Bytes(k) <= MaxMessage}

\* Everything the peer sent is in the end delivered, however the frames and
\* the pumps fall, unless the connection fails over a message that is too long;
\* the last frames may stay in curl's buffer when a pump used up its reads.
Delivered == <>[](ahead # <<>> \/ \A m \in Deliverable : m <= Len(out))
=============================================================================
