------------------------- MODULE TabChannel_proofs --------------------------
(***************************************************************************)
(* For any pipe, batch, budget and number of operations and requests: the  *)
(* parent and the worker of a tab take turns, so that the replies the      *)
(* worker waits for are the ones the parent sends, in the order of the     *)
(* callbacks; results do not cross operations, no thread fetches for the   *)
(* page before once a load is sent, and all limits are kept.               *)
(***************************************************************************)
EXTENDS TabChannel, FiniteSetTheorems, SequenceTheorems, TLAPS

-----------------------------------------------------------------------------
(* The inductive invariant.                                                *)

Kinds == Ops \cup {"load", "quiet"}

ParRec == [pc : {"idle", "discard", "send", "serve", "fetch", "reply", "join", "unbind",
                 "closing", "closed"},
           op : Kinds, out : Seq(ReplyRec), id : Nat]
TabRec == [alive : BOOLEAN, net : BOOLEAN, css : BOOLEAN, fetcher : {"base", "frame"},
           over : BOOLEAN, bytes : Nat, opn : Nat, page : Nat]
WrkRec == [pc : {"idle", "run", "sync", "collect", "dead"},
           phase : {"css", "script", "drain", "deliver", "tail", "result"},
           op : Kinds, n : Nat, js : BOOLEAN, last_net : BOOLEAN, net_active : BOOLEAN,
           used : Nat, pending : Nat, round : Nat, need : Nat, wait : Nat]

ToWorker == [t : {"op"}, id : Nat, op : Kinds, net : BOOLEAN, css : BOOLEAN, js : BOOLEAN]
            \cup ReplyRec

Types ==
    /\ req \in Seq(ToWorker) /\ resp \in Seq(FrameRec)
    /\ par \in ParRec /\ tab \in TabRec /\ batch \in Seq(JobRec) /\ wrk \in WrkRec
    /\ nq \in Seq(Nat) /\ got \in Seq(Nat) /\ seq \in Nat
    /\ done \in [n : Nat, ok : BOOLEAN, of : Nat]
    /\ slip \in {"none", "interrupt", "refused"}
    /\ par.pc = "reply" => par.out # <<>>

(* The batch is the present page's once its load is sent. *)
OwnBatch ==
    par.op = "load" =>
        /\ par.pc = "send" => batch = <<>>
        /\ par.pc \in {"serve", "fetch", "reply", "join"} =>
               \A i \in 1..Len(batch) : batch[i].page = tab.page

(* The response pipe, also that of a worker that has died. *)
RespInTurn ==
    /\ par.pc # "serve" => resp = <<>>
    /\ \A i \in 1..Len(resp) :
           /\ resp[i].t # "ASYNC" => i = Len(resp)
           /\ resp[i].t = "RESULT" => resp[i].id = tab.opn
           /\ par.op = "quiet" => resp[i].t = "RESULT"
    /\ par.out # <<>> => par.pc = "reply"
    /\ par.pc = "discard" => par.op = "load"

(* Whose turn it is, when the worker lives. *)
LastIs(t) == resp # <<>> /\ resp[Len(resp)].t = t

Between == par.pc \in {"idle", "discard", "send", "unbind"} /\ wrk.pc = "idle" /\ req = <<>>
           /\ (par.pc \in {"discard", "send"} => wrk.n < tab.opn)

Sent == /\ par.pc = "serve" /\ wrk.pc = "idle" /\ resp = <<>> /\ wrk.n < tab.opn
        /\ Len(req) = 1 /\ req[1].t = "op" /\ req[1].id = tab.opn /\ req[1].op = par.op
        /\ par.op = "load" => batch = <<>>

Obeying == wrk.n = tab.opn /\ wrk.op = par.op

Run == Obeying /\ par.pc = "serve" /\ wrk.pc = "run" /\ req = <<>>
       /\ \A i \in 1..Len(resp) : resp[i].t = "ASYNC"

Answered == Obeying /\ par.pc = "serve" /\ wrk.pc = "idle" /\ req = <<>> /\ LastIs("RESULT")

Sync == /\ Obeying /\ wrk.pc = "sync"
        /\ \/ par.pc = "serve" /\ req = <<>> /\ LastIs("SUBREQ") /\ resp[Len(resp)].id = wrk.wait
           \/ par.pc = "fetch" /\ req = <<>> /\ par.id = wrk.wait
           \/ par.pc = "reply" /\ req = <<>> /\ Len(par.out) = 1 /\ par.out[1].id = wrk.wait
           \/ /\ par.pc = "serve" /\ resp = <<>> /\ Len(req) = 1
              /\ req[1].t = "reply" /\ req[1].id = wrk.wait

Asked == /\ Obeying /\ wrk.pc = "collect" /\ req = <<>> /\ got = <<>>
         /\ (par.pc = "serve" /\ LastIs("NETWAIT")) \/ par.pc = "join"

Replying == /\ Obeying /\ wrk.pc = "collect" /\ par.pc \in {"reply", "serve"}
            /\ resp = <<>> /\ batch = <<>>
            /\ \A i \in 1..Len(req) : req[i].t = "reply"

Turns == Between \/ Sent \/ Run \/ Answered \/ Sync \/ Asked \/ Replying

(* What the worker keeps of its operation. *)
WorkerSound ==
    /\ got # <<>> => wrk.pc = "collect" \/ (wrk.pc \in {"run", "sync"} /\ wrk.phase = "deliver")
    /\ wrk.op = "quiet" => wrk.pc \in {"idle", "run"}
                           /\ (wrk.pc = "run" => wrk.phase = "result" /\ ~wrk.net_active)
    /\ wrk.pc = "collect" => Len(got) < wrk.need /\ wrk.pending = 0
    /\ wrk.n <= tab.opn

Counted ==
    Len(Owed) = wrk.pending + (IF wrk.pc = "collect" THEN wrk.need - Len(got) ELSE 0)

InOrder == slip = "none" => nq = got \o Owed

Protocol ==
    slip # "refused" =>
        /\ RespInTurn
        /\ ~Dead => Turns /\ WorkerSound /\ (~Abandoned => Counted /\ InOrder)

ChannelInv == Types /\ OwnBatch /\ OwnResult /\ Protocol

-----------------------------------------------------------------------------
(* Sequences of messages.                                                  *)

LEMMA ReplyTyped ==
    ASSUME NEW i \in Nat, NEW k \in BOOLEAN
    PROVE  Reply(i, k) \in ReplyRec /\ Reply(i, k).t = "reply" /\ Reply(i, k).id = i
BY DEF Reply, ReplyRec

LEMMA FrameTyped ==
    ASSUME NEW t \in {"SUBREQ", "ASYNC", "NETWAIT", "RESULT"}, NEW i \in Nat,
           NEW m \in Methods \cup {"none"}
    PROVE  Frame(t, i, m) \in FrameRec /\ Frame(t, i, m).t = t /\ Frame(t, i, m).id = i
BY DEF Frame, FrameRec

LEMMA OpTyped ==
    ASSUME NEW n \in Nat, NEW o \in Kinds, NEW r \in Grants
    PROVE  OpMsg(n, o, r) \in ToWorker /\ OpMsg(n, o, r).t = "op" /\ OpMsg(n, o, r).id = n
           /\ OpMsg(n, o, r).op = o
BY DEF OpMsg, ToWorker, Grants

LEMMA OneReply ==
    ASSUME NEW r \in ReplyRec
    PROVE  <<r>> \in Seq(ReplyRec) /\ <<r>> # <<>> /\ Len(<<r>>) = 1 /\ <<r>>[1] = r
OBVIOUS

LEMMA NotEmpty ==
    ASSUME NEW S, NEW s \in Seq(S), Len(s) # 0
    PROVE  s # <<>>
BY EmptySeq

LEMMA BatchRepliesTyped ==
    ASSUME batch \in Seq(JobRec)
    PROVE  /\ BatchReplies \in Seq(ReplyRec) /\ Len(BatchReplies) = Len(batch)
           /\ \A i \in 1..Len(batch) : BatchReplies[i].id = batch[i].id
<1>1. Len(batch) \in Nat /\ \A i \in 1..Len(batch) : batch[i].id \in Nat
  <2>1. Len(batch) \in Nat /\ \A i \in 1..Len(batch) : batch[i] \in JobRec
    BY ElementOfSeq, LenProperties
  <2> QED
    BY <2>1 DEF JobRec
<1>2. \A i \in 1..Len(batch) :
          (batch[i].ok /\ tab.bytes + Bodies(i) <= MaxBytes) \in BOOLEAN
  OBVIOUS
<1>3. \A i \in 1..Len(batch) : BatchReplies[i] \in ReplyRec /\ BatchReplies[i].id = batch[i].id
  BY <1>1, <1>2, ReplyTyped DEF BatchReplies
<1> QED
  BY <1>1, <1>3, IsASeq DEF BatchReplies

-----------------------------------------------------------------------------
(* Types.                                                                  *)

LEMMA RecordsTyped ==
    ASSUME Types
    PROVE  /\ \A m \in ToWorker : m.id \in Nat /\ m.t \in {"op", "reply"}
                 /\ (m.t = "op" => m.op \in Kinds /\ m.net \in BOOLEAN /\ m.css \in BOOLEAN
                                   /\ m.js \in BOOLEAN)
                 /\ (m.t = "reply" => m.ok \in BOOLEAN)
           /\ \A m \in ReplyRec : m.id \in Nat /\ m.t = "reply" /\ m \in ToWorker
           /\ \A m \in FrameRec : m.id \in Nat /\ m.method \in Methods \cup {"none"}
                 /\ m.t \in {"SUBREQ", "ASYNC", "NETWAIT", "RESULT"}
BY DEF ToWorker, ReplyRec, FrameRec

LEMMA ReqTyped ==
    ASSUME Types, req # <<>>
    PROVE  Head(req) \in ToWorker /\ Tail(req) \in Seq(ToWorker) /\ Head(req) = req[1]
           /\ Len(req) \in Nat \ {0} /\ Len(Tail(req)) = Len(req) - 1
           /\ \A i \in 1..Len(req) - 1 : Tail(req)[i] = req[i + 1]
BY HeadTailProperties, LenProperties, EmptySeq DEF Types

LEMMA RespTyped ==
    ASSUME Types, resp # <<>>
    PROVE  Head(resp) \in FrameRec /\ Tail(resp) \in Seq(FrameRec) /\ Head(resp) = resp[1]
           /\ Len(resp) \in Nat \ {0} /\ Len(Tail(resp)) = Len(resp) - 1
           /\ \A i \in 1..Len(resp) - 1 : Tail(resp)[i] = resp[i + 1]
BY HeadTailProperties, LenProperties, EmptySeq DEF Types

LEMMA NetWaitBytes ==
    ASSUME Types
    PROVE  Cardinality({i \in 1..Len(batch) : BatchReplies[i].ok}) \in Nat
<1>1. Len(batch) \in Nat
  BY LenProperties DEF Types
<1>2. IsFiniteSet(1..Len(batch))
  BY <1>1, FS_Interval
<1> QED
  BY <1>2, FS_Subset, FS_CardinalityType

LEMMA FailTypes ==
    ASSUME Types, Fail
    PROVE  par' \in ParRec /\ tab' \in TabRec /\ done' \in [n : Nat, ok : BOOLEAN, of : Nat]
           /\ par'.pc # "reply"
BY EmptySeq DEF Types, Fail, Return, NoServe, ParRec, TabRec, Kinds, Dead

LEMMA ServeTagTypes ==
    ASSUME Types, ServeTag
    PROVE  Types'
<1> DEFINE m == Head(resp)
<1>1. m \in FrameRec /\ resp' \in Seq(FrameRec) /\ m.id \in Nat
  BY RespTyped, RecordsTyped DEF ServeTag
<1>2. UNCHANGED <<req, wrk, nq, got, seq>>
  BY DEF ServeTag
<1>3. CASE ServeResult(m)
  <2>1. PICK c \in {"unbind", "idle"} : par' = [NoServe EXCEPT !.pc = c]
    BY <1>3 DEF ServeResult, Return
  <2>2. par' \in ParRec /\ par'.pc # "reply"
    BY <2>1, EmptySeq DEF NoServe, ParRec, Kinds
  <2>3. done' = [n |-> tab.opn, ok |-> TRUE, of |-> m.id] /\ tab.opn \in Nat
    BY <1>3 DEF ServeResult, Return, Types, TabRec
  <2>4. done' \in [n : Nat, ok : BOOLEAN, of : Nat]
    BY <1>1, <2>3
  <2>5. UNCHANGED <<tab, batch, slip>>
    BY <1>3 DEF ServeResult
  <2> QED
    BY <1>1, <1>2, <2>2, <2>4, <2>5 DEF Types
<1>4. CASE ServeSubreq(m)
  <2>1. <<Reply(m.id, FALSE)>> \in Seq(ReplyRec)
    BY <1>1, ReplyTyped, OneReply
  <2> QED
    BY <1>1, <1>2, <1>4, <2>1, OneReply, ReplyTyped DEF Types, ServeSubreq, ParRec
<1>5. CASE Submit(m)
  <2>1. CASE Fail /\ slip' = "refused" /\ UNCHANGED <<batch, frame>>
    BY <1>1, <1>2, <2>1, FailTypes DEF Types
  <2>2. CASE /\ batch' = Append(batch, Job(m.id, tab.over \/ ~Granted(m.method)))
             /\ UNCHANGED <<par, tab, frame, done, slip>>
    <3>1. Job(m.id, tab.over \/ ~Granted(m.method)) \in JobRec
      BY <1>1 DEF Job, JobRec, Types, TabRec
    <3>2. batch' \in Seq(JobRec)
      BY <2>2, <3>1, AppendProperties DEF Types
    <3> QED
      BY <1>1, <1>2, <2>2, <3>2 DEF Types
  <2> QED
    BY <1>5, <2>1, <2>2 DEF Submit
<1>6. CASE par' = [par EXCEPT !.pc = "join"] /\ UNCHANGED <<tab, batch, frame, done, slip>>
  BY <1>1, <1>2, <1>6 DEF Types, ParRec
<1>7. CASE Fail /\ UNCHANGED <<batch, frame, slip>>
  BY <1>1, <1>2, <1>7, FailTypes DEF Types
<1> QED
  BY <1>3, <1>4, <1>5, <1>6, <1>7 DEF ServeTag

LEMMA ParentTypes ==
    ASSUME Types, Parent
    PROVE  Types'
<1> USE DEF Types, UnchangedWorker
<1>1. CASE Discard
  BY <1>1, EmptySeq DEF Discard, ParRec, TabRec
<1>2. ASSUME NEW r \in Grants, Send(r)
      PROVE  Types'
  <2>1. OpMsg(tab.opn, par.op, r) \in ToWorker
    BY OpTyped DEF TabRec, ParRec
  <2>2. req' \in Seq(ToWorker)
    BY <1>2, <2>1, AppendProperties DEF Send
  <2>3. tab' \in TabRec /\ par' \in ParRec
    BY <1>2 DEF Send, TabRec, ParRec, Grants
  <2> QED
    BY <1>2, <2>2, <2>3 DEF Send
<1>3. CASE Broken
  BY <1>3, FailTypes DEF Broken
<1>4. CASE ServeTag
  BY <1>4, ServeTagTypes
<1>5. CASE SyncFetched
  <2>1. PICK ok \in BOOLEAN : par' = [par EXCEPT !.pc = "reply", !.out = <<Reply(par.id, ok)>>]
    BY <1>5 DEF SyncFetched
  <2>2. <<Reply(par.id, ok)>> \in Seq(ReplyRec)
    BY ReplyTyped, OneReply DEF ParRec
  <2>3. par' \in ParRec /\ par'.out # <<>>
    BY <2>1, <2>2 DEF ParRec
  <2>4. tab' \in TabRec
    BY <1>5 DEF SyncFetched, TabRec
  <2> QED
    BY <1>5, <2>3, <2>4 DEF SyncFetched
<1>6. CASE NetWait
  <2>1. BatchReplies \in Seq(ReplyRec)
    BY BatchRepliesTyped
  <2>2. par' \in ParRec
    BY <1>6, <2>1 DEF NetWait, ParRec
  <2>3. PICK o \in BOOLEAN :
            tab' = [tab EXCEPT !.over = @ \/ (o /\ par.op # "load"),
                      !.bytes = @ + Cardinality({i \in 1..Len(batch) : BatchReplies[i].ok})]
    BY <1>6 DEF NetWait
  <2> DEFINE sum  == tab.bytes + Cardinality({i \in 1..Len(batch) : BatchReplies[i].ok})
             past == tab.over \/ (o /\ par.op # "load")
  <2>4. sum \in Nat /\ past \in BOOLEAN
    <3>1. sum \in Nat
      BY NetWaitBytes DEF TabRec
    <3> QED
      BY <3>1
  <2>5. tab' = [tab EXCEPT !.over = past, !.bytes = sum]
    BY <2>3 DEF TabRec
  <2> HIDE DEF sum, past
  <2>6. tab' \in TabRec
    BY <2>4, <2>5 DEF TabRec
  <2>7. par'.pc = "reply" => par'.out # <<>>
    BY <1>6, BatchRepliesTyped, EmptySeq, LenProperties DEF NetWait, ParRec
  <2> QED
    BY <1>6, <2>2, <2>6, <2>7, EmptySeq DEF NetWait
<1>7. CASE WriteReply
  <2>1. par.out \in Seq(ReplyRec)
    BY DEF ParRec
  <2>2. par.out # <<>> => Head(par.out) \in ToWorker /\ Tail(par.out) \in Seq(ReplyRec)
    BY <2>1, HeadTailProperties DEF ToWorker
  <2>3. par.out # <<>> /\ req' \in Seq(ToWorker)
    BY <1>7, <2>2, AppendProperties DEF WriteReply
  <2>4. Len(par.out) # 1 => Tail(par.out) # <<>>
    <3>1. Len(Tail(par.out)) = Len(par.out) - 1 /\ Len(par.out) \in Nat
      BY <2>1, <2>3, HeadTailProperties, LenProperties
    <3>2. Len(par.out) # 1 => Len(Tail(par.out)) # 0
      BY <3>1
    <3> QED
      BY <2>2, <2>3, <3>2, NotEmpty
  <2>5. par' \in ParRec /\ (par'.pc = "reply" => par'.out # <<>>)
    BY <1>7, <2>2, <2>3, <2>4 DEF WriteReply, ParRec
  <2> QED
    BY <1>7, <2>3, <2>5 DEF WriteReply
<1>8. CASE Unbind
  BY <1>8, EmptySeq DEF Unbind, NoServe, ParRec, TabRec, Kinds
<1>9. CASE FreeTab
  BY <1>9, EmptySeq DEF FreeTab, ParRec
<1> QED
  BY <1>1, <1>2, <1>3, <1>4, <1>5, <1>6, <1>7, <1>8, <1>9 DEF Parent

LEMMA WorkerTypes ==
    ASSUME Types, Worker
    PROVE  Types'
<1> USE DEF UnchangedParent
<1>0. /\ wrk \in WrkRec /\ req \in Seq(ToWorker) /\ resp \in Seq(FrameRec)
      /\ nq \in Seq(Nat) /\ got \in Seq(Nat) /\ seq \in Nat
  BY DEF Types
<1>1. CASE ReadOp
  <2> DEFINE m == Head(req)
  <2>1. req # <<>> /\ m \in ToWorker /\ Tail(req) \in Seq(ToWorker)
    BY <1>0, <1>1, ReqTyped DEF ReadOp
  <2>2. m.id \in Nat /\ m.t \in {"op", "reply"}
        /\ (m.t = "op" => m.op \in Kinds /\ m.net \in BOOLEAN /\ m.css \in BOOLEAN
                          /\ m.js \in BOOLEAN)
    BY <1>0, <2>1, RecordsTyped
  <2>3. ASSUME m.t = "op"
        PROVE  StartLoad(m) \in WrkRec
    <3>1. PICK p \in {"css", "script", "result"}, a \in BOOLEAN :
              StartLoad(m) = [wrk EXCEPT !.pc = "run", !.op = "load", !.n = m.id, !.js = m.js,
                                         !.last_net = m.net, !.phase = p, !.net_active = a,
                                         !.used = 0, !.pending = 0, !.round = 0]
      BY <2>2, <2>3 DEF StartLoad
    <3>2. PICK k \in Kinds, x \in Nat, j \in BOOLEAN, l \in BOOLEAN :
              k = "load" /\ x = m.id /\ j = m.js /\ l = m.net
      BY <2>2, <2>3 DEF Kinds
    <3>3. StartLoad(m) = [wrk EXCEPT !.pc = "run", !.op = k, !.n = x, !.js = j, !.last_net = l,
                                     !.phase = p, !.net_active = a, !.used = 0, !.pending = 0,
                                     !.round = 0]
      BY <3>1, <3>2
    <3> HIDE DEF m
    <3>4. PICK w \in WrkRec :
              w = [wrk EXCEPT !.pc = "run", !.op = k, !.n = x, !.js = j, !.last_net = l]
      BY <1>0 DEF WrkRec
    <3>5. [w EXCEPT !.phase = p, !.net_active = a, !.used = 0, !.pending = 0, !.round = 0]
              \in WrkRec
      BY DEF WrkRec
    <3>6. StartLoad(m)
              = [w EXCEPT !.phase = p, !.net_active = a, !.used = 0, !.pending = 0, !.round = 0]
      BY <1>0, <3>3, <3>4 DEF WrkRec
    <3> QED
      BY <3>5, <3>6
  <2>4. m.t = "op" => StartOp(m) \in WrkRec
    BY <1>0, <2>2 DEF StartOp, WrkRec
  <2>5. wrk' \in WrkRec
    BY <1>0, <1>1, <2>3, <2>4 DEF ReadOp, WrkRec
  <2> QED
    BY <1>0, <1>1, <2>1, <2>5, EmptySeq DEF ReadOp, Types
<1>2. CASE ReadSync
  <2>1. wrk' = [wrk EXCEPT !.pc = "run", !.wait = 0] \/ wrk' = wrk
    BY <1>2 DEF ReadSync
  <2>2. wrk' \in WrkRec
    <3>1. CASE wrk' = [wrk EXCEPT !.pc = "run", !.wait = 0]
      BY <1>0, <3>1 DEF WrkRec
    <3> QED
      BY <1>0, <2>1, <3>1
  <2> QED
    BY <1>2, <2>2, ReqTyped DEF ReadSync, Types
<1>3. CASE EndPhase
  <2>1. AfterPhase(wrk) \in {"css", "script", "drain", "deliver", "tail", "result"}
    BY <1>0 DEF AfterPhase, WrkRec
  <2> DEFINE open == AfterPhase(wrk) \in {"script", "drain"}
  <2>2. open \in BOOLEAN /\ wrk.net_active \in BOOLEAN
    BY <1>0 DEF WrkRec
  <2>3. \/ wrk' = [wrk EXCEPT !.phase = AfterPhase(wrk), !.net_active = open]
        \/ wrk' = [wrk EXCEPT !.phase = AfterPhase(wrk), !.net_active = wrk.net_active]
    BY <1>0, <1>3 DEF EndPhase, WrkRec
  <2> HIDE DEF open
  <2>4. wrk' \in WrkRec
    <3>1. CASE wrk' = [wrk EXCEPT !.phase = AfterPhase(wrk), !.net_active = open]
      BY <1>0, <2>1, <2>2, <3>1 DEF WrkRec
    <3>2. CASE wrk' = [wrk EXCEPT !.phase = AfterPhase(wrk), !.net_active = wrk.net_active]
      BY <1>0, <2>1, <2>2, <3>2 DEF WrkRec
    <3> QED
      BY <2>3, <3>1, <3>2
  <2> QED
    BY <1>3, <2>4 DEF EndPhase, Types
<1>4. CASE Drain
  <2>1. AfterPhase(wrk) \in {"css", "script", "drain", "deliver", "tail", "result"}
    BY <1>0 DEF AfterPhase, WrkRec
  <2>2. Frame("NETWAIT", 0, "none") \in FrameRec
    BY <1>0, FrameTyped
  <2>3. CASE /\ resp' = Append(resp, Frame("NETWAIT", 0, "none"))
             /\ wrk' = [wrk EXCEPT !.pc = "collect", !.need = wrk.pending, !.pending = 0]
    <3>1. wrk' \in WrkRec
      BY <1>0, <2>3 DEF WrkRec
    <3>2. resp' \in Seq(FrameRec)
      BY <1>0, <2>2, <2>3, AppendProperties
    <3> QED
      BY <1>4, <3>1, <3>2 DEF Drain, Types
  <2>4. CASE wrk' = [wrk EXCEPT !.phase = AfterPhase(wrk)] /\ resp' = resp
    <3>1. wrk' \in WrkRec
      BY <1>0, <2>1, <2>4 DEF WrkRec
    <3> QED
      BY <1>4, <2>4, <3>1 DEF Drain, Types
  <2> QED
    BY <1>4, <2>3, <2>4 DEF Drain
<1>5. CASE Collect
  <2>1. Head(req) \in ToWorker /\ Tail(req) \in Seq(ToWorker) /\ Head(req).id \in Nat
    BY <1>0, <1>5, ReqTyped, RecordsTyped DEF Collect
  <2>2. \/ wrk' = wrk
        \/ wrk' = [wrk EXCEPT !.pc = "run", !.phase = "deliver", !.need = 0]
        \/ wrk' = [wrk EXCEPT !.pc = "run", !.phase = "deliver", !.need = 0, !.round = MaxRounds]
    BY <1>5 DEF Collect
  <2>3. wrk' \in WrkRec
    <3>1. CASE wrk' = [wrk EXCEPT !.pc = "run", !.phase = "deliver", !.need = 0]
      BY <1>0, <3>1 DEF WrkRec
    <3>2. CASE wrk' = [wrk EXCEPT !.pc = "run", !.phase = "deliver", !.need = 0,
                                  !.round = MaxRounds]
      BY <1>0, <3>2, ChannelAssumption DEF WrkRec
    <3> QED
      BY <1>0, <2>2, <3>1, <3>2
  <2>4. got' = got \/ got' = Append(got, Head(req).id)
    BY <1>5 DEF Collect
  <2>5. got' \in Seq(Nat)
    <3>1. CASE got' = Append(got, Head(req).id)
      BY <1>0, <2>1, <3>1, AppendProperties
    <3> QED
      BY <1>0, <2>4, <3>1
  <2> QED
    BY <1>5, <2>1, <2>3, <2>5 DEF Collect, Types
<1>6. CASE Deliver
  <2>1. nq' \in Seq(Nat) /\ got' \in Seq(Nat)
    BY <1>0, <1>6, HeadTailProperties DEF Deliver
  <2> QED
    BY <1>0, <1>6, <2>1 DEF Deliver, Types
<1>7. CASE EndRound
  <2>1. \/ wrk' = [wrk EXCEPT !.phase = "drain"]
        \/ wrk' = [wrk EXCEPT !.phase = "drain", !.round = @ + 1]
    BY <1>7 DEF EndRound
  <2>2. wrk' \in WrkRec
    <3>1. CASE wrk' = [wrk EXCEPT !.phase = "drain"]
      BY <1>0, <3>1 DEF WrkRec
    <3>2. CASE wrk' = [wrk EXCEPT !.phase = "drain", !.round = @ + 1]
      <4>1. PICK r \in Nat : r = wrk.round + 1
        BY <1>0 DEF WrkRec
      <4>2. wrk' = [wrk EXCEPT !.phase = "drain", !.round = r]
        BY <1>0, <3>2, <4>1 DEF WrkRec
      <4> QED
        BY <1>0, <4>1, <4>2 DEF WrkRec
    <3> QED
      BY <2>1, <3>1, <3>2
  <2> QED
    BY <1>7, <2>2 DEF EndRound, Types
<1>8. CASE WriteResult
  <2>1. Frame("RESULT", wrk.n, "none") \in FrameRec
    BY <1>0, FrameTyped DEF WrkRec
  <2>2. resp' \in Seq(FrameRec)
    BY <1>0, <1>8, <2>1, AppendProperties DEF WriteResult
  <2> QED
    BY <1>0, <1>8, <2>2 DEF WriteResult, WrkRec, Types
<1> QED
  BY <1>0, <1>1, <1>2, <1>3, <1>4, <1>5, <1>6, <1>7, <1>8 DEF Worker, Types

LEMMA ScriptTypes ==
    ASSUME Types, Script
    PROVE  Types'
<1> USE DEF UnchangedParent
<1>0. /\ wrk \in WrkRec /\ req \in Seq(ToWorker) /\ resp \in Seq(FrameRec)
      /\ nq \in Seq(Nat) /\ got \in Seq(Nat) /\ seq \in Nat
  BY DEF Types
<1>1. ASSUME NEW m \in Methods, IssueSync(m)
      PROVE  Types'
  <2>1. Frame("SUBREQ", seq + 1, m) \in FrameRec
    BY <1>0, FrameTyped
  <2>2. resp' \in Seq(FrameRec)
    BY <1>0, <1>1, <2>1, AppendProperties DEF IssueSync
  <2>3. wrk' \in WrkRec
    <3>1. PICK u \in Nat : u = wrk.used + 1
      BY <1>0 DEF WrkRec
    <3>2. PICK w \in Nat : w = seq + 1
      BY <1>0
    <3>3. wrk' = [wrk EXCEPT !.pc = "sync", !.wait = w, !.used = u]
      BY <1>0, <1>1, <3>1, <3>2 DEF IssueSync, WrkRec
    <3> QED
      BY <1>0, <3>1, <3>2, <3>3 DEF WrkRec
  <2> QED
    BY <1>0, <1>1, <2>2, <2>3 DEF IssueSync, Types
<1>2. ASSUME NEW m \in Methods, NEW r \in BOOLEAN, IssueAsync(m, r)
      PROVE  Types'
  <2>1. Frame("ASYNC", seq + 1, m) \in FrameRec
    BY <1>0, FrameTyped
  <2>2. resp' \in Seq(FrameRec)
    BY <1>0, <1>2, <2>1, AppendProperties DEF IssueAsync
  <2>3. wrk' \in WrkRec
    <3>1. PICK u \in Nat : u = wrk.used + 1
      BY <1>0 DEF WrkRec
    <3>2. PICK w \in Nat : w = wrk.pending + 1
      BY <1>0 DEF WrkRec
    <3>3. wrk' = [wrk EXCEPT !.pending = w, !.used = u]
      BY <1>0, <1>2, <3>1, <3>2 DEF IssueAsync, WrkRec
    <3> QED
      BY <1>0, <3>1, <3>2, <3>3 DEF WrkRec
  <2>4. nq' \in Seq(Nat)
    BY <1>0, <1>2, AppendProperties DEF IssueAsync
  <2> QED
    BY <1>0, <1>2, <2>2, <2>3, <2>4 DEF IssueAsync, Types
<1> QED
  BY <1>0, <1>1, <1>2 DEF Script, Types

(* The threads change neither the requests of the batch nor their order. *)
LEMMA ThreadBatch ==
    ASSUME Types, NEW i \in 1..MaxJobs, Thread(i)
    PROVE  /\ batch' \in Seq(JobRec) /\ Len(batch') = Len(batch)
           /\ \A k \in 1..Len(batch) : batch'[k].id = batch[k].id /\ batch'[k].page = batch[k].page
           /\ UNCHANGED <<req, resp, par, tab, frame, wrk, nq, got, seq, done, slip>>
<1>1. i \in 1..Len(batch) /\ Len(batch) \in Nat
  BY LenProperties DEF Thread, Types
<1>2. \A k \in 1..Len(batch) : batch[k] \in JobRec
  BY ElementOfSeq DEF Types
<1>3. \E j \in JobRec : j.id = batch[i].id /\ j.page = batch[i].page
                        /\ batch' = [batch EXCEPT ![i] = j]
  <2>1. CASE ThreadStart(i)
    <3> DEFINE j == [batch[i] EXCEPT !.st = "run", !.ctx = tab.fetcher]
    <3>1. j \in JobRec /\ j.id = batch[i].id /\ j.page = batch[i].page
      BY <1>1, <1>2 DEF JobRec, Types, TabRec
    <3>2. batch' = [batch EXCEPT ![i] = j]
      BY <2>1, <1>1, <1>2 DEF ThreadStart, JobRec, Types
    <3> QED
      BY <3>1, <3>2
  <2>2. CASE ThreadEnd(i)
    <3>1. PICK ok \in BOOLEAN : batch' = [batch EXCEPT ![i].st = "done", ![i].ok = ok]
      BY <2>2 DEF ThreadEnd
    <3> DEFINE j == [batch[i] EXCEPT !.st = "done", !.ok = ok]
    <3>2. j \in JobRec /\ j.id = batch[i].id /\ j.page = batch[i].page
      BY <1>1, <1>2 DEF JobRec
    <3>3. batch' = [batch EXCEPT ![i] = j]
      BY <3>1, <1>1, <1>2 DEF JobRec, Types
    <3> QED
      BY <3>2, <3>3
  <2> QED
    BY <2>1, <2>2 DEF Thread
<1>4. UNCHANGED <<req, resp, par, tab, frame, wrk, nq, got, seq, done, slip>>
  BY DEF Thread, ThreadStart, ThreadEnd, UnchangedMain
<1> QED
  BY <1>1, <1>2, <1>3, <1>4, ExceptSeq DEF Types

LEMMA TypesKept ==
    ASSUME Types, [Next]_vars
    PROVE  Types'
<1>1. CASE Parent
  BY <1>1, ParentTypes
<1>2. CASE Worker
  BY <1>2, WorkerTypes
<1>3. CASE Script
  BY <1>3, ScriptTypes
<1>4. ASSUME NEW i \in 1..MaxJobs, Thread(i)
      PROVE  Types'
  BY <1>4, ThreadBatch DEF Types
<1>5. ASSUME NEW op \in Ops, BeginOp(op)
      PROVE  Types'
  <2>1. par' \in ParRec /\ par'.pc # "reply"
    <3>1. PICK c \in {"discard", "send"} : par' = [NoServe EXCEPT !.pc = c, !.op = op]
      BY <1>5 DEF BeginOp
    <3> QED
      BY <3>1, EmptySeq DEF NoServe, ParRec, Kinds
  <2>2. tab' \in TabRec
    <3>1. tab \in TabRec
      BY DEF Types
    <3>2. PICK n \in Nat : n = tab.opn + 1
      BY <3>1 DEF TabRec
    <3>3. PICK f \in {"base", "frame"} :
              tab' = [tab EXCEPT !.opn = n, !.over = FALSE, !.fetcher = f]
      BY <1>5, <3>1, <3>2 DEF BeginOp, TabRec
    <3> QED
      BY <3>1, <3>2, <3>3 DEF TabRec
  <2> QED
    BY <1>5, <2>1, <2>2 DEF BeginOp, Types, UnchangedWorker
<1>6. CASE Crash
  BY <1>6, EmptySeq DEF Crash, Types, UnchangedParent, WrkRec
<1>7. CASE CloseTab
  BY <1>7, EmptySeq DEF CloseTab, Types, ParRec, WrkRec
<1>9. CASE Abandon
  BY <1>9, EmptySeq DEF Abandon, Types, ParRec, TabRec, WrkRec
<1>8. CASE UNCHANGED vars
  BY <1>8 DEF vars, Types
<1> QED
  BY <1>1, <1>2, <1>3, <1>4, <1>5, <1>6, <1>7, <1>8, <1>9 DEF Next, Closed

-----------------------------------------------------------------------------
(* What each step does to the fields the argument is about.                *)

SameTab == tab'.opn = tab.opn /\ tab'.page = tab.page
SameServe == par'.op = par.op /\ par'.out = par.out
Returned == /\ par'.pc = (IF par.op = "load" THEN "unbind" ELSE "idle")
            /\ par'.op = "quiet" /\ par'.out = <<>>

LEMMA BeginOpDoes ==
    ASSUME Types, NEW op \in Ops, BeginOp(op)
    PROVE  /\ par.pc = "idle" /\ wrk.pc # "dead"
           /\ par'.pc = (IF op = "load" THEN "discard" ELSE "send")
           /\ par'.op = op /\ par'.out = <<>>
           /\ tab'.opn = tab.opn + 1 /\ tab'.page = tab.page
           /\ UNCHANGED <<req, resp, batch, done>> /\ UnchangedWorker
<1>1. par' = [NoServe EXCEPT !.pc = IF op = "load" THEN "discard" ELSE "send", !.op = op]
  BY DEF BeginOp
<1>2. tab \in TabRec /\ tab' = [tab EXCEPT !.opn = @ + 1, !.over = FALSE,
                                           !.fetcher = IF op = "load" THEN "frame" ELSE @]
  BY DEF BeginOp, Types
<1>3. tab'.opn = tab.opn + 1 /\ tab'.page = tab.page
  BY <1>2 DEF TabRec
<1>4. par'.pc = (IF op = "load" THEN "discard" ELSE "send") /\ par'.op = op /\ par'.out = <<>>
  BY <1>1 DEF NoServe
<1> QED
  BY <1>3, <1>4 DEF BeginOp, Dead

LEMMA DiscardDoes ==
    ASSUME Types, Discard
    PROVE  /\ par.pc = "discard" /\ par'.pc = "send" /\ SameServe /\ SameTab /\ batch' = <<>>
           /\ UNCHANGED <<req, resp, done>> /\ UnchangedWorker
BY DEF Types, Discard, SameServe, SameTab, ParRec, TabRec

LEMMA SendDoes ==
    ASSUME Types, NEW r \in Grants, Send(r)
    PROVE  /\ par.pc = "send" /\ wrk.pc # "dead" /\ par'.pc = "serve" /\ SameServe
           /\ tab'.opn = tab.opn
           /\ tab'.page = (IF par.op = "load" THEN tab.opn ELSE tab.page)
           /\ \E m \in ToWorker : /\ req' = Append(req, m) /\ m.t = "op"
                                  /\ m.id = tab.opn /\ m.op = par.op
           /\ UNCHANGED <<resp, batch, done>> /\ UnchangedWorker
<1>1. /\ OpMsg(tab.opn, par.op, r) \in ToWorker /\ OpMsg(tab.opn, par.op, r).t = "op"
      /\ OpMsg(tab.opn, par.op, r).id = tab.opn /\ OpMsg(tab.opn, par.op, r).op = par.op
  BY OpTyped DEF Types, TabRec, ParRec
<1>2. par'.pc = "serve" /\ SameServe
  BY DEF Send, Types, ParRec, SameServe
<1>3. tab'.opn = tab.opn /\ tab'.page = (IF par.op = "load" THEN tab.opn ELSE tab.page)
  BY DEF Send, Types, TabRec
<1> QED
  BY <1>1, <1>2, <1>3 DEF Send, Dead

LEMMA ReturnDoes ==
    ASSUME Types, NEW ok, NEW of, Return(ok, of)
    PROVE  Returned /\ done'.n = tab.opn /\ done'.ok = ok /\ done'.of = of
BY DEF Return, Returned, NoServe

LEMMA FailDoes ==
    ASSUME Types, Fail
    PROVE  Returned /\ SameTab /\ done'.ok = FALSE
<1>1. Returned /\ done'.ok = FALSE
  BY ReturnDoes DEF Fail
<1>2. SameTab
  BY DEF Fail, SameTab, Types, TabRec
<1> QED
  BY <1>1, <1>2

LEMMA BrokenDoes ==
    ASSUME Types, Broken
    PROVE  /\ wrk.pc = "dead" /\ (par.pc = "serve" => resp = <<>>)
           /\ Returned /\ SameTab /\ done'.ok = FALSE
           /\ UNCHANGED <<req, resp, batch>> /\ UnchangedWorker
BY FailDoes DEF Broken, Dead

ServesResult(m) ==
    /\ m.t = "RESULT" /\ Returned /\ SameTab /\ UNCHANGED <<batch, slip>>
    /\ done'.n = tab.opn /\ done'.of = m.id
ServesSubreq(m) ==
    /\ m.t = "SUBREQ" /\ par'.op = par.op /\ SameTab /\ UNCHANGED <<batch, slip, done>>
    /\ \/ par'.pc = "fetch" /\ par'.id = m.id /\ par'.out = par.out
       \/ /\ par'.pc = "reply" /\ par'.out \in Seq(ReplyRec)
          /\ Len(par'.out) = 1 /\ par'.out[1].id = m.id
ServesAsync(m) ==
    /\ m.t = "ASYNC" /\ par'.pc = par.pc /\ SameServe /\ SameTab /\ UNCHANGED <<slip, done>>
    /\ \E j \in JobRec : batch' = Append(batch, j) /\ j.id = m.id /\ j.page = tab.page
ServesWait(m) ==
    m.t = "NETWAIT" /\ par'.pc = "join" /\ SameServe /\ SameTab /\ UNCHANGED <<batch, slip, done>>
ServesNothing(m) ==
    /\ Returned /\ SameTab /\ done'.ok = FALSE /\ UNCHANGED batch
    /\ slip' = "refused" \/ (m.t # "RESULT" /\ par.op = "quiet" /\ UNCHANGED slip)

LEMMA ServeTagDoes ==
    ASSUME Types, ServeTag
    PROVE  /\ par.pc = "serve" /\ resp # <<>> /\ resp' = Tail(resp)
           /\ UNCHANGED <<req, wrk, nq, got, seq>>
           /\ LET m == Head(resp)
              IN  \/ ServesResult(m)
                  \/ par.op # "quiet" /\ (ServesSubreq(m) \/ ServesAsync(m) \/ ServesWait(m))
                  \/ ServesNothing(m)
<1> DEFINE m == Head(resp)
<1>1. m \in FrameRec /\ m.id \in Nat
  BY RespTyped, RecordsTyped DEF ServeTag
<1>2. /\ par.pc = "serve" /\ resp # <<>> /\ resp' = Tail(resp)
      /\ UNCHANGED <<req, wrk, nq, got, seq>>
  BY DEF ServeTag
<1> HIDE DEF m
<1>3. ASSUME m.t = "RESULT", ServeResult(m)
      PROVE  ServesResult(m)
  <2>1. Returned /\ done'.n = tab.opn /\ done'.of = m.id
    BY <1>3, ReturnDoes DEF ServeResult
  <2> QED
    BY <1>3, <2>1 DEF ServeResult, ServesResult, SameTab
<1>4. ASSUME m.t = "SUBREQ", ServeSubreq(m)
      PROVE  ServesSubreq(m)
  <2>1. UNCHANGED <<tab, batch, done, slip>>
    BY <1>4 DEF ServeSubreq
  <2>2. CASE par' = [par EXCEPT !.pc = "fetch", !.id = m.id]
    BY <1>4, <2>1, <2>2 DEF ServesSubreq, SameTab, Types, ParRec
  <2>3. CASE par' = [par EXCEPT !.pc = "reply", !.out = <<Reply(m.id, FALSE)>>]
    <3>1. PICK r \in ReplyRec : r = Reply(m.id, FALSE) /\ r.id = m.id
      BY <1>1, ReplyTyped
    <3>2. <<r>> \in Seq(ReplyRec) /\ Len(<<r>>) = 1 /\ <<r>>[1] = r
      BY OneReply
    <3>3. par'.pc = "reply" /\ par'.op = par.op /\ par'.out = <<r>>
      BY <2>3, <3>1 DEF Types, ParRec
    <3> QED
      BY <1>4, <2>1, <3>1, <3>2, <3>3 DEF ServesSubreq, SameTab
  <2> QED
    BY <1>4, <2>2, <2>3 DEF ServeSubreq
<1>5. ASSUME m.t = "ASYNC", Submit(m)
      PROVE  ServesAsync(m) \/ ServesNothing(m)
  <2>1. CASE Fail /\ slip' = "refused" /\ UNCHANGED <<batch, frame>>
    BY <2>1, FailDoes DEF ServesNothing
  <2>2. CASE /\ batch' = Append(batch, Job(m.id, tab.over \/ ~Granted(m.method)))
             /\ UNCHANGED <<par, tab, frame, done, slip>>
    <3> DEFINE j == Job(m.id, tab.over \/ ~Granted(m.method))
    <3>1. j \in JobRec /\ j.id = m.id /\ j.page = tab.page
      BY <1>1 DEF Job, JobRec, Types, TabRec
    <3> HIDE DEF j
    <3>2. \E jj \in JobRec : batch' = Append(batch, jj) /\ jj.id = m.id /\ jj.page = tab.page
      BY <2>2, <3>1 DEF j
    <3> QED
      BY <1>5, <2>2, <3>2 DEF ServesAsync, SameServe, SameTab
  <2> QED
    BY <1>5, <2>1, <2>2 DEF Submit
<1>6. ASSUME m.t = "NETWAIT", par' = [par EXCEPT !.pc = "join"],
             UNCHANGED <<tab, batch, frame, done, slip>>
      PROVE  ServesWait(m)
  BY <1>6 DEF ServesWait, SameServe, SameTab, Types, ParRec
<1>7. ASSUME m.t # "RESULT", par.op = "quiet", Fail, UNCHANGED <<batch, frame, slip>>
      PROVE  ServesNothing(m)
  BY <1>7, FailDoes DEF ServesNothing
<1>8. \/ m.t = "RESULT" /\ ServeResult(m)
      \/ m.t = "SUBREQ" /\ par.op # "quiet" /\ ServeSubreq(m)
      \/ m.t = "ASYNC" /\ par.op # "quiet" /\ Submit(m)
      \/ /\ m.t = "NETWAIT" /\ par.op # "quiet"
         /\ par' = [par EXCEPT !.pc = "join"]
         /\ UNCHANGED <<tab, batch, frame, done, slip>>
      \/ m.t # "RESULT" /\ par.op = "quiet" /\ Fail /\ UNCHANGED <<batch, frame, slip>>
  BY DEF ServeTag, m
<1>9. \/ ServesResult(m)
      \/ par.op # "quiet" /\ (ServesSubreq(m) \/ ServesAsync(m) \/ ServesWait(m))
      \/ ServesNothing(m)
  BY <1>3, <1>4, <1>5, <1>6, <1>7, <1>8
<1> QED
  BY <1>2, <1>9 DEF m

LEMMA SyncFetchedDoes ==
    ASSUME Types, SyncFetched
    PROVE  /\ par.pc = "fetch" /\ par'.pc = "reply" /\ par'.op = par.op
           /\ par'.out \in Seq(ReplyRec) /\ Len(par'.out) = 1 /\ par'.out[1].id = par.id
           /\ SameTab /\ UNCHANGED <<req, resp, batch, done>> /\ UnchangedWorker
<1>1. PICK ok \in BOOLEAN : par' = [par EXCEPT !.pc = "reply", !.out = <<Reply(par.id, ok)>>]
  BY DEF SyncFetched
<1>2. PICK r \in ReplyRec : r = Reply(par.id, ok) /\ r.id = par.id
  BY ReplyTyped DEF Types, ParRec
<1>3. <<r>> \in Seq(ReplyRec) /\ Len(<<r>>) = 1 /\ <<r>>[1] = r
  BY OneReply
<1>4. par'.pc = "reply" /\ par'.op = par.op /\ par'.out = <<r>>
  BY <1>1, <1>2 DEF Types, ParRec
<1>5. SameTab
  BY DEF SyncFetched, SameTab, Types, TabRec
<1> QED
  BY <1>2, <1>3, <1>4, <1>5 DEF SyncFetched

LEMMA NetWaitDoes ==
    ASSUME Types, NetWait
    PROVE  /\ par.pc = "join" /\ par'.op = par.op
           /\ par'.pc = (IF batch = <<>> THEN "serve" ELSE "reply")
           /\ par'.out \in Seq(ReplyRec) /\ Len(par'.out) = Len(batch)
           /\ \A i \in 1..Len(batch) : par'.out[i].id = batch[i].id
           /\ batch' = <<>>
           /\ SameTab /\ UNCHANGED <<req, resp, done>> /\ UnchangedWorker
<1>1. par'.op = par.op /\ par'.out = BatchReplies
      /\ par'.pc = (IF batch = <<>> THEN "serve" ELSE "reply")
  BY DEF NetWait, Types, ParRec
<1>2. SameTab
  BY DEF NetWait, SameTab, Types, TabRec
<1>3. batch \in Seq(JobRec)
  BY DEF Types
<1>4. /\ BatchReplies \in Seq(ReplyRec) /\ Len(BatchReplies) = Len(batch)
      /\ \A i \in 1..Len(batch) : BatchReplies[i].id = batch[i].id
  BY <1>3, BatchRepliesTyped
<1> QED
  BY <1>1, <1>2, <1>4 DEF NetWait

LEMMA WriteReplyDoes ==
    ASSUME Types, WriteReply
    PROVE  /\ par.pc = "reply" /\ wrk.pc # "dead" /\ par'.op = par.op
           /\ par.out # <<>> /\ par'.out = Tail(par.out)
           /\ par'.pc = (IF Len(par.out) = 1 THEN "serve" ELSE "reply")
           /\ req' = Append(req, Head(par.out))
           /\ SameTab /\ UNCHANGED <<resp, batch, done>> /\ UnchangedWorker
<1>1. par'.op = par.op /\ par'.out = Tail(par.out)
      /\ par'.pc = (IF Len(par.out) = 1 THEN "serve" ELSE "reply")
  BY DEF WriteReply, Types, ParRec
<1> QED
  BY <1>1 DEF WriteReply, Dead, SameTab, Types

LEMMA UnbindDoes ==
    ASSUME Types, Unbind
    PROVE  /\ par.pc = "unbind" /\ par'.pc = "idle" /\ par'.op = "quiet" /\ par'.out = <<>>
           /\ SameTab /\ UNCHANGED <<req, resp, batch, done>> /\ UnchangedWorker
BY DEF Unbind, NoServe, SameTab, Types, TabRec

LEMMA FreeTabDoes ==
    ASSUME Types, FreeTab
    PROVE  /\ par.pc = "closing" /\ par'.pc = "closed" /\ SameServe /\ batch' = <<>>
           /\ SameTab /\ UNCHANGED <<req, resp, done>> /\ UnchangedWorker
BY DEF FreeTab, SameServe, SameTab, Types, ParRec

LEMMA CloseTabDoes ==
    ASSUME Types, CloseTab
    PROVE  /\ par.pc = "idle" /\ par'.pc = "closing" /\ SameServe /\ wrk'.pc = "dead"
           /\ req' = <<>> /\ resp' = <<>>
           /\ UNCHANGED <<tab, batch, nq, got, seq, done, slip>>
BY DEF CloseTab, SameServe, Types, ParRec, WrkRec

LEMMA AbandonDoes ==
    ASSUME Types, Abandon
    PROVE  /\ par.pc = "unbind" /\ par'.pc = "closing" /\ SameServe /\ wrk'.pc = "dead"
           /\ req' = <<>> /\ resp' = <<>>
           /\ SameTab /\ UNCHANGED <<batch, nq, got, seq, done, slip>>
BY DEF Abandon, SameServe, SameTab, Types, ParRec, TabRec, WrkRec

SameJob == wrk'.n = wrk.n /\ wrk'.op = wrk.op
SameCount == wrk'.pending = wrk.pending /\ wrk'.need = wrk.need /\ wrk'.wait = wrk.wait

LEMMA ReadOpDoes ==
    ASSUME Types, ReadOp, Head(req).t = "op"
    PROVE  /\ wrk.pc = "idle" /\ wrk'.pc = "run" /\ req # <<>> /\ req' = Tail(req)
           /\ wrk'.n = Head(req).id /\ wrk'.op = Head(req).op
           /\ wrk'.op = "quiet" => wrk'.phase = "result" /\ ~wrk'.net_active
           /\ \/ /\ Head(req).op = "load" /\ wrk'.pending = 0 /\ nq' = <<>>
                 /\ (slip # "refused" => slip' # "refused")
              \/ /\ Head(req).op # "load" /\ wrk'.pending = wrk.pending
                 /\ UNCHANGED <<nq, slip>>
           /\ slip = "refused" => slip' = "refused"
           /\ UNCHANGED <<resp, got, seq>> /\ UnchangedParent
<1> DEFINE m == Head(req)
<1>1. wrk \in WrkRec /\ wrk.pc = "idle" /\ req # <<>> /\ req' = Tail(req)
      /\ UNCHANGED <<resp, got, seq>> /\ UnchangedParent
  BY DEF Types, ReadOp
<1>2. slip = "refused" => slip' = "refused"
  BY DEF ReadOp
<1>3. CASE m.op = "load"
  <2>1. wrk' = StartLoad(m) /\ nq' = <<>> /\ (slip # "refused" => slip' # "refused")
    BY <1>3 DEF ReadOp
  <2>2. wrk'.pc = "run" /\ wrk'.n = m.id /\ wrk'.op = "load" /\ wrk'.pending = 0
    BY <1>1, <2>1 DEF StartLoad, WrkRec
  <2> QED
    BY <1>1, <1>2, <1>3, <2>1, <2>2
<1>4. CASE m.op # "load"
  <2>1. wrk' = StartOp(m) /\ UNCHANGED <<nq, slip>>
    BY <1>4 DEF ReadOp
  <2>2. wrk'.pc = "run" /\ wrk'.n = m.id /\ wrk'.op = m.op /\ wrk'.pending = wrk.pending
    BY <1>1, <2>1 DEF StartOp, WrkRec
  <2>3. m.op = "quiet" => wrk'.phase = "result" /\ ~wrk'.net_active
    BY <1>1, <2>1 DEF StartOp, WrkRec
  <2> QED
    BY <1>1, <1>2, <1>4, <2>1, <2>2, <2>3
<1> QED
  BY <1>3, <1>4

LEMMA ReadSyncDoes ==
    ASSUME Types, ReadSync, Head(req).t # "op"
    PROVE  /\ wrk.pc = "sync" /\ wrk'.pc = "run" /\ req # <<>> /\ req' = Tail(req)
           /\ SameJob /\ wrk'.phase = wrk.phase /\ wrk'.pending = wrk.pending
           /\ UNCHANGED <<resp, nq, got, seq, slip>> /\ UnchangedParent
BY DEF ReadSync, SameJob, Types, WrkRec

LEMMA EndPhaseDoes ==
    ASSUME Types, EndPhase
    PROVE  /\ wrk.pc = "run" /\ wrk'.pc = "run" /\ wrk.phase \in {"css", "script", "tail"}
           /\ SameJob /\ SameCount
           /\ UNCHANGED <<req, resp, nq, got, seq, slip>> /\ UnchangedParent
BY DEF EndPhase, SameJob, SameCount, Types, WrkRec

LEMMA DrainDoes ==
    ASSUME Types, Drain
    PROVE  /\ wrk.pc = "run" /\ wrk.phase = "drain" /\ SameJob
           /\ \/ /\ wrk'.pc = "collect" /\ wrk.pending > 0
                 /\ wrk'.need = wrk.pending /\ wrk'.pending = 0
                 /\ \E f \in FrameRec : f.t = "NETWAIT" /\ resp' = Append(resp, f)
              \/ wrk'.pc = "run" /\ SameCount /\ UNCHANGED resp
           /\ UNCHANGED <<req, nq, got, seq, slip>> /\ UnchangedParent
<1>1. /\ wrk \in WrkRec /\ wrk.pc = "run" /\ wrk.phase = "drain"
      /\ UNCHANGED <<req, nq, got, seq, slip>> /\ UnchangedParent
  BY DEF Types, Drain
<1>2. CASE /\ wrk.pending > 0 /\ resp' = Append(resp, Frame("NETWAIT", 0, "none"))
           /\ wrk' = [wrk EXCEPT !.pc = "collect", !.need = wrk.pending, !.pending = 0]
  <2>1. \E f \in FrameRec : f.t = "NETWAIT" /\ resp' = Append(resp, f)
    <3>1. Frame("NETWAIT", 0, "none") \in FrameRec /\ Frame("NETWAIT", 0, "none").t = "NETWAIT"
      BY FrameTyped
    <3> QED
      BY <1>2, <3>1
  <2>2. wrk'.pc = "collect" /\ wrk'.need = wrk.pending /\ wrk'.pending = 0 /\ SameJob
    BY <1>1, <1>2 DEF WrkRec, SameJob
  <2> QED
    BY <1>1, <1>2, <2>1, <2>2
<1>3. CASE wrk' = [wrk EXCEPT !.phase = AfterPhase(wrk)] /\ resp' = resp
  <2>1. wrk'.pc = "run" /\ SameJob /\ SameCount
    BY <1>1, <1>3 DEF WrkRec, SameJob, SameCount
  <2> QED
    BY <1>1, <1>3, <2>1
<1> QED
  BY <1>2, <1>3 DEF Drain

LEMMA CollectDoes ==
    ASSUME Types, Collect, Head(req).t = "reply"
    PROVE  /\ wrk.pc = "collect" /\ req # <<>> /\ req' = Tail(req)
           /\ got' = Append(got, Head(req).id)
           /\ SameJob /\ wrk'.pending = wrk.pending
           /\ IF Len(got) + 1 = wrk.need THEN wrk'.pc = "run" /\ wrk'.phase = "deliver"
                                         ELSE wrk'.pc = "collect" /\ wrk'.need = wrk.need
           /\ UNCHANGED <<resp, nq, seq, slip>> /\ UnchangedParent
<1>1. /\ wrk \in WrkRec /\ wrk.pc = "collect" /\ req # <<>> /\ req' = Tail(req)
      /\ got' = Append(got, Head(req).id)
      /\ UNCHANGED <<resp, nq, seq, slip>> /\ UnchangedParent
  BY DEF Types, Collect
<1>2. CASE Len(got) + 1 = wrk.need
  <2>1. wrk' = [wrk EXCEPT !.pc = "run", !.phase = "deliver", !.need = 0]
    BY <1>2 DEF Collect
  <2> QED
    BY <1>1, <1>2, <2>1 DEF WrkRec, SameJob
<1>3. CASE Len(got) + 1 # wrk.need
  <2>1. wrk' = wrk
    BY <1>3 DEF Collect
  <2> QED
    BY <1>1, <1>3, <2>1 DEF SameJob
<1> QED
  BY <1>2, <1>3

LEMMA EndRoundDoes ==
    ASSUME Types, EndRound
    PROVE  /\ wrk.pc = "run" /\ wrk'.pc = "run" /\ wrk.phase = "deliver" /\ got = <<>>
           /\ SameJob /\ SameCount
           /\ UNCHANGED <<req, resp, nq, got, seq, slip>> /\ UnchangedParent
BY DEF EndRound, SameJob, SameCount, Types, WrkRec

LEMMA WriteResultDoes ==
    ASSUME Types, WriteResult
    PROVE  /\ wrk.pc = "run" /\ wrk'.pc = "idle" /\ wrk.phase = "result" /\ SameJob /\ SameCount
           /\ \E f \in FrameRec : f.t = "RESULT" /\ f.id = wrk.n /\ resp' = Append(resp, f)
           /\ UNCHANGED <<req, nq, got, seq, slip>> /\ UnchangedParent
<1>1. /\ wrk \in WrkRec /\ wrk.pc = "run" /\ wrk.phase = "result"
      /\ wrk' = [wrk EXCEPT !.pc = "idle", !.net_active = FALSE]
      /\ resp' = Append(resp, Frame("RESULT", wrk.n, "none"))
      /\ UNCHANGED <<req, nq, got, seq, slip>> /\ UnchangedParent
  BY DEF Types, WriteResult
<1>2. wrk'.pc = "idle" /\ SameJob /\ SameCount /\ wrk.n \in Nat
  BY <1>1 DEF WrkRec, SameJob, SameCount
<1>3. \E f \in FrameRec : f.t = "RESULT" /\ f.id = wrk.n /\ resp' = Append(resp, f)
  BY <1>1, <1>2, FrameTyped
<1> QED
  BY <1>1, <1>2, <1>3

LEMMA IssueSyncDoes ==
    ASSUME Types, NEW method \in Methods, IssueSync(method)
    PROVE  /\ wrk.pc = "run" /\ wrk.net_active /\ wrk'.pc = "sync" /\ wrk'.phase = wrk.phase
           /\ SameJob /\ wrk'.pending = wrk.pending
           /\ \E f \in FrameRec : f.t = "SUBREQ" /\ f.id = wrk'.wait /\ resp' = Append(resp, f)
           /\ UNCHANGED <<req, nq, got, slip>> /\ UnchangedParent
<1>1. /\ wrk \in WrkRec /\ seq + 1 \in Nat
      /\ wrk' = [wrk EXCEPT !.pc = "sync", !.wait = seq + 1, !.used = @ + 1]
      /\ resp' = Append(resp, Frame("SUBREQ", seq + 1, method))
      /\ UNCHANGED <<req, nq, got, slip>> /\ UnchangedParent
  BY DEF Types, IssueSync
<1>2. wrk.pc = "run" /\ wrk.net_active
  BY DEF IssueSync, CanIssue
<1>3. wrk'.pc = "sync" /\ wrk'.wait = seq + 1 /\ wrk'.phase = wrk.phase /\ SameJob
      /\ wrk'.pending = wrk.pending
  BY <1>1 DEF WrkRec, SameJob
<1>4. \E f \in FrameRec : f.t = "SUBREQ" /\ f.id = wrk'.wait /\ resp' = Append(resp, f)
  BY <1>1, <1>3, FrameTyped
<1> QED
  BY <1>1, <1>2, <1>3, <1>4

LEMMA IssueAsyncDoes ==
    ASSUME Types, NEW method \in Methods, NEW r \in BOOLEAN, IssueAsync(method, r)
    PROVE  /\ wrk.pc = "run" /\ wrk.net_active /\ wrk'.pc = "run" /\ wrk'.phase = wrk.phase
           /\ SameJob /\ wrk'.pending = wrk.pending + 1
           /\ \E f \in FrameRec : f.t = "ASYNC" /\ f.id = seq + 1 /\ resp' = Append(resp, f)
           /\ slip' = "none" => slip = "none" /\ nq' = Append(nq, seq + 1)
           /\ slip = "refused" => slip' = "refused"
           /\ UNCHANGED <<req, got>> /\ UnchangedParent
<1>1. /\ wrk \in WrkRec /\ seq + 1 \in Nat
      /\ wrk' = [wrk EXCEPT !.pending = @ + 1, !.used = @ + 1]
      /\ resp' = Append(resp, Frame("ASYNC", seq + 1, method))
      /\ UNCHANGED <<req, got>> /\ UnchangedParent
  BY DEF Types, IssueAsync
<1>2. wrk.pc = "run" /\ wrk.net_active
  BY DEF IssueAsync, CanIssue
<1>3. wrk'.pc = "run" /\ wrk'.phase = wrk.phase /\ SameJob /\ wrk'.pending = wrk.pending + 1
  BY <1>1, <1>2 DEF WrkRec, SameJob
<1>4. \E f \in FrameRec : f.t = "ASYNC" /\ f.id = seq + 1 /\ resp' = Append(resp, f)
  BY <1>1, FrameTyped
<1>5. /\ slip' = "none" => slip = "none" /\ nq' = Append(nq, seq + 1)
      /\ slip = "refused" => slip' = "refused"
  BY DEF IssueAsync
<1> QED
  BY <1>1, <1>2, <1>3, <1>4, <1>5

LEMMA CrashDoes ==
    ASSUME Types, Crash
    PROVE  wrk'.pc = "dead" /\ UNCHANGED <<resp, slip>> /\ UnchangedParent
BY DEF Crash, Types, WrkRec

-----------------------------------------------------------------------------
(* The batch and the results are of the present page and operation.        *)

LEMMA OwnSame ==
    ASSUME OwnBatch, par'.pc = par.pc, par'.op = par.op, tab'.page = tab.page,
           batch' = batch, done' = done, slip = "refused" => slip' = "refused", OwnResult
    PROVE  OwnBatch' /\ OwnResult'
BY DEF OwnBatch, OwnResult

LEMMA OwnKeptByServeTag ==
    ASSUME Types, OwnBatch, OwnResult, slip # "refused" => RespInTurn, ServeTag
    PROVE  OwnBatch' /\ OwnResult'
<1> DEFINE m == Head(resp)
<1>1. /\ par.pc = "serve" /\ resp # <<>> /\ UNCHANGED <<req, wrk, nq, got, seq>>
      /\ \/ ServesResult(m)
         \/ par.op # "quiet" /\ (ServesSubreq(m) \/ ServesAsync(m) \/ ServesWait(m))
         \/ ServesNothing(m)
  BY ServeTagDoes
<1>2. m = resp[1] /\ Len(resp) \in Nat \ {0}
  BY <1>1, RespTyped
<1> HIDE DEF m
<1>3. CASE ServesResult(m)
  <2>1. slip # "refused" => m.id = tab.opn
    BY <1>2, <1>3 DEF RespInTurn, ServesResult
  <2>2. par'.op = "quiet" /\ done'.n = tab.opn /\ done'.of = m.id /\ slip' = slip
    BY <1>3 DEF ServesResult, Returned
  <2> QED
    BY <2>1, <2>2 DEF OwnBatch, OwnResult
<1>4. CASE ServesSubreq(m)
  BY <1>1, <1>4 DEF ServesSubreq, OwnBatch, OwnResult, SameTab
<1>5. CASE ServesAsync(m)
  <2>1. PICK j \in JobRec : batch' = Append(batch, j) /\ j.page = tab.page
    BY <1>5 DEF ServesAsync
  <2>2. batch \in Seq(JobRec)
    BY DEF Types
  <2>3. par.op = "load" => \A i \in 1..Len(batch) : batch[i].page = tab.page
    BY <1>1 DEF OwnBatch
  <2>4. par.op = "load" => \A i \in 1..Len(batch') : batch'[i].page = tab.page
    BY <2>1, <2>2, <2>3, AppendProperties, LenProperties
  <2> QED
    BY <1>1, <1>5, <2>4 DEF ServesAsync, OwnBatch, OwnResult, SameTab, SameServe
<1>6. CASE ServesWait(m)
  BY <1>1, <1>6 DEF ServesWait, OwnBatch, OwnResult, SameTab, SameServe
<1>7. CASE ServesNothing(m)
  BY <1>7 DEF ServesNothing, Returned, OwnBatch, OwnResult
<1> QED
  BY <1>1, <1>3, <1>4, <1>5, <1>6, <1>7

LEMMA OwnKept ==
    ASSUME Types, OwnBatch, OwnResult, slip # "refused" => RespInTurn, [Next]_vars
    PROVE  OwnBatch' /\ OwnResult'
<1>1. ASSUME NEW op \in Ops, BeginOp(op)
      PROVE  OwnBatch' /\ OwnResult'
  BY <1>1, BeginOpDoes DEF OwnBatch, OwnResult, UnchangedWorker
<1>2. CASE Discard
  BY <1>2, DiscardDoes DEF OwnBatch, OwnResult, UnchangedWorker
<1>3. ASSUME NEW r \in Grants, Send(r)
      PROVE  OwnBatch' /\ OwnResult'
  <2>1. /\ par.pc = "send" /\ par'.op = par.op /\ par'.pc = "serve"
        /\ UNCHANGED <<batch, done>> /\ slip' = slip
    BY <1>3, SendDoes DEF SameServe, UnchangedWorker
  <2>2. par.op = "load" => batch' = <<>>
    BY <2>1 DEF OwnBatch
  <2> QED
    BY <2>1, <2>2 DEF OwnBatch, OwnResult
<1>4. CASE Broken
  BY <1>4, BrokenDoes DEF Returned, OwnBatch, OwnResult, UnchangedWorker
<1>5. CASE ServeTag
  BY <1>5, OwnKeptByServeTag
<1>6. CASE SyncFetched
  BY <1>6, SyncFetchedDoes DEF SameTab, OwnBatch, OwnResult, UnchangedWorker
<1>7. CASE NetWait
  <2>1. batch' = <<>> /\ Len(batch') = 0 /\ par'.op = par.op /\ par'.pc \in {"serve", "reply"}
        /\ UNCHANGED <<done, slip>>
    BY <1>7, NetWaitDoes DEF UnchangedWorker
  <2> QED
    BY <2>1 DEF OwnBatch, OwnResult
<1>8. CASE WriteReply
  BY <1>8, WriteReplyDoes DEF SameTab, OwnBatch, OwnResult, UnchangedWorker
<1>9. CASE Unbind
  BY <1>9, UnbindDoes DEF OwnBatch, OwnResult, UnchangedWorker
<1>10. CASE FreeTab
  BY <1>10, FreeTabDoes DEF OwnBatch, OwnResult, UnchangedWorker
<1>11. CASE CloseTab
  BY <1>11, CloseTabDoes DEF OwnBatch, OwnResult
<1>18. CASE Abandon
  BY <1>18, AbandonDoes DEF SameServe, SameTab, OwnBatch, OwnResult
<1>12. ASSUME NEW i \in 1..MaxJobs, Thread(i)
       PROVE  OwnBatch' /\ OwnResult'
  <2>1. /\ Len(batch') = Len(batch) /\ UNCHANGED <<par, tab, done, slip>>
        /\ \A k \in 1..Len(batch) : batch'[k].page = batch[k].page
        /\ batch \in Seq(JobRec) /\ batch' \in Seq(JobRec)
    BY <1>12, ThreadBatch DEF Types
  <2>2. batch = <<>> => batch' = <<>>
    BY <2>1, EmptySeq
  <2> QED
    BY <2>1, <2>2 DEF OwnBatch, OwnResult
<1>13. CASE UnchangedParent /\ (slip = "refused" => slip' = "refused")
  BY <1>13, OwnSame DEF UnchangedParent
<1>14. CASE Worker
  <2>1. UnchangedParent /\ (slip = "refused" => slip' = "refused")
    BY <1>14 DEF Worker, ReadOp, ReadSync, EndPhase, Drain, Collect, Deliver, EndRound, WriteResult
  <2> QED
    BY <1>13, <2>1
<1>15. CASE Script
  <2>1. UnchangedParent /\ (slip = "refused" => slip' = "refused")
    BY <1>15 DEF Script, IssueSync, IssueAsync
  <2> QED
    BY <1>13, <2>1
<1>16. CASE Crash
  BY <1>13, <1>16 DEF Crash
<1>17. CASE UNCHANGED vars
  BY <1>13, <1>17 DEF vars, UnchangedParent
<1> QED
  BY <1>1, <1>2, <1>3, <1>4, <1>5, <1>6, <1>7, <1>8, <1>9, <1>10, <1>11, <1>12, <1>14, <1>15,
     <1>16, <1>17, <1>18 DEF Next, Parent, Closed

-----------------------------------------------------------------------------
(* The replies owed.                                                       *)

LEMMA IdsTyped ==
    ASSUME NEW S, NEW s \in Seq(S), \A x \in S : x.id \in Nat
    PROVE  Ids(s) \in Seq(Nat) /\ Len(Ids(s)) = Len(s) /\ \A i \in 1..Len(s) : Ids(s)[i] = s[i].id
<1>1. Len(s) \in Nat /\ \A i \in 1..Len(s) : s[i].id \in Nat
  BY ElementOfSeq, LenProperties
<1>2. Ids(s) \in Seq(Nat)
  BY <1>1, IsASeq DEF Ids
<1> QED
  BY <1>1, <1>2 DEF Ids

LEMMA FourParts ==
    ASSUME NEW a \in Seq(Nat), NEW b \in Seq(Nat), NEW c \in Seq(Nat), NEW d \in Seq(Nat)
    PROVE  /\ a \o b \o c \o d \in Seq(Nat)
           /\ Len(a \o b \o c \o d) = Len(a) + Len(b) + Len(c) + Len(d)
<1>1. a \o b \in Seq(Nat) /\ Len(a \o b) = Len(a) + Len(b)
  BY ConcatProperties
<1>2. PICK ab \in Seq(Nat) : ab = a \o b /\ Len(ab) = Len(a) + Len(b)
  BY <1>1
<1>3. ab \o c \in Seq(Nat) /\ Len(ab \o c) = Len(a) + Len(b) + Len(c)
  BY <1>2, ConcatProperties
<1>4. PICK abc \in Seq(Nat) : abc = ab \o c /\ Len(abc) = Len(a) + Len(b) + Len(c)
  BY <1>3
<1>5. abc \o d \in Seq(Nat) /\ Len(abc \o d) = Len(a) + Len(b) + Len(c) + Len(d)
  BY <1>4, ConcatProperties
<1> QED
  BY <1>2, <1>4, <1>5

LEMMA OwedTyped ==
    ASSUME Types
    PROVE  /\ Deferred(req) \in Seq(Nat) /\ Deferred(par.out) \in Seq(Nat)
           /\ Ids(batch) \in Seq(Nat) /\ Unserved \in Seq(Nat) /\ Owed \in Seq(Nat)
           /\ Len(Deferred(req)) = (IF wrk.pc = "collect" THEN Len(req) ELSE 0)
           /\ Len(Deferred(par.out)) = (IF wrk.pc = "collect" THEN Len(par.out) ELSE 0)
           /\ Len(Ids(batch)) = Len(batch)
           /\ Len(Unserved) = Len(resp) - (IF Asking THEN 1 ELSE 0)
           /\ \A i \in 1..Len(Unserved) : Unserved[i] = resp[i].id
           /\ Len(Owed) = Len(Deferred(req)) + Len(Deferred(par.out)) + Len(batch) + Len(Unserved)
           /\ Len(req) \in Nat /\ Len(par.out) \in Nat /\ Len(batch) \in Nat /\ Len(resp) \in Nat
<1>1. /\ req \in Seq(ToWorker) /\ par.out \in Seq(ReplyRec) /\ batch \in Seq(JobRec)
      /\ resp \in Seq(FrameRec)
  BY DEF Types, ParRec
<1>2. /\ \A x \in ToWorker : x.id \in Nat
      /\ \A x \in ReplyRec : x.id \in Nat
      /\ \A x \in JobRec : x.id \in Nat
      /\ \A x \in FrameRec : x.id \in Nat
  BY DEF ToWorker, ReplyRec, JobRec, FrameRec
<1>3. Ids(req) \in Seq(Nat) /\ Len(Ids(req)) = Len(req)
  BY <1>1, <1>2, IdsTyped
<1>4. Ids(par.out) \in Seq(Nat) /\ Len(Ids(par.out)) = Len(par.out)
  BY <1>1, <1>2, IdsTyped
<1>5. Ids(batch) \in Seq(Nat) /\ Len(Ids(batch)) = Len(batch)
  BY <1>1, <1>2, IdsTyped
<1>6. Len(req) \in Nat /\ Len(par.out) \in Nat /\ Len(batch) \in Nat /\ Len(resp) \in Nat
  BY <1>1, LenProperties
<1>7. Deferred(req) \in Seq(Nat)
      /\ Len(Deferred(req)) = (IF wrk.pc = "collect" THEN Len(req) ELSE 0)
  BY <1>3, EmptySeq DEF Deferred
<1>8. Deferred(par.out) \in Seq(Nat)
      /\ Len(Deferred(par.out)) = (IF wrk.pc = "collect" THEN Len(par.out) ELSE 0)
  BY <1>4, EmptySeq DEF Deferred
<1>9. /\ Unserved \in Seq(Nat) /\ Len(Unserved) = Len(resp) - (IF Asking THEN 1 ELSE 0)
      /\ \A i \in 1..Len(Unserved) : Unserved[i] = resp[i].id
  <2> DEFINE n == Len(resp) - (IF Asking THEN 1 ELSE 0)
  <2>1. n \in Nat /\ n <= Len(resp)
    <3>1. Asking => Len(resp) \in Nat \ {0}
      BY <1>1, EmptySeq DEF Asking
    <3> QED
      BY <1>6, <3>1
  <2>2. Unserved = [i \in 1..n |-> resp[i].id]
    BY DEF Unserved
  <2> HIDE DEF n
  <2>3. \A i \in 1..n : resp[i].id \in Nat
    BY <1>1, <1>2, <1>6, <2>1, ElementOfSeq
  <2>4. Unserved \in Seq(Nat)
    BY <2>1, <2>2, <2>3, IsASeq
  <2>5. Len(Unserved) = n /\ \A i \in 1..n : Unserved[i] = resp[i].id
    BY <2>1, <2>2
  <2> QED
    BY <2>4, <2>5 DEF n
<1>10. /\ Owed \in Seq(Nat)
       /\ Len(Owed) = Len(Deferred(req)) + Len(Deferred(par.out)) + Len(batch) + Len(Unserved)
  <2>1. Deferred(req) \in Seq(Nat) /\ Deferred(par.out) \in Seq(Nat) /\ Ids(batch) \in Seq(Nat)
        /\ Unserved \in Seq(Nat)
    BY <1>5, <1>7, <1>8, <1>9
  <2>2. /\ Owed \in Seq(Nat)
        /\ Len(Owed) = Len(Deferred(req)) + Len(Deferred(par.out)) + Len(Ids(batch)) + Len(Unserved)
    <3> DEFINE a == Deferred(req)
               b == Deferred(par.out)
               c == Ids(batch)
               d == Unserved
    <3>1. a \in Seq(Nat) /\ b \in Seq(Nat) /\ c \in Seq(Nat) /\ d \in Seq(Nat)
          /\ Owed = a \o b \o c \o d
      BY <2>1 DEF Owed
    <3> HIDE DEF a, b, c, d
    <3>2. Owed \in Seq(Nat) /\ Len(Owed) = Len(a) + Len(b) + Len(c) + Len(d)
      BY <3>1, FourParts
    <3> QED
      BY <3>2 DEF a, b, c, d
  <2> QED
    BY <1>5, <2>2
<1> QED
  BY <1>5, <1>6, <1>7, <1>8, <1>9, <1>10

LEMMA ReplyingCount ==
    ASSUME Types, Replying, Counted, WorkerSound
    PROVE  Len(req) + Len(par.out) = wrk.need - Len(got)
<1>1. wrk.pc = "collect" /\ Len(resp) = 0 /\ Len(batch) = 0 /\ ~Asking /\ wrk.pending = 0
  BY DEF Replying, Asking, WorkerSound
<1>2. Len(Owed) = wrk.need - Len(got)
  <2>1. wrk.need - Len(got) \in Int
    BY LenProperties DEF Types, WrkRec
  <2> QED
    BY <1>1, <2>1 DEF Counted
<1> QED
  BY <1>1, <1>2, OwedTyped, SMTT(20)

-----------------------------------------------------------------------------
(* Turns.                                                                  *)

Alive == Turns /\ WorkerSound /\ (~Abandoned => Counted /\ InOrder)

LEMMA FirstLast ==
    ASSUME Types, RespInTurn, resp # <<>>, Head(resp).t # "ASYNC"
    PROVE  Len(resp) = 1 /\ Tail(resp) = <<>> /\ resp[Len(resp)] = Head(resp)
<1>1. Head(resp) = resp[1] /\ Len(resp) \in Nat \ {0} /\ Tail(resp) \in Seq(FrameRec)
      /\ Len(Tail(resp)) = Len(resp) - 1
  BY RespTyped
<1>2. Len(resp) = 1
  <2>1. \A i \in 1..Len(resp) : resp[i].t # "ASYNC" => i = Len(resp)
    BY DEF RespInTurn
  <2>2. 1 \in 1..Len(resp) /\ resp[1].t # "ASYNC"
    BY <1>1
  <2> QED
    BY <2>1, <2>2
<1>3. Tail(resp) = <<>>
  <2>1. Len(Tail(resp)) = 0
    BY <1>1, <1>2
  <2> QED
    BY <1>1, <2>1, EmptySeq
<1> QED
  BY <1>1, <1>2, <1>3

Popped == resp' = Tail(resp)

LEMMA NextFrame ==
    ASSUME Types, RespInTurn, resp # <<>>, Head(resp).t = "ASYNC", Popped
    PROVE  /\ resp' \in Seq(FrameRec) /\ Len(resp') = Len(resp) - 1 /\ Len(resp) \in Nat \ {0}
           /\ \A i \in 1..Len(resp') : resp'[i] = resp[i + 1]
           /\ \A i \in 1..Len(resp') :
                 /\ resp'[i].t # "ASYNC" => i = Len(resp')
                 /\ resp'[i].t = "RESULT" => resp'[i].id = tab.opn
                 /\ par.op = "quiet" => resp'[i].t = "RESULT"
           /\ \A t \in {"RESULT", "SUBREQ", "NETWAIT"} :
                 LastIs(t) => LastIs(t)' /\ resp'[Len(resp')] = resp[Len(resp)]
           /\ (\A i \in 1..Len(resp) : resp[i].t = "ASYNC")
                 => \A i \in 1..Len(resp') : resp'[i].t = "ASYNC"
<1>1. /\ Head(resp) = resp[1] /\ Len(resp) \in Nat \ {0} /\ resp' \in Seq(FrameRec)
      /\ Len(resp') = Len(resp) - 1 /\ \A i \in 1..Len(resp) - 1 : resp'[i] = resp[i + 1]
  BY RespTyped DEF Popped
<1>2. \A i \in 1..Len(resp') : resp'[i] = resp[i + 1] /\ i + 1 \in 1..Len(resp)
  BY <1>1
<1>3. \A i \in 1..Len(resp') :
          /\ resp'[i].t # "ASYNC" => i = Len(resp')
          /\ resp'[i].t = "RESULT" => resp'[i].id = tab.opn
          /\ par.op = "quiet" => resp'[i].t = "RESULT"
  <2>1. \A i \in 1..Len(resp) :
            /\ resp[i].t # "ASYNC" => i = Len(resp)
            /\ resp[i].t = "RESULT" => resp[i].id = tab.opn
            /\ par.op = "quiet" => resp[i].t = "RESULT"
    BY DEF RespInTurn
  <2> TAKE i \in 1..Len(resp')
  <2>2. resp'[i] = resp[i + 1] /\ i + 1 \in 1..Len(resp)
    BY <1>2
  <2>3. i + 1 = Len(resp) => i = Len(resp')
    BY <1>1
  <2> QED
    BY <2>1, <2>2, <2>3
<1>4. ASSUME NEW t \in {"RESULT", "SUBREQ", "NETWAIT"}, LastIs(t)
      PROVE  LastIs(t)' /\ resp'[Len(resp')] = resp[Len(resp)]
  <2>1. Len(resp) # 1
    BY <1>1, <1>4 DEF LastIs
  <2>2. Len(resp') \in 1..Len(resp') /\ Len(resp') # 0
    BY <1>1, <2>1
  <2>3. resp' # <<>>
    BY <1>1, <2>2, NotEmpty
  <2>4. resp'[Len(resp')] = resp[Len(resp)]
    BY <1>1, <1>2, <2>2
  <2> QED
    BY <1>4, <2>3, <2>4 DEF LastIs
<1> QED
  BY <1>1, <1>2, <1>3, <1>4

LEMMA NewFrame ==
    ASSUME Types, NEW f \in FrameRec, resp' = Append(resp, f),
           \A i \in 1..Len(resp) : resp[i].t = "ASYNC"
    PROVE  /\ Len(resp') = Len(resp) + 1 /\ Len(resp) \in Nat /\ LastIs(f.t)'
           /\ resp'[Len(resp')] = f
           /\ \A i \in 1..Len(resp) : resp'[i] = resp[i]
           /\ \A i \in 1..Len(resp') : resp'[i].t # "ASYNC" => i = Len(resp') /\ resp'[i] = f
           /\ f.t = "ASYNC" => \A i \in 1..Len(resp') : resp'[i].t = "ASYNC"
<1>1. /\ resp' # <<>> /\ Len(resp') = Len(resp) + 1 /\ Len(resp) \in Nat
      /\ \A i \in 1..Len(resp) : resp'[i] = resp[i]
      /\ resp'[Len(resp) + 1] = f
  <2>1. resp \in Seq(FrameRec)
    BY DEF Types
  <2> QED
    BY <2>1, AppendProperties, LenProperties
<1> QED
  BY <1>1 DEF LastIs

LEMMA ServeTagInTurn ==
    ASSUME Types, RespInTurn, wrk.pc # "dead" => Turns /\ WorkerSound, ServeTag,
           slip' # "refused"
    PROVE  RespInTurn' /\ (wrk'.pc # "dead" => Turns' /\ WorkerSound')
<1> DEFINE m == Head(resp)
<1>1. /\ par.pc = "serve" /\ resp # <<>> /\ resp' = Tail(resp)
      /\ UNCHANGED <<req, wrk, nq, got, seq>>
      /\ \/ ServesResult(m)
         \/ par.op # "quiet" /\ (ServesSubreq(m) \/ ServesAsync(m) \/ ServesWait(m))
         \/ ServesNothing(m)
  BY ServeTagDoes, Zenon
<1>2. m = resp[1] /\ Len(resp) \in Nat \ {0} /\ m \in FrameRec /\ par.out = <<>>
      /\ m.t \in {"SUBREQ", "ASYNC", "NETWAIT", "RESULT"}
  BY <1>1, RespTyped, RecordsTyped DEF RespInTurn
<1>3. m.t # "ASYNC" => resp' = <<>> /\ Len(resp') = 0 /\ resp[Len(resp)] = m
  BY <1>1, FirstLast
<1>4. WorkerSound => WorkerSound'
  <2>1. tab'.opn = tab.opn
    BY <1>1 DEF ServesResult, ServesSubreq, ServesAsync, ServesWait, ServesNothing, SameTab
  <2> QED
    BY <1>1, <2>1 DEF WorkerSound
<1>5. wrk.pc # "dead" => /\ m.t = "RESULT" => Answered
                         /\ m.t = "SUBREQ" => Sync /\ m.id = wrk.wait /\ req = <<>>
                         /\ m.t = "NETWAIT" => Asked
  <2>1. m.t # "ASYNC" /\ wrk.pc # "dead" => ~Between /\ ~Sent /\ ~Run /\ ~Replying
    BY <1>1, <1>2 DEF Between, Sent, Run, Replying
  <2>2. Answered => m.t \in {"ASYNC", "RESULT"}
    BY <1>3 DEF Answered, LastIs
  <2>3. Sync => m.t = "ASYNC" \/ (m.t = "SUBREQ" /\ m.id = wrk.wait /\ req = <<>>)
    BY <1>1, <1>3 DEF Sync, LastIs
  <2>4. Asked => m.t \in {"ASYNC", "NETWAIT"}
    BY <1>1, <1>3 DEF Asked, LastIs
  <2> QED
    BY <1>2, <2>1, <2>2, <2>3, <2>4 DEF Turns
<1> HIDE DEF m
<1>6. CASE ServesResult(m)
  <2>1. par'.pc \in {"idle", "unbind"} /\ par'.out = <<>> /\ m.t = "RESULT"
    BY <1>6 DEF ServesResult, Returned
  <2>2. RespInTurn'
    BY <1>3, <2>1 DEF RespInTurn
  <2>3. wrk.pc # "dead" => Between'
    BY <1>1, <1>5, <2>1 DEF Between, Answered
  <2> QED
    BY <1>1, <1>4, <2>2, <2>3 DEF Turns
<1>7. CASE ServesSubreq(m)
  <2>1. m.t = "SUBREQ" /\ par'.op = par.op /\ SameTab /\ par'.pc \in {"fetch", "reply"}
        /\ (par'.pc = "fetch" => par'.id = m.id /\ par'.out = <<>>)
        /\ (par'.pc = "reply" => Len(par'.out) = 1 /\ par'.out[1].id = m.id)
    BY <1>2, <1>7 DEF ServesSubreq
  <2>2. RespInTurn'
    BY <1>3, <2>1 DEF RespInTurn
  <2>3. wrk.pc # "dead" => Sync'
    BY <1>1, <1>5, <2>1 DEF Sync, Obeying, SameTab
  <2> QED
    BY <1>1, <1>4, <2>2, <2>3 DEF Turns
<1>8. CASE ServesAsync(m)
  <2>1. m.t = "ASYNC" /\ par'.pc = "serve" /\ par'.op = par.op /\ par'.out = <<>> /\ SameTab
    BY <1>1, <1>2, <1>8 DEF ServesAsync, SameServe
  <2>2. /\ \A i \in 1..Len(resp') :
              /\ resp'[i].t # "ASYNC" => i = Len(resp')
              /\ resp'[i].t = "RESULT" => resp'[i].id = tab.opn
              /\ par.op = "quiet" => resp'[i].t = "RESULT"
        /\ \A t \in {"RESULT", "SUBREQ", "NETWAIT"} :
              LastIs(t) => LastIs(t)' /\ resp'[Len(resp')] = resp[Len(resp)]
        /\ (\A i \in 1..Len(resp) : resp[i].t = "ASYNC")
              => \A i \in 1..Len(resp') : resp'[i].t = "ASYNC"
    BY <1>1, <2>1, NextFrame DEF m, Popped
  <2>3. RespInTurn'
    BY <2>1, <2>2 DEF RespInTurn, SameTab
  <2>4. ~Between /\ ~Sent /\ ~Replying
    BY <1>1 DEF Between, Sent, Replying
  <2>5. Run => Run'
    BY <1>1, <2>1, <2>2 DEF Run, Obeying, SameTab
  <2>6. Answered => Answered'
    BY <1>1, <2>1, <2>2 DEF Answered, Obeying, SameTab
  <2>7. Sync => Sync'
    BY <1>1, <2>1, <2>2 DEF Sync, Obeying, SameTab
  <2>8. Asked => Asked'
    BY <1>1, <2>1, <2>2 DEF Asked, Obeying, SameTab
  <2> QED
    BY <1>1, <1>4, <2>3, <2>4, <2>5, <2>6, <2>7, <2>8 DEF Turns
<1>9. CASE ServesWait(m)
  <2>1. m.t = "NETWAIT" /\ par'.pc = "join" /\ par'.op = par.op /\ par'.out = <<>> /\ SameTab
    BY <1>2, <1>9 DEF ServesWait, SameServe
  <2>2. RespInTurn'
    BY <1>3, <2>1 DEF RespInTurn
  <2>3. wrk.pc # "dead" => Asked'
    BY <1>1, <1>5, <2>1 DEF Asked, Obeying, SameTab
  <2> QED
    BY <1>1, <1>4, <2>2, <2>3 DEF Turns
<1>10. CASE ServesNothing(m)
  BY <1>2, <1>10 DEF ServesNothing, RespInTurn
<1> QED
  BY <1>1, <1>6, <1>7, <1>8, <1>9, <1>10

InTurn == RespInTurn /\ (wrk.pc # "dead" => Alive)

LEMMA SingletonReq ==
    ASSUME NEW m \in ToWorker, req = <<>>, req' = Append(req, m)
    PROVE  Len(req') = 1 /\ req'[1] = m
OBVIOUS

LEMMA LastMessage ==
    ASSUME Types, Len(req) = 1
    PROVE  req # <<>> /\ Head(req) = req[1] /\ Tail(req) = <<>>
<1>1. req \in Seq(ToWorker) /\ req # <<>>
  <2>1. req \in Seq(ToWorker) /\ Len(req) # 0
    BY DEF Types
  <2> QED
    BY <2>1, NotEmpty
<1>2. Head(req) = req[1] /\ Tail(req) \in Seq(ToWorker) /\ Len(Tail(req)) = 0
  BY <1>1, ReqTyped
<1>3. Tail(req) = <<>>
  BY <1>2, EmptySeq
<1> QED
  BY <1>1, <1>2, <1>3

LEMMA BeginOpInTurn ==
    ASSUME Types, InTurn, NEW op \in Ops, BeginOp(op)
    PROVE  RespInTurn' /\ Turns' /\ WorkerSound'
<1>1. /\ par.pc = "idle" /\ wrk.pc # "dead"
      /\ par'.pc = (IF op = "load" THEN "discard" ELSE "send")
      /\ par'.op = op /\ par'.out = <<>>
      /\ tab'.opn = tab.opn + 1
      /\ UNCHANGED <<req, resp, batch, wrk, nq, got>>
  BY BeginOpDoes DEF UnchangedWorker
<1>2. resp = <<>> /\ Len(resp) = 0 /\ Between /\ WorkerSound
  BY <1>1 DEF InTurn, Alive, RespInTurn, Turns, Between, Sent, Run, Answered, Sync, Asked, Replying
<1>3. wrk.n < tab'.opn
  BY <1>1, <1>2, SMTT(20) DEF WorkerSound, Types, WrkRec, TabRec
<1>4. RespInTurn'
  BY <1>1, <1>2 DEF RespInTurn
<1>5. Between'
  BY <1>1, <1>2, <1>3 DEF Between
<1>6. wrk'.n <= tab'.opn
  BY <1>1, <1>3, SMTT(20) DEF Types, WrkRec, TabRec
<1>7. WorkerSound'
  BY <1>1, <1>2, <1>6 DEF WorkerSound
<1> QED
  BY <1>4, <1>5, <1>7 DEF Turns

LEMMA SendInTurn ==
    ASSUME Types, InTurn, OwnBatch, NEW r \in Grants, Send(r)
    PROVE  RespInTurn' /\ Sent' /\ WorkerSound'
<1>1. /\ par.pc = "send" /\ wrk.pc # "dead" /\ par'.pc = "serve"
      /\ par'.op = par.op /\ par'.out = par.out /\ tab'.opn = tab.opn
      /\ UNCHANGED <<resp, batch, wrk, nq, got>>
  BY SendDoes DEF SameServe, UnchangedWorker
<1>2. PICK m \in ToWorker : req' = Append(req, m) /\ m.t = "op" /\ m.id = tab.opn /\ m.op = par.op
  BY SendDoes
<1>3. resp = <<>> /\ Len(resp) = 0 /\ Between /\ WorkerSound
  BY <1>1 DEF InTurn, Alive, RespInTurn, Turns, Between, Sent, Run, Answered, Sync, Asked, Replying
<1>4. Len(req') = 1 /\ req'[1] = m
  BY <1>2, <1>3, SingletonReq DEF Between
<1>5. par.op = "load" => batch = <<>>
  BY <1>1 DEF OwnBatch
<1>6. Sent'
  BY <1>1, <1>2, <1>3, <1>4, <1>5 DEF Sent, Between
<1>7. RespInTurn'
  BY <1>1, <1>3 DEF RespInTurn, InTurn
<1>8. WorkerSound'
  BY <1>1, <1>3 DEF WorkerSound
<1> QED
  BY <1>6, <1>7, <1>8

LEMMA WriteReplyInTurn ==
    ASSUME Types, InTurn, WriteReply
    PROVE  RespInTurn' /\ Turns' /\ WorkerSound'
<1>1. /\ par.pc = "reply" /\ wrk.pc # "dead" /\ par'.op = par.op
      /\ par.out # <<>> /\ par'.out = Tail(par.out)
      /\ par'.pc = (IF Len(par.out) = 1 THEN "serve" ELSE "reply")
      /\ req' = Append(req, Head(par.out))
      /\ tab'.opn = tab.opn /\ UNCHANGED <<resp, batch, wrk, nq, got>>
  BY WriteReplyDoes DEF SameTab, UnchangedWorker
<1>2. par.out \in Seq(ReplyRec) /\ req \in Seq(ToWorker)
  BY DEF Types, ParRec
<1>3. /\ Head(par.out) \in ReplyRec /\ Head(par.out) = par.out[1]
      /\ Tail(par.out) \in Seq(ReplyRec) /\ Len(Tail(par.out)) = Len(par.out) - 1
      /\ Len(par.out) \in Nat \ {0}
  BY <1>1, <1>2, HeadTailProperties, EmptySeq
<1>4. Len(par.out) = 1 => Tail(par.out) = <<>>
  <2>1. Len(par.out) = 1 => Len(Tail(par.out)) = 0
    BY <1>3
  <2> QED
    BY <1>3, <2>1, EmptySeq
<1>5. PICK h \in ToWorker : h = Head(par.out) /\ h.t = "reply"
  BY <1>3, RecordsTyped
<1>6. resp = <<>> /\ Len(resp) = 0 /\ (Sync \/ Replying) /\ WorkerSound
  BY <1>1 DEF InTurn, Alive, RespInTurn, Turns, Between, Sent, Run, Answered, Sync, Asked, Replying
<1>7. RespInTurn'
  BY <1>1, <1>4, <1>6 DEF RespInTurn
<1>8. CASE Sync
  <2>1. req = <<>> /\ Len(par.out) = 1 /\ par.out[1].id = wrk.wait
    BY <1>1, <1>8 DEF Sync
  <2>2. Len(req') = 1 /\ req'[1] = h
    BY <1>1, <1>5, <2>1, SingletonReq
  <2> QED
    BY <1>1, <1>3, <1>5, <1>6, <1>7, <1>8, <2>1, <2>2 DEF Sync, Obeying, Turns, WorkerSound
<1>9. CASE Replying
  <2>1. /\ Len(req') = Len(req) + 1 /\ Len(req) \in Nat /\ req'[Len(req) + 1] = h
        /\ \A i \in 1..Len(req) : req'[i] = req[i]
    BY <1>1, <1>2, <1>5, AppendProperties, LenProperties
  <2>2. \A i \in 1..Len(req') : req'[i].t = "reply"
    BY <1>5, <1>9, <2>1 DEF Replying
  <2>3. Replying'
    BY <1>1, <1>9, <2>2 DEF Replying, Obeying
  <2>4. WorkerSound'
    BY <1>1, <1>6 DEF WorkerSound
  <2> QED
    BY <1>7, <2>3, <2>4 DEF Turns
<1> QED
  BY <1>6, <1>8, <1>9

LEMMA ParentInTurn ==
    ASSUME Types, InTurn, OwnBatch, slip' # "refused", Parent
    PROVE  RespInTurn' /\ (wrk'.pc # "dead" => Turns' /\ WorkerSound')
<1> USE DEF SameTab, SameServe, UnchangedWorker
<1>0. wrk.pc # "dead" => Turns /\ WorkerSound
  BY DEF InTurn, Alive
<1>1. CASE Discard
  <2>1. /\ par.pc = "discard" /\ par'.pc = "send" /\ par'.op = par.op /\ par'.out = par.out
        /\ tab'.opn = tab.opn /\ UNCHANGED <<req, resp, wrk, got>>
    BY <1>1, DiscardDoes
  <2>2. wrk.pc # "dead" => Between
    BY <1>0, <2>1 DEF Turns, Sent, Run, Answered, Sync, Asked, Replying
  <2>3. wrk'.pc # "dead" => Between'
    BY <2>1, <2>2 DEF Between
  <2>4. WorkerSound => WorkerSound'
    BY <2>1 DEF WorkerSound
  <2>5. RespInTurn'
    BY <2>1 DEF InTurn, RespInTurn
  <2> QED
    BY <1>0, <2>1, <2>3, <2>4, <2>5 DEF Turns
<1>2. ASSUME NEW r \in Grants, Send(r)
      PROVE  RespInTurn' /\ Turns' /\ WorkerSound'
  BY <1>2, SendInTurn DEF Turns
<1>3. CASE Broken
  <2>1. wrk'.pc = "dead" /\ resp = <<>> /\ Len(resp) = 0 /\ resp' = resp /\ Returned
    BY <1>3, BrokenDoes DEF InTurn, RespInTurn
  <2> QED
    BY <2>1 DEF RespInTurn, Returned
<1>4. CASE ServeTag
  BY <1>0, <1>4, ServeTagInTurn DEF InTurn
<1>5. CASE SyncFetched
  <2>1. /\ par.pc = "fetch" /\ par'.pc = "reply" /\ par'.op = par.op
        /\ Len(par'.out) = 1 /\ par'.out[1].id = par.id
        /\ tab'.opn = tab.opn /\ UNCHANGED <<req, resp, wrk, got>>
    BY <1>5, SyncFetchedDoes
  <2>2. wrk.pc # "dead" => Sync
    BY <1>0, <2>1 DEF Turns, Between, Sent, Run, Answered, Asked, Replying
  <2>3. wrk'.pc # "dead" => Sync'
    BY <2>1, <2>2 DEF Sync, Obeying
  <2>4. WorkerSound => WorkerSound'
    BY <2>1 DEF WorkerSound
  <2>5. RespInTurn'
    BY <2>1 DEF InTurn, RespInTurn
  <2> QED
    BY <1>0, <2>1, <2>3, <2>4, <2>5 DEF Turns
<1>6. CASE NetWait
  <2>1. /\ par.pc = "join" /\ par'.op = par.op /\ batch' = <<>>
        /\ par'.pc = (IF batch = <<>> THEN "serve" ELSE "reply")
        /\ par'.out \in Seq(ReplyRec) /\ Len(par'.out) = Len(batch)
        /\ tab'.opn = tab.opn /\ UNCHANGED <<req, resp, wrk, got>>
    BY <1>6, NetWaitDoes
  <2>2. batch = <<>> => par'.out = <<>>
    BY <2>1, EmptySeq
  <2>3. wrk.pc # "dead" => Asked /\ resp = <<>> /\ Len(req) = 0
    BY <1>0, <2>1 DEF InTurn, RespInTurn, Turns, Between, Sent, Run, Answered, Sync, Asked, Replying
  <2>4. wrk'.pc # "dead" => Replying'
    BY <2>1, <2>3 DEF Asked, Replying, Obeying
  <2>5. WorkerSound => WorkerSound'
    BY <2>1 DEF WorkerSound
  <2>6. RespInTurn'
    BY <2>1, <2>2 DEF InTurn, RespInTurn
  <2> QED
    BY <1>0, <2>1, <2>4, <2>5, <2>6 DEF Turns
<1>7. CASE WriteReply
  BY <1>7, WriteReplyInTurn
<1>8. CASE Unbind
  <2>1. /\ par.pc = "unbind" /\ par'.pc = "idle" /\ par'.op = "quiet" /\ par'.out = <<>>
        /\ tab'.opn = tab.opn /\ UNCHANGED <<req, resp, wrk, got>>
    BY <1>8, UnbindDoes
  <2>2. resp = <<>> /\ Len(resp) = 0
    BY <2>1 DEF InTurn, RespInTurn
  <2>3. wrk.pc # "dead" => Between
    BY <1>0, <2>1 DEF Turns, Sent, Run, Answered, Sync, Asked, Replying
  <2>4. wrk'.pc # "dead" => Between'
    BY <2>1, <2>3 DEF Between
  <2>5. WorkerSound => WorkerSound'
    BY <2>1 DEF WorkerSound
  <2>6. RespInTurn'
    BY <2>1, <2>2 DEF RespInTurn
  <2> QED
    BY <1>0, <2>1, <2>4, <2>5, <2>6 DEF Turns
<1>9. CASE FreeTab
  <2>1. /\ par.pc = "closing" /\ par'.pc = "closed" /\ par'.op = par.op /\ par'.out = par.out
        /\ tab'.opn = tab.opn /\ UNCHANGED <<resp, wrk>>
    BY <1>9, FreeTabDoes
  <2>2. wrk.pc = "dead"
    BY <1>0, <2>1 DEF Turns, Between, Sent, Run, Answered, Sync, Asked, Replying
  <2> QED
    BY <2>1, <2>2 DEF InTurn, RespInTurn
<1> QED
  BY <1>1, <1>2, <1>3, <1>4, <1>5, <1>6, <1>7, <1>8, <1>9 DEF Parent

(* The worker's steps, none of which touches what the parent keeps. *)
LEMMA RespKept ==
    ASSUME RespInTurn, UnchangedParent, UNCHANGED resp
    PROVE  RespInTurn'
BY DEF RespInTurn, UnchangedParent

LEMMA RespGrows ==
    ASSUME Types, InTurn, Run, UnchangedParent, NEW f \in FrameRec, resp' = Append(resp, f),
           f.t = "RESULT" => f.id = tab.opn, par.op = "quiet" => f.t = "RESULT"
    PROVE  RespInTurn'
<1>1. \A i \in 1..Len(resp) : resp[i].t = "ASYNC"
  BY DEF Run
<1>2. /\ Len(resp') = Len(resp) + 1 /\ Len(resp) \in Nat /\ resp'[Len(resp')] = f
      /\ \A i \in 1..Len(resp) : resp'[i] = resp[i]
      /\ \A i \in 1..Len(resp') : resp'[i].t # "ASYNC" => i = Len(resp') /\ resp'[i] = f
  BY <1>1, NewFrame
<1>3. /\ par.pc = "serve" /\ par.out = <<>>
      /\ par.op = "quiet" => \A i \in 1..Len(resp) : resp[i].t = "RESULT"
  BY DEF Run, InTurn, RespInTurn
<1>4. par' = par /\ tab' = tab
  BY DEF UnchangedParent
<1>5. ASSUME NEW i \in 1..Len(resp')
      PROVE  /\ resp'[i].t # "ASYNC" => i = Len(resp')
             /\ resp'[i].t = "RESULT" => resp'[i].id = tab.opn
             /\ par.op = "quiet" => resp'[i].t = "RESULT"
  <2>1. i \in 1..Len(resp) \/ i = Len(resp')
    BY <1>2
  <2>2. resp'[i].t # "ASYNC" => i = Len(resp') /\ resp'[i] = f
    BY <1>2
  <2>3. CASE i \in 1..Len(resp)
    BY <1>1, <1>2, <1>3, <2>2, <2>3
  <2>4. CASE i = Len(resp')
    BY <1>2, <2>2, <2>4
  <2> QED
    BY <2>1, <2>3, <2>4
<1> QED
  BY <1>3, <1>4, <1>5 DEF RespInTurn

LEMMA WorkerTurn ==
    ASSUME Types, InTurn
    PROVE  /\ wrk.pc = "run" => Run
           /\ wrk.pc = "sync" => Sync
           /\ wrk.pc = "idle" /\ req # <<>> => Sent
           /\ wrk.pc = "collect" /\ req # <<>> => Replying
           /\ wrk.pc # "dead" => WorkerSound
BY DEF InTurn, Alive, Turns, Between, Sent, Run, Answered, Sync, Asked, Replying

LEMMA ReadOpInTurn ==
    ASSUME Types, InTurn, ReadOp
    PROVE  RespInTurn' /\ Run' /\ WorkerSound' /\ Sent /\ Head(req).t = "op"
<1>1. Sent /\ WorkerSound
  BY WorkerTurn DEF ReadOp
<1>2. Head(req) = req[1] /\ Tail(req) = <<>> /\ Head(req).t = "op"
  BY <1>1, LastMessage DEF Sent
<1>3. /\ wrk.pc = "idle" /\ wrk'.pc = "run" /\ req' = <<>> /\ wrk'.n = tab.opn /\ wrk'.op = par.op
      /\ wrk'.op = "quiet" => wrk'.phase = "result" /\ ~wrk'.net_active
      /\ UNCHANGED <<resp, got>> /\ UnchangedParent
  BY <1>1, <1>2, ReadOpDoes DEF Sent
<1>4. par' = par /\ tab' = tab
  BY <1>3 DEF UnchangedParent
<1>5. resp = <<>> /\ Len(resp) = 0 /\ par.pc = "serve"
  BY <1>1 DEF Sent
<1>6. RespInTurn'
  BY <1>3, RespKept DEF InTurn
<1>7. Run'
  BY <1>3, <1>4, <1>5 DEF Run, Obeying
<1>8. got = <<>>
  BY <1>1, <1>3 DEF WorkerSound
<1>9. tab.opn <= tab.opn
  BY DEF Types, TabRec
<1>10. WorkerSound'
  BY <1>3, <1>4, <1>8, <1>9 DEF WorkerSound
<1> QED
  BY <1>1, <1>2, <1>6, <1>7, <1>10

LEMMA ReadSyncInTurn ==
    ASSUME Types, InTurn, ReadSync
    PROVE  RespInTurn' /\ Run' /\ WorkerSound' /\ Sync /\ Head(req).t # "op"
<1>1. Sync /\ WorkerSound /\ wrk.pc = "sync" /\ req # <<>>
  BY WorkerTurn DEF ReadSync
<1>2. par.pc = "serve" /\ resp = <<>> /\ Len(resp) = 0 /\ Len(req) = 1 /\ req[1].t = "reply"
  BY <1>1 DEF Sync
<1>3. Head(req).t # "op" /\ Tail(req) = <<>>
  BY <1>2, LastMessage
<1>4. /\ wrk'.pc = "run" /\ req' = <<>> /\ wrk'.n = wrk.n /\ wrk'.op = wrk.op
      /\ wrk'.phase = wrk.phase /\ UNCHANGED <<resp, got>> /\ UnchangedParent
  BY <1>3, ReadSyncDoes DEF SameJob
<1>5. par' = par /\ tab' = tab
  BY <1>4 DEF UnchangedParent
<1>6. RespInTurn'
  BY <1>4, RespKept DEF InTurn
<1>7. Run'
  BY <1>1, <1>2, <1>4, <1>5 DEF Run, Sync, Obeying
<1>8. WorkerSound'
  BY <1>1, <1>4, <1>5 DEF WorkerSound
<1> QED
  BY <1>1, <1>3, <1>6, <1>7, <1>8

LEMMA CollectInTurn ==
    ASSUME Types, InTurn, Collect
    PROVE  /\ RespInTurn' /\ Turns' /\ WorkerSound' /\ Replying /\ Counted /\ WorkerSound
           /\ Head(req).t = "reply"
           /\ wrk'.pc = "run" => Len(req) = 1 /\ Len(par.out) = 0 /\ par.pc = "serve"
<1>1. Replying /\ WorkerSound /\ wrk.pc = "collect" /\ req # <<>> /\ Alive
  BY WorkerTurn DEF Collect, InTurn
<1>2. ~Abandoned
  BY <1>1 DEF Replying, Obeying, Abandoned
<1>3. Counted
  BY <1>1, <1>2 DEF Alive
<1>4. Len(req) + Len(par.out) = wrk.need - Len(got)
  BY <1>1, <1>3, ReplyingCount
<1>5. /\ Head(req) = req[1] /\ Len(req) \in Nat \ {0} /\ Len(Tail(req)) = Len(req) - 1
      /\ Tail(req) \in Seq(ToWorker)
      /\ \A i \in 1..Len(req) - 1 : Tail(req)[i] = req[i + 1]
  BY <1>1, ReqTyped
<1>6. \A i \in 1..Len(req) : req[i].t = "reply"
  BY <1>1 DEF Replying
<1>7. Head(req).t = "reply"
  BY <1>5, <1>6
<1>8. /\ got' = Append(got, Head(req).id) /\ req' = Tail(req) /\ SameJob
      /\ wrk'.pending = wrk.pending
      /\ IF Len(got) + 1 = wrk.need THEN wrk'.pc = "run" /\ wrk'.phase = "deliver"
                                    ELSE wrk'.pc = "collect" /\ wrk'.need = wrk.need
      /\ UNCHANGED <<resp, nq, seq, slip>> /\ UnchangedParent
  BY <1>7, CollectDoes
<1>9. par' = par /\ tab' = tab /\ batch' = batch
  BY <1>8 DEF UnchangedParent
<1>10. Len(got) \in Nat /\ wrk.need \in Nat /\ Len(par.out) \in Nat /\ Len(got') = Len(got) + 1
  <2>1. got \in Seq(Nat) /\ par.out \in Seq(ReplyRec) /\ wrk.need \in Nat
    BY DEF Types, ParRec, WrkRec
  <2>2. Head(req).id \in Nat
    BY <1>1, ReqTyped, RecordsTyped
  <2> QED
    BY <1>8, <2>1, <2>2, LenProperties, AppendProperties
<1>11. RespInTurn'
  BY <1>8, RespKept DEF InTurn
<1>12. WorkerSound'
  <2>1. wrk.op # "quiet" /\ Len(got) < wrk.need /\ wrk.pending = 0 /\ wrk.n <= tab.opn
    BY <1>1 DEF WorkerSound
  <2>2. wrk'.pc = "collect" => Len(got') < wrk'.need
    BY <1>8, <1>10, <2>1
  <2> QED
    BY <1>8, <1>9, <2>1, <2>2 DEF WorkerSound, SameJob
<1>13. CASE Len(got) + 1 = wrk.need
  <2>1. Len(req) = 1 /\ Len(par.out) = 0
    BY <1>4, <1>5, <1>10, <1>13
  <2>2. Tail(req) = <<>>
    BY <2>1, LastMessage
  <2>3. par.out = <<>>
    BY <2>1, EmptySeq DEF Types, ParRec
  <2>4. par.pc = "serve"
    BY <1>1, <2>3 DEF Replying, Types
  <2>5. Len(resp) = 0
    BY <1>1 DEF Replying
  <2>6. Run'
    BY <1>1, <1>8, <1>9, <1>13, <2>2, <2>4, <2>5 DEF Run, Replying, Obeying, SameJob
  <2> QED
    BY <1>1, <1>3, <1>7, <1>11, <1>12, <2>1, <2>4, <2>6 DEF Turns
<1>14. CASE Len(got) + 1 # wrk.need
  <2>1. \A i \in 1..Len(req) - 1 : Tail(req)[i].t = "reply"
    BY <1>5, <1>6
  <2>2. \A i \in 1..Len(req') : req'[i].t = "reply"
    BY <1>5, <1>8, <2>1
  <2>3. Replying'
    BY <1>1, <1>8, <1>9, <1>14, <2>2 DEF Replying, Obeying, SameJob
  <2> QED
    BY <1>1, <1>3, <1>7, <1>8, <1>11, <1>12, <1>14, <2>3 DEF Turns
<1> QED
  BY <1>13, <1>14

(* A step of a running worker that writes nothing. *)
LEMMA RunOn ==
    ASSUME Types, InTurn, wrk.pc = "run", wrk'.pc = "run", SameJob, UnchangedParent,
           UNCHANGED <<req, resp>>
    PROVE  RespInTurn' /\ Run /\ Run' /\ WorkerSound /\ wrk'.n <= tab'.opn
<1>1. Run /\ WorkerSound
  BY WorkerTurn
<1>2. RespInTurn'
  BY RespKept DEF InTurn
<1>3. Run'
  BY <1>1 DEF Run, Obeying, SameJob, UnchangedParent
<1> QED
  BY <1>1, <1>2, <1>3 DEF WorkerSound, SameJob, UnchangedParent

(* A step of a running worker that writes a frame. *)
LEMMA RunAsks ==
    ASSUME Types, InTurn, wrk.pc = "run", SameJob, UnchangedParent, UNCHANGED req,
           NEW f \in FrameRec, resp' = Append(resp, f),
           f.t = "RESULT" => f.id = wrk.n, wrk.op = "quiet" => f.t = "RESULT"
    PROVE  /\ RespInTurn' /\ Run /\ WorkerSound /\ wrk'.n <= tab'.opn /\ Obeying'
           /\ par'.pc = "serve" /\ req' = <<>>
           /\ LastIs(f.t)' /\ resp'[Len(resp')] = f
           /\ f.t = "ASYNC" => \A i \in 1..Len(resp') : resp'[i].t = "ASYNC"
<1>1. Run /\ WorkerSound
  BY WorkerTurn
<1>2. \A i \in 1..Len(resp) : resp[i].t = "ASYNC"
  BY <1>1 DEF Run
<1>3. /\ LastIs(f.t)' /\ resp'[Len(resp')] = f
      /\ f.t = "ASYNC" => \A i \in 1..Len(resp') : resp'[i].t = "ASYNC"
  BY <1>2, NewFrame
<1>4. (f.t = "RESULT" => f.id = tab.opn) /\ (par.op = "quiet" => f.t = "RESULT")
  BY <1>1 DEF Run, Obeying
<1>5. RespInTurn'
  BY <1>1, <1>4, RespGrows
<1>6. Obeying' /\ par'.pc = "serve" /\ req' = <<>>
  BY <1>1 DEF Run, Obeying, SameJob, UnchangedParent
<1>7. wrk'.n <= tab'.opn
  BY <1>1 DEF WorkerSound, SameJob, UnchangedParent
<1> QED
  BY <1>1, <1>3, <1>5, <1>6, <1>7

LEMMA WorkerInTurn ==
    ASSUME Types, InTurn, Worker
    PROVE  RespInTurn' /\ Turns' /\ WorkerSound'
<1>1. CASE ReadOp
  BY <1>1, ReadOpInTurn DEF Turns
<1>2. CASE ReadSync
  BY <1>2, ReadSyncInTurn DEF Turns
<1>3. CASE EndPhase
  <2>1. /\ wrk.pc = "run" /\ wrk'.pc = "run" /\ wrk.phase \in {"css", "script", "tail"}
        /\ SameJob /\ UNCHANGED <<req, resp, got>> /\ UnchangedParent
    BY <1>3, EndPhaseDoes
  <2>2. RespInTurn' /\ Run' /\ WorkerSound /\ wrk'.n <= tab'.opn
    BY <2>1, RunOn
  <2>3. got = <<>> /\ wrk.op # "quiet"
    BY <2>1, <2>2 DEF WorkerSound
  <2> QED
    BY <2>1, <2>2, <2>3 DEF WorkerSound, Turns, SameJob
<1>4. CASE Drain
  <2>1. /\ wrk.pc = "run" /\ wrk.phase = "drain" /\ SameJob
        /\ UNCHANGED <<req, got>> /\ UnchangedParent
    BY <1>4, DrainDoes
  <2>2. WorkerSound /\ got = <<>> /\ wrk.op # "quiet"
    BY <2>1, WorkerTurn DEF WorkerSound
  <2>3. CASE wrk'.pc = "run" /\ UNCHANGED resp
    <3>1. RespInTurn' /\ Run' /\ wrk'.n <= tab'.opn
      BY <2>1, <2>3, RunOn
    <3> QED
      BY <2>1, <2>2, <2>3, <3>1 DEF WorkerSound, Turns, SameJob
  <2>4. CASE /\ wrk'.pc = "collect" /\ wrk.pending > 0
             /\ wrk'.need = wrk.pending /\ wrk'.pending = 0
             /\ \E f \in FrameRec : f.t = "NETWAIT" /\ resp' = Append(resp, f)
    <3>1. PICK f \in FrameRec : f.t = "NETWAIT" /\ resp' = Append(resp, f)
      BY <2>4
    <3>2. RespInTurn' /\ wrk'.n <= tab'.opn /\ Obeying' /\ par'.pc = "serve" /\ req' = <<>>
          /\ LastIs(f.t)'
      BY <2>1, <2>2, <3>1, RunAsks
    <3>3. LastIs("NETWAIT")' /\ got' = <<>> /\ Len(got') = 0
      BY <2>1, <2>2, <3>1, <3>2
    <3>4. Asked'
      BY <2>4, <3>2, <3>3 DEF Asked
    <3> QED
      BY <2>1, <2>2, <2>4, <3>2, <3>3, <3>4 DEF WorkerSound, Turns, SameJob
  <2> QED
    BY <1>4, <2>3, <2>4, DrainDoes
<1>5. CASE Collect
  BY <1>5, CollectInTurn
<1>6. CASE Deliver
  <2>1. /\ wrk.pc = "run" /\ wrk.phase = "deliver" /\ UNCHANGED <<req, resp, wrk>>
        /\ UnchangedParent /\ SameJob
    BY <1>6 DEF Deliver, SameJob
  <2>2. RespInTurn' /\ Run' /\ WorkerSound /\ wrk'.n <= tab'.opn
    BY <2>1, RunOn
  <2> QED
    BY <2>1, <2>2 DEF WorkerSound, Turns
<1>7. CASE EndRound
  <2>1. /\ wrk.pc = "run" /\ wrk'.pc = "run" /\ wrk.phase = "deliver" /\ got = <<>>
        /\ SameJob /\ UNCHANGED <<req, resp, got>> /\ UnchangedParent
    BY <1>7, EndRoundDoes
  <2>2. RespInTurn' /\ Run' /\ WorkerSound /\ wrk'.n <= tab'.opn
    BY <2>1, RunOn
  <2>3. wrk.op # "quiet"
    BY <2>1, <2>2 DEF WorkerSound
  <2> QED
    BY <2>1, <2>2, <2>3 DEF WorkerSound, Turns, SameJob
<1>8. CASE WriteResult
  <2>1. /\ wrk.pc = "run" /\ wrk'.pc = "idle" /\ wrk.phase = "result" /\ SameJob
        /\ UNCHANGED <<req, got>> /\ UnchangedParent
    BY <1>8, WriteResultDoes
  <2>2. PICK f \in FrameRec : f.t = "RESULT" /\ f.id = wrk.n /\ resp' = Append(resp, f)
    BY <1>8, WriteResultDoes
  <2>3. RespInTurn' /\ wrk'.n <= tab'.opn /\ Obeying' /\ par'.pc = "serve" /\ req' = <<>>
        /\ LastIs(f.t)' /\ WorkerSound
    BY <2>1, <2>2, RunAsks
  <2>4. LastIs("RESULT")' /\ got' = <<>>
    BY <2>1, <2>2, <2>3 DEF WorkerSound
  <2>5. Answered'
    BY <2>1, <2>3, <2>4 DEF Answered
  <2> QED
    BY <2>1, <2>3, <2>4, <2>5 DEF WorkerSound, Turns, SameJob
<1> QED
  BY <1>1, <1>2, <1>3, <1>4, <1>5, <1>6, <1>7, <1>8 DEF Worker

LEMMA ScriptInTurn ==
    ASSUME Types, InTurn, Script
    PROVE  RespInTurn' /\ Turns' /\ WorkerSound'
<1>1. ASSUME NEW m \in Methods, IssueSync(m)
      PROVE  RespInTurn' /\ Turns' /\ WorkerSound'
  <2>1. /\ wrk.pc = "run" /\ wrk.net_active /\ wrk'.pc = "sync" /\ wrk'.phase = wrk.phase
        /\ SameJob /\ UNCHANGED <<req, got>> /\ UnchangedParent
    BY <1>1, IssueSyncDoes
  <2>2. PICK f \in FrameRec : f.t = "SUBREQ" /\ f.id = wrk'.wait /\ resp' = Append(resp, f)
    BY <1>1, IssueSyncDoes
  <2>3. WorkerSound /\ wrk.op # "quiet"
    BY <2>1, WorkerTurn DEF WorkerSound
  <2>4. RespInTurn' /\ wrk'.n <= tab'.opn /\ Obeying' /\ par'.pc = "serve" /\ req' = <<>>
        /\ LastIs(f.t)' /\ resp'[Len(resp')] = f
    BY <2>1, <2>2, <2>3, RunAsks
  <2>5. LastIs("SUBREQ")' /\ resp'[Len(resp')].id = wrk'.wait
    BY <2>2, <2>4
  <2>6. Sync'
    BY <2>1, <2>4, <2>5 DEF Sync
  <2> QED
    BY <2>1, <2>3, <2>4, <2>6 DEF WorkerSound, Turns, SameJob
<1>2. ASSUME NEW m \in Methods, NEW r \in BOOLEAN, IssueAsync(m, r)
      PROVE  RespInTurn' /\ Turns' /\ WorkerSound'
  <2>1. /\ wrk.pc = "run" /\ wrk.net_active /\ wrk'.pc = "run" /\ wrk'.phase = wrk.phase
        /\ SameJob /\ UNCHANGED <<req, got>> /\ UnchangedParent
    BY <1>2, IssueAsyncDoes
  <2>2. PICK f \in FrameRec : f.t = "ASYNC" /\ resp' = Append(resp, f)
    BY <1>2, IssueAsyncDoes
  <2>3. WorkerSound /\ wrk.op # "quiet"
    BY <2>1, WorkerTurn DEF WorkerSound
  <2>4. RespInTurn' /\ wrk'.n <= tab'.opn /\ Obeying' /\ par'.pc = "serve" /\ req' = <<>>
        /\ (f.t = "ASYNC" => \A i \in 1..Len(resp') : resp'[i].t = "ASYNC")
    BY <2>1, <2>2, <2>3, RunAsks
  <2>5. Run'
    BY <2>1, <2>2, <2>4 DEF Run
  <2> QED
    BY <2>1, <2>3, <2>4, <2>5 DEF WorkerSound, Turns, SameJob
<1> QED
  BY <1>1, <1>2 DEF Script

-----------------------------------------------------------------------------
(* What is owed, part by part.                                             *)

LEMMA ConsConcat ==
    ASSUME NEW a \in Seq(Nat), NEW x \in Nat, NEW u \in Seq(Nat)
    PROVE  Append(a, x) \o u = a \o (<<x>> \o u)
<1>1. Append(a, x) = a \o <<x>> /\ <<x>> \in Seq(Nat)
  BY AppendIsConcat
<1> QED
  BY <1>1, ConcatAssociative

LEMMA ConcatSnoc ==
    ASSUME NEW a \in Seq(Nat), NEW u \in Seq(Nat), NEW x \in Nat
    PROVE  a \o Append(u, x) = Append(a \o u, x)
<1>1. Append(u, x) = u \o <<x>> /\ <<x>> \in Seq(Nat) /\ a \o u \in Seq(Nat)
  BY AppendIsConcat, ConcatProperties
<1>2. Append(a \o u, x) = (a \o u) \o <<x>>
  BY <1>1, AppendIsConcat
<1> QED
  BY <1>1, <1>2, ConcatAssociative

LEMMA IsSnoc ==
    ASSUME NEW s \in Seq(Nat), NEW t \in Seq(Nat), NEW x \in Nat, Len(t) = Len(s) + 1,
           \A i \in 1..Len(s) : t[i] = s[i], t[Len(t)] = x
    PROVE  t = Append(s, x)
<1>1. /\ Append(s, x) \in Seq(Nat) /\ Len(Append(s, x)) = Len(s) + 1 /\ Len(s) \in Nat
      /\ \A i \in 1..Len(s) : Append(s, x)[i] = s[i]
      /\ Append(s, x)[Len(s) + 1] = x
  BY AppendProperties, LenProperties
<1>2. ASSUME NEW i \in 1..Len(t)
      PROVE  t[i] = Append(s, x)[i]
  <2>1. i \in 1..Len(s) \/ i = Len(s) + 1
    BY <1>1
  <2> QED
    BY <1>1, <2>1
<1> QED
  BY <1>1, <1>2, SeqEqual

LEMMA IsCons ==
    ASSUME NEW s \in Seq(Nat), NEW t \in Seq(Nat), NEW x \in Nat, Len(s) = Len(t) + 1,
           s[1] = x, \A i \in 1..Len(t) : t[i] = s[i + 1]
    PROVE  s = <<x>> \o t
<1>1. <<x>> \in Seq(Nat) /\ Len(<<x>>) = 1 /\ <<x>>[1] = x /\ Len(t) \in Nat
  BY LenProperties
<1>2. PICK h \in Seq(Nat) : h = <<x>> /\ Len(h) = 1 /\ h[1] = x
  BY <1>1
<1>3. /\ h \o t \in Seq(Nat) /\ Len(h \o t) = 1 + Len(t)
      /\ \A i \in 1..1 + Len(t) : (h \o t)[i] = IF i <= 1 THEN h[i] ELSE t[i - 1]
  BY <1>2, ConcatProperties
<1>4. ASSUME NEW i \in 1..Len(s)
      PROVE  s[i] = (h \o t)[i]
  <2>1. CASE i = 1
    BY <1>1, <1>2, <1>3, <2>1
  <2>2. CASE i # 1
    <3>1. i - 1 \in 1..Len(t) /\ i \in 1..1 + Len(t) /\ ~(i <= 1) /\ (i - 1) + 1 = i
      BY <1>1, <2>2
    <3>2. t[i - 1] = s[(i - 1) + 1]
      BY <3>1
    <3> QED
      BY <1>3, <3>1, <3>2
  <2> QED
    BY <2>1, <2>2
<1> QED
  BY <1>1, <1>2, <1>3, <1>4, SeqEqual

LEMMA IdsEmpty == Ids(<<>>) = <<>>
BY DEF Ids

LEMMA IdsAppend ==
    ASSUME NEW S, NEW s \in Seq(S), NEW m \in S, \A x \in S : x.id \in Nat
    PROVE  Ids(Append(s, m)) = Append(Ids(s), m.id)
<1>1. PICK t \in Seq(S) : /\ t = Append(s, m) /\ Len(t) = Len(s) + 1 /\ Len(s) \in Nat
                          /\ \A i \in 1..Len(s) : t[i] = s[i]
                          /\ t[Len(s) + 1] = m
  BY AppendProperties, LenProperties
<1>2. /\ Ids(s) \in Seq(Nat) /\ Len(Ids(s)) = Len(s) /\ \A i \in 1..Len(s) : Ids(s)[i] = s[i].id
      /\ Ids(t) \in Seq(Nat) /\ Len(Ids(t)) = Len(t) /\ \A i \in 1..Len(t) : Ids(t)[i] = t[i].id
  BY IdsTyped
<1>3. \A i \in 1..Len(s) : i \in 1..Len(t)
  BY <1>1
<1>4. /\ Len(Ids(t)) = Len(Ids(s)) + 1 /\ m.id \in Nat
      /\ \A i \in 1..Len(Ids(s)) : Ids(t)[i] = Ids(s)[i]
  BY <1>1, <1>2, <1>3
<1>5. Ids(t)[Len(Ids(t))] = m.id
  <2>1. Len(t) \in 1..Len(t) /\ t[Len(t)] = m
    BY <1>1
  <2> QED
    BY <1>2, <2>1
<1>6. Ids(t) = Append(Ids(s), m.id)
  BY <1>2, <1>4, <1>5, IsSnoc
<1> QED
  BY <1>1, <1>6

LEMMA IdsHeadTail ==
    ASSUME NEW S, NEW s \in Seq(S), s # <<>>, \A x \in S : x.id \in Nat
    PROVE  /\ Ids(s) = <<Head(s).id>> \o Ids(Tail(s)) /\ Head(s).id \in Nat
           /\ Ids(Tail(s)) \in Seq(Nat)
<1>1. /\ Head(s) \in S /\ Tail(s) \in Seq(S) /\ Head(s) = s[1]
      /\ Len(s) \in Nat \ {0} /\ Len(Tail(s)) = Len(s) - 1
      /\ \A i \in 1..Len(Tail(s)) : Tail(s)[i] = s[i + 1]
  BY HeadTailProperties, LenProperties, EmptySeq
<1> DEFINE t == Tail(s)
           h == Head(s)
<1> HIDE DEF t, h
<1>2. /\ t \in Seq(S) /\ Len(s) \in Nat \ {0} /\ Len(t) = Len(s) - 1 /\ h.id \in Nat /\ h = s[1]
      /\ \A i \in 1..Len(t) : t[i] = s[i + 1]
  BY <1>1 DEF t, h
<1>3. /\ Ids(s) \in Seq(Nat) /\ Len(Ids(s)) = Len(s) /\ \A i \in 1..Len(s) : Ids(s)[i] = s[i].id
      /\ Ids(t) \in Seq(Nat) /\ Len(Ids(t)) = Len(t) /\ \A i \in 1..Len(t) : Ids(t)[i] = t[i].id
  BY <1>2, IdsTyped
<1>4. /\ 1 \in 1..Len(s) /\ Len(s) = Len(t) + 1
      /\ \A i \in 1..Len(t) : i + 1 \in 1..Len(s)
  BY <1>2
<1>5. Ids(s) = <<h.id>> \o Ids(t)
  <2>1. Len(Ids(s)) = Len(Ids(t)) + 1 /\ Ids(s)[1] = h.id
    BY <1>2, <1>3, <1>4
  <2>2. \A i \in 1..Len(Ids(t)) : Ids(t)[i] = Ids(s)[i + 1]
    BY <1>2, <1>3, <1>4
  <2> QED
    BY <1>2, <1>3, <2>1, <2>2, IsCons
<1> QED
  BY <1>2, <1>3, <1>5 DEF t, h

Later == Ids(batch) \o Unserved

OwedForms ==
    /\ wrk.pc # "collect" \/ (req = <<>> /\ par.out = <<>>) => Owed = Later
    /\ wrk.pc = "collect" /\ batch = <<>> /\ resp = <<>> => Owed = Ids(req) \o Ids(par.out)
    /\ Ids(batch) \in Seq(Nat) /\ Unserved \in Seq(Nat) /\ Owed \in Seq(Nat) /\ Later \in Seq(Nat)
    /\ Ids(req) \in Seq(Nat) /\ Ids(par.out) \in Seq(Nat)
    /\ resp = <<>> => Unserved = <<>>
    /\ Len(Unserved) = Len(resp) - (IF Asking THEN 1 ELSE 0)
    /\ \A i \in 1..Len(Unserved) : Unserved[i] = resp[i].id

LEMMA OwedIs == Types => OwedForms
<1> SUFFICES ASSUME Types PROVE OwedForms
  OBVIOUS
<1>1. /\ Deferred(req) \in Seq(Nat) /\ Deferred(par.out) \in Seq(Nat)
      /\ Ids(batch) \in Seq(Nat) /\ Unserved \in Seq(Nat) /\ Owed \in Seq(Nat)
      /\ Len(Unserved) = Len(resp) - (IF Asking THEN 1 ELSE 0)
      /\ \A i \in 1..Len(Unserved) : Unserved[i] = resp[i].id
  BY OwedTyped
<1>2. Ids(req) \in Seq(Nat) /\ Ids(par.out) \in Seq(Nat)
  <2>1. /\ req \in Seq(ToWorker) /\ par.out \in Seq(ReplyRec)
        /\ \A x \in ToWorker : x.id \in Nat
        /\ \A x \in ReplyRec : x.id \in Nat
    BY RecordsTyped DEF Types, ParRec
  <2> QED
    BY <2>1, IdsTyped
<1>3. Later \in Seq(Nat)
  BY <1>1, ConcatProperties DEF Later
<1>4. resp = <<>> => Unserved = <<>>
  <2>1. resp = <<>> => Len(Unserved) = 0
    BY <1>1 DEF Asking
  <2> QED
    BY <1>1, <2>1, EmptySeq
<1> DEFINE c == Ids(batch)
           d == Unserved
<1> HIDE DEF c, d
<1>5. c \in Seq(Nat) /\ d \in Seq(Nat)
  BY <1>1 DEF c, d
<1>6. ASSUME wrk.pc # "collect" \/ (req = <<>> /\ par.out = <<>>)
      PROVE  Owed = Later
  <2>1. Deferred(req) = <<>> /\ Deferred(par.out) = <<>>
    BY <1>6, IdsEmpty DEF Deferred
  <2>2. Owed = <<>> \o <<>> \o c \o d
    BY <2>1 DEF Owed, c, d
  <2>3. <<>> \o <<>> = <<>> /\ <<>> \o c = c
    BY <1>5, ConcatEmptySeq, EmptySeq
  <2> QED
    BY <2>2, <2>3 DEF Later, c, d
<1>7. ASSUME wrk.pc = "collect", batch = <<>>, resp = <<>>
      PROVE  Owed = Ids(req) \o Ids(par.out)
  <2> DEFINE a == Ids(req)
             b == Ids(par.out)
  <2> HIDE DEF a, b
  <2>1. a \in Seq(Nat) /\ b \in Seq(Nat)
    BY <1>2 DEF a, b
  <2>2. Owed = a \o b \o <<>> \o <<>>
    BY <1>4, <1>7, IdsEmpty DEF Owed, Deferred, a, b
  <2>3. PICK ab \in Seq(Nat) : ab = a \o b
    BY <2>1, ConcatProperties
  <2>4. ab \o <<>> = ab
    BY <2>3, ConcatEmptySeq
  <2> QED
    BY <2>2, <2>3, <2>4 DEF a, b
<1> QED
  BY <1>1, <1>2, <1>3, <1>4, <1>6, <1>7 DEF OwedForms

LEMMA OwedWillBe == Types' => OwedForms'
BY OwedIs, PTL

LEMMA UnservedKept ==
    ASSUME Types, Types', Run, NEW f \in FrameRec, resp' = Append(resp, f), f.t # "ASYNC"
    PROVE  Unserved' = Unserved
<1>1. \A i \in 1..Len(resp) : resp[i].t = "ASYNC"
  BY DEF Run
<1>2. /\ Len(resp') = Len(resp) + 1 /\ Len(resp) \in Nat /\ LastIs(f.t)'
      /\ resp'[Len(resp')] = f /\ \A i \in 1..Len(resp) : resp'[i] = resp[i]
  BY <1>1, NewFrame
<1>3. ~Asking
  <2>1. resp # <<>> => Len(resp) \in 1..Len(resp)
    BY EmptySeq DEF Types
  <2> QED
    BY <1>1, <2>1 DEF Asking, Last
<1>4. Asking'
  BY <1>2 DEF Asking, Last, LastIs
<1>5. /\ Unserved \in Seq(Nat) /\ Len(Unserved) = Len(resp)
      /\ \A i \in 1..Len(Unserved) : Unserved[i] = resp[i].id
  BY <1>2, <1>3, OwedIs DEF OwedForms
<1>6. /\ Unserved' \in Seq(Nat) /\ Len(Unserved') = Len(resp)
      /\ \A i \in 1..Len(Unserved') : Unserved'[i] = resp'[i].id
  BY <1>2, <1>4, OwedWillBe DEF OwedForms
<1> QED
  BY <1>2, <1>5, <1>6, SeqEqual

LEMMA UnservedGrows ==
    ASSUME Types, Types', Run, NEW f \in FrameRec, resp' = Append(resp, f), f.t = "ASYNC"
    PROVE  Unserved' = Append(Unserved, f.id)
<1>1. \A i \in 1..Len(resp) : resp[i].t = "ASYNC"
  BY DEF Run
<1>2. /\ Len(resp') = Len(resp) + 1 /\ Len(resp) \in Nat
      /\ resp'[Len(resp')] = f /\ \A i \in 1..Len(resp) : resp'[i] = resp[i]
  BY <1>1, NewFrame
<1>3. ~Asking
  <2>1. resp # <<>> => Len(resp) \in 1..Len(resp)
    BY EmptySeq DEF Types
  <2> QED
    BY <1>1, <2>1 DEF Asking, Last
<1>4. ~Asking'
  BY <1>2 DEF Asking, Last
<1>5. /\ Unserved \in Seq(Nat) /\ Len(Unserved) = Len(resp)
      /\ \A i \in 1..Len(Unserved) : Unserved[i] = resp[i].id
  BY <1>2, <1>3, OwedIs DEF OwedForms
<1>6. /\ Unserved' \in Seq(Nat) /\ Len(Unserved') = Len(resp')
      /\ \A i \in 1..Len(Unserved') : Unserved'[i] = resp'[i].id
  BY <1>2, <1>4, OwedWillBe, SMTT(20) DEF OwedForms
<1>7. f.id \in Nat /\ Len(Unserved') = Len(Unserved) + 1
  BY <1>2, <1>5, <1>6, RecordsTyped
<1>8. \A i \in 1..Len(Unserved) : Unserved'[i] = Unserved[i]
  BY <1>2, <1>5, <1>6
<1>9. Unserved'[Len(Unserved')] = f.id
  BY <1>2, <1>6
<1> QED
  BY <1>5, <1>6, <1>7, <1>8, <1>9, IsSnoc

LEMMA UnservedShrinks ==
    ASSUME Types, Types', RespInTurn, resp # <<>>, Head(resp).t = "ASYNC", Popped
    PROVE  Unserved = <<Head(resp).id>> \o Unserved' /\ Head(resp).id \in Nat
<1>1. /\ Len(resp') = Len(resp) - 1 /\ Len(resp) \in Nat \ {0} /\ resp' \in Seq(FrameRec)
      /\ \A i \in 1..Len(resp') : resp'[i] = resp[i + 1]
  BY NextFrame
<1>2. Head(resp) = resp[1] /\ Head(resp).id \in Nat
  BY RespTyped, RecordsTyped
<1>3. Asking' <=> Asking
  <2>1. CASE Len(resp) = 1
    <3>1. resp' = <<>>
      <4>1. Len(resp') = 0
        BY <1>1, <2>1
      <4> QED
        BY <1>1, <4>1, EmptySeq
    <3> QED
      BY <1>2, <2>1, <3>1 DEF Asking, Last
  <2>2. CASE Len(resp) # 1
    <3>1. Len(resp') \in 1..Len(resp') /\ Len(resp') # 0 /\ Len(resp') + 1 = Len(resp)
      BY <1>1, <2>2
    <3>2. resp' # <<>>
      BY <1>1, <3>1, NotEmpty
    <3>3. resp'[Len(resp')] = resp[Len(resp)]
      BY <1>1, <3>1
    <3> QED
      BY <3>2, <3>3 DEF Asking, Last
  <2> QED
    BY <2>1, <2>2
<1>4. Asking => Len(resp) # 1
  BY <1>2 DEF Asking, Last
<1>5. /\ Unserved \in Seq(Nat) /\ Len(Unserved) = Len(resp) - (IF Asking THEN 1 ELSE 0)
      /\ \A i \in 1..Len(Unserved) : Unserved[i] = resp[i].id
  BY OwedIs DEF OwedForms
<1>6. /\ Unserved' \in Seq(Nat) /\ Len(Unserved') = Len(resp') - (IF Asking THEN 1 ELSE 0)
      /\ \A i \in 1..Len(Unserved') : Unserved'[i] = resp'[i].id
  BY <1>3, OwedWillBe DEF OwedForms
<1>7. Len(Unserved) = Len(Unserved') + 1 /\ 1 \in 1..Len(Unserved) /\ Len(Unserved') \in Nat
      /\ Len(Unserved') <= Len(resp')
  BY <1>1, <1>4, <1>5, <1>6
<1>8. Unserved[1] = Head(resp).id
  BY <1>2, <1>5, <1>7
<1>9. ASSUME NEW i \in 1..Len(Unserved')
      PROVE  Unserved'[i] = Unserved[i + 1]
  <2>1. i + 1 \in 1..Len(Unserved) /\ i \in 1..Len(resp')
    BY <1>1, <1>7
  <2> QED
    BY <1>1, <1>5, <1>6, <2>1
<1>10. PICK u \in Seq(Nat) : u = Unserved' /\ Len(Unserved) = Len(u) + 1
                            /\ \A i \in 1..Len(u) : u[i] = Unserved[i + 1]
  BY <1>6, <1>7, <1>9
<1>11. Unserved = <<Head(resp).id>> \o u
  BY <1>2, <1>5, <1>8, <1>10, IsCons
<1> QED
  BY <1>2, <1>10, <1>11

LEMMA UnservedAnswered ==
    ASSUME Types, Types', RespInTurn, resp # <<>>, Head(resp).t # "ASYNC", Popped
    PROVE  Unserved = <<>> /\ Unserved' = <<>>
<1>1. Len(resp) = 1 /\ resp' = <<>> /\ resp[Len(resp)] = Head(resp)
  BY FirstLast DEF Popped
<1>2. Asking
  BY <1>1 DEF Asking, Last
<1>3. Unserved \in Seq(Nat) /\ Len(Unserved) = 0
  BY <1>1, <1>2, OwedIs DEF OwedForms
<1>4. Unserved = <<>>
  BY <1>3, EmptySeq
<1>5. Unserved' = <<>>
  BY <1>1, OwedWillBe DEF OwedForms
<1> QED
  BY <1>4, <1>5

-----------------------------------------------------------------------------
(* The two ends count the same replies.                                    *)

LEMMA SameBalance ==
    ASSUME Counted, InOrder, Owed' = Owed, UNCHANGED <<got, nq, slip>>,
           wrk'.pending = wrk.pending, wrk'.pc = "collect" <=> wrk.pc = "collect",
           wrk.pc = "collect" => wrk'.need = wrk.need
    PROVE  Counted' /\ InOrder'
BY DEF Counted, InOrder

LEMMA SameLater ==
    ASSUME Types, Types', UNCHANGED batch, Unserved' = Unserved,
           \/ wrk.pc # "collect" /\ wrk'.pc # "collect"
           \/ req = <<>> /\ par.out = <<>> /\ req' = <<>> /\ par'.out = <<>>
    PROVE  Owed' = Owed
<1>1. Owed = Later /\ Owed' = Later'
  BY OwedIs, OwedWillBe DEF OwedForms
<1> QED
  BY <1>1 DEF Later

LEMMA ServeTagOwed ==
    ASSUME Types, Types', InTurn, slip' # "refused", ServeTag, wrk.pc # "dead"
    PROVE  Owed' = Owed /\ ~Abandoned /\ slip' = slip /\ UNCHANGED <<wrk, nq, got>>
<1> DEFINE m == Head(resp)
<1>1. /\ par.pc = "serve" /\ resp # <<>> /\ Popped
      /\ UNCHANGED <<req, wrk, nq, got, seq>>
      /\ \/ ServesResult(m)
         \/ par.op # "quiet" /\ (ServesSubreq(m) \/ ServesAsync(m) \/ ServesWait(m))
         \/ ServesNothing(m)
  BY ServeTagDoes DEF Popped
<1>2. RespInTurn /\ Turns /\ par.out = <<>>
  BY <1>1 DEF InTurn, Alive, RespInTurn
<1>3. Run \/ Answered \/ Sync \/ Asked
  BY <1>1, <1>2 DEF Turns, Between, Sent, Replying
<1>4. ~Abandoned /\ (wrk.pc = "collect" => req = <<>>)
  BY <1>3 DEF Run, Answered, Sync, Asked, Obeying, Abandoned
<1>5. m = resp[1] /\ 1 \in 1..Len(resp)
  BY <1>1, RespTyped
<1>6. ~ServesNothing(m) /\ slip' = slip
  BY <1>1, <1>2, <1>5 DEF ServesNothing, RespInTurn, ServesResult, ServesSubreq, ServesAsync, ServesWait
<1>7. CASE ServesAsync(m)
  <2>1. PICK j \in JobRec : batch' = Append(batch, j) /\ j.id = m.id
    BY <1>7 DEF ServesAsync
  <2>2. par'.out = <<>> /\ m.t = "ASYNC"
    BY <1>2, <1>7 DEF ServesAsync, SameServe
  <2>3. Owed = Later /\ Owed' = Later'
    BY <1>1, <1>2, <1>4, <2>2, OwedIs, OwedWillBe DEF OwedForms
  <2>4. Unserved = <<m.id>> \o Unserved' /\ m.id \in Nat
    BY <1>1, <1>2, <2>2, UnservedShrinks
  <2>5. Ids(batch') = Append(Ids(batch), m.id)
    <3>1. batch \in Seq(JobRec) /\ \A x \in JobRec : x.id \in Nat
      BY DEF Types, JobRec
    <3> QED
      BY <2>1, <3>1, IdsAppend
  <2> DEFINE a == Ids(batch)
             u == Unserved'
             k == m.id
  <2>6. a \in Seq(Nat) /\ u \in Seq(Nat) /\ k \in Nat
    BY <2>4, OwedIs, OwedWillBe DEF OwedForms
  <2>7. Later = a \o (<<k>> \o u) /\ Later' = Append(a, k) \o u
    BY <2>4, <2>5 DEF Later
  <2> HIDE DEF a, u, k
  <2>8. Later' = Later
    BY <2>6, <2>7, ConsConcat
  <2> QED
    BY <1>1, <1>4, <1>6, <2>3, <2>8
<1>8. CASE ServesResult(m) \/ ServesSubreq(m) \/ ServesWait(m)
  <2>1. m.t # "ASYNC" /\ batch' = batch
    BY <1>8 DEF ServesResult, ServesSubreq, ServesWait
  <2>2. Unserved' = Unserved
    BY <1>1, <1>2, <2>1, UnservedAnswered
  <2>3. CASE wrk.pc # "collect"
    BY <1>1, <1>4, <1>6, <2>1, <2>2, <2>3, SameLater
  <2>4. CASE wrk.pc = "collect"
    <3>1. Asked /\ LastIs("NETWAIT")
      BY <1>1, <1>3, <2>4 DEF Run, Answered, Sync, Asked
    <3>2. m.t = "NETWAIT"
      BY <1>1, <1>2, <2>1, <3>1, FirstLast DEF LastIs
    <3>3. par'.out = <<>>
      BY <1>2, <1>8, <3>2 DEF ServesResult, ServesSubreq, ServesWait, SameServe
    <3>4. Owed' = Owed
      BY <1>1, <1>2, <1>4, <2>1, <2>2, <2>4, <3>3, SameLater
    <3> QED
      BY <1>1, <1>4, <1>6, <3>4
  <2> QED
    BY <2>3, <2>4
<1> QED
  BY <1>1, <1>6, <1>7, <1>8

LEMMA NetWaitOwed ==
    ASSUME Types, Types', InTurn, NetWait, wrk.pc # "dead"
    PROVE  Owed' = Owed /\ ~Abandoned
<1>1. /\ par.pc = "join" /\ Len(par'.out) = Len(batch)
      /\ \A i \in 1..Len(batch) : par'.out[i].id = batch[i].id
      /\ batch' = <<>> /\ UNCHANGED <<req, resp, wrk>>
  BY NetWaitDoes DEF UnchangedWorker
<1>2. Asked /\ resp = <<>> /\ req = <<>> /\ par.out = <<>> /\ wrk.pc = "collect" /\ ~Abandoned
  BY <1>1 DEF InTurn, Alive, RespInTurn, Turns, Between, Sent, Run, Answered, Sync, Asked, Replying,
              Abandoned
<1>3. Ids(batch) \in Seq(Nat) /\ Owed = Ids(batch) \o <<>>
  BY <1>2, OwedIs DEF OwedForms, Later
<1>4. Ids(par'.out) \in Seq(Nat) /\ Owed' = <<>> \o Ids(par'.out)
  BY <1>1, <1>2, OwedWillBe, IdsEmpty DEF OwedForms
<1>5. Ids(par'.out) = Ids(batch)
  BY <1>1 DEF Ids
<1> DEFINE a == Ids(batch)
<1> HIDE DEF a
<1>6. a \in Seq(Nat) /\ Owed = a \o <<>> /\ Owed' = <<>> \o a
  BY <1>3, <1>4, <1>5 DEF a
<1> QED
  BY <1>2, <1>6, ConcatEmptySeq

LEMMA WriteReplyOwed ==
    ASSUME Types, Types', InTurn, WriteReply
    PROVE  Owed' = Owed /\ ~Abandoned
<1>1. /\ par.pc = "reply" /\ wrk.pc # "dead" /\ par.out # <<>> /\ par'.out = Tail(par.out)
      /\ req' = Append(req, Head(par.out)) /\ UNCHANGED <<resp, batch, wrk>>
  BY WriteReplyDoes DEF UnchangedWorker
<1>2. resp = <<>> /\ (Sync \/ Replying) /\ ~Abandoned
  BY <1>1 DEF InTurn, Alive, RespInTurn, Turns, Between, Sent, Run, Answered, Sync, Asked, Replying,
              Abandoned
<1>3. CASE Sync
  <2>1. wrk.pc # "collect" /\ Unserved' = Unserved
    BY <1>1, <1>2, <1>3, OwedIs, OwedWillBe DEF Sync, OwedForms
  <2> QED
    BY <1>1, <1>2, <2>1, SameLater
<1>4. CASE Replying
  <2>1. wrk.pc = "collect" /\ batch = <<>>
    BY <1>4 DEF Replying
  <2>2. Owed = Ids(req) \o Ids(par.out) /\ Ids(req) \in Seq(Nat)
    BY <1>2, <2>1, OwedIs DEF OwedForms
  <2>3. Owed' = Ids(req') \o Ids(par'.out)
    BY <1>1, <1>2, <2>1, OwedWillBe DEF OwedForms
  <2>4. /\ req \in Seq(ToWorker) /\ par.out \in Seq(ReplyRec)
        /\ \A x \in ToWorker : x.id \in Nat
        /\ \A x \in ReplyRec : x.id \in Nat /\ x \in ToWorker
    BY RecordsTyped DEF Types, ParRec
  <2>5. /\ Ids(par.out) = <<Head(par.out).id>> \o Ids(Tail(par.out)) /\ Head(par.out).id \in Nat
        /\ Ids(Tail(par.out)) \in Seq(Nat)
    BY <1>1, <2>4, IdsHeadTail
  <2>6. Head(par.out) \in ToWorker
    BY <1>1, <2>4, HeadTailProperties
  <2>7. Ids(req') = Append(Ids(req), Head(par.out).id)
    BY <1>1, <2>4, <2>6, IdsAppend
  <2> DEFINE a == Ids(req)
             k == Head(par.out).id
             u == Ids(Tail(par.out))
  <2>8. a \in Seq(Nat) /\ k \in Nat /\ u \in Seq(Nat)
        /\ Owed = a \o (<<k>> \o u) /\ Owed' = Append(a, k) \o u
    BY <1>1, <2>2, <2>3, <2>5, <2>7
  <2> HIDE DEF a, k, u
  <2>9. Owed' = Owed
    BY <2>8, ConsConcat
  <2> QED
    BY <1>2, <2>9
<1> QED
  BY <1>2, <1>3, <1>4

LEMMA ParentBalance ==
    ASSUME Types, Types', OwnBatch, InTurn, slip' # "refused", Parent, wrk'.pc # "dead", ~Abandoned'
    PROVE  Counted' /\ InOrder'
<1> USE DEF SameTab, SameServe, UnchangedWorker
<1>1. ASSUME UNCHANGED <<wrk, nq, got, slip>>, wrk.pc # "dead", ~Abandoned, Owed' = Owed
      PROVE  Counted' /\ InOrder'
  <2>1. Counted /\ InOrder
    BY <1>1 DEF InTurn, Alive
  <2> QED
    BY <1>1, <2>1, SameBalance
<1>2. ASSUME UNCHANGED <<resp, batch, wrk, nq, got, slip>>, wrk.pc # "dead", ~Abandoned,
             wrk.pc # "collect"
      PROVE  Counted' /\ InOrder'
  <2>1. Unserved' = Unserved
    BY <1>2 DEF Unserved, Asking
  <2>2. Owed' = Owed
    BY <1>2, <2>1, SameLater
  <2> QED
    BY <1>1, <1>2, <2>2
<1>3. CASE Discard
  <2>1. /\ par.pc = "discard" /\ par'.pc = "send" /\ par'.op = par.op
        /\ tab'.opn = tab.opn /\ UNCHANGED wrk
    BY <1>3, DiscardDoes
  <2>2. par.op = "load" /\ Between
    BY <2>1 DEF InTurn, Alive, RespInTurn, Turns, Sent, Run, Answered, Sync, Asked, Replying
  <2>3. wrk'.n # tab'.opn
    BY <2>1, <2>2 DEF Between, Types, WrkRec, TabRec
  <2> QED
    BY <2>1, <2>2, <2>3 DEF Abandoned
<1>4. ASSUME NEW r \in Grants, Send(r)
      PROVE  Counted' /\ InOrder'
  <2>1. /\ par.pc = "send" /\ wrk.pc # "dead" /\ par'.op = par.op
        /\ UNCHANGED <<resp, batch, wrk, nq, got, slip>>
    BY <1>4, SendDoes
  <2>2. Sent'
    BY <1>4, SendInTurn
  <2>3. wrk'.n # tab'.opn
    BY <2>2 DEF Sent, Types, WrkRec, TabRec
  <2>4. par'.op # "load"
    BY <2>2, <2>3 DEF Abandoned, Sent
  <2>5. ~Abandoned /\ wrk.pc # "collect"
    BY <2>1, <2>2, <2>4 DEF Abandoned, Sent
  <2> QED
    BY <1>2, <2>1, <2>5
<1>5. CASE Broken
  BY <1>5, BrokenDoes
<1>6. CASE ServeTag
  <2>1. UNCHANGED wrk
    BY <1>6 DEF ServeTag
  <2>2. wrk.pc # "dead"
    BY <2>1
  <2>3. Owed' = Owed /\ ~Abandoned /\ slip' = slip /\ UNCHANGED <<wrk, nq, got>>
    BY <1>6, <2>2, ServeTagOwed
  <2> QED
    BY <1>1, <2>2, <2>3
<1>7. CASE SyncFetched
  <2>1. par.pc = "fetch" /\ UNCHANGED <<resp, batch, wrk, nq, got, slip>>
    BY <1>7, SyncFetchedDoes
  <2>2. wrk.pc = "sync" /\ ~Abandoned
    BY <2>1 DEF InTurn, Alive, Turns, Between, Sent, Run, Answered, Sync, Asked, Replying, Abandoned
  <2> QED
    BY <1>2, <2>1, <2>2
<1>8. CASE NetWait
  <2>1. UNCHANGED <<wrk, nq, got, slip>>
    BY <1>8, NetWaitDoes
  <2> QED
    BY <1>1, <1>8, <2>1, NetWaitOwed
<1>9. CASE WriteReply
  <2>1. UNCHANGED <<wrk, nq, got, slip>>
    BY <1>9, WriteReplyDoes
  <2> QED
    BY <1>1, <1>9, <2>1, WriteReplyOwed
<1>10. CASE Unbind
  <2>1. par.pc = "unbind" /\ UNCHANGED <<resp, batch, wrk, nq, got, slip>>
    BY <1>10, UnbindDoes
  <2>2. wrk.pc = "idle" /\ ~Abandoned
    BY <2>1 DEF InTurn, Alive, Turns, Between, Sent, Run, Answered, Sync, Asked, Replying, Abandoned
  <2> QED
    BY <1>2, <2>1, <2>2
<1>11. CASE FreeTab
  <2>1. par.pc = "closing" /\ UNCHANGED wrk
    BY <1>11, FreeTabDoes
  <2> QED
    BY <2>1 DEF InTurn, Alive, Turns, Between, Sent, Run, Answered, Sync, Asked, Replying
<1> QED
  BY <1>3, <1>4, <1>5, <1>6, <1>7, <1>8, <1>9, <1>10, <1>11 DEF Parent

LEMMA TailIndexed ==
    ASSUME NEW c \in Seq(Nat), c # <<>>
    PROVE  /\ Tail(c) \in Seq(Nat) /\ Len(Tail(c)) = Len(c) - 1
           /\ \A i \in 1..Len(Tail(c)) : Tail(c)[i] = c[i + 1]
  BY HeadTailProperties

LEMMA TailConcat ==
    ASSUME NEW a \in Seq(Nat), NEW b \in Seq(Nat), a # <<>>
    PROVE  a \o b # <<>> /\ Tail(a \o b) = Tail(a) \o b
<1>1. /\ Len(a) \in Nat \ {0} /\ Len(b) \in Nat /\ Tail(a) \in Seq(Nat)
      /\ Len(Tail(a)) = Len(a) - 1 /\ \A i \in 1..Len(Tail(a)) : Tail(a)[i] = a[i + 1]
  BY HeadTailProperties, EmptySeq, LenProperties
<1>2. PICK c \in Seq(Nat) : /\ c = a \o b /\ Len(c) = Len(a) + Len(b)
                            /\ \A i \in 1..Len(a) + Len(b) :
                                  c[i] = IF i <= Len(a) THEN a[i] ELSE b[i - Len(a)]
  <2>1. /\ a \o b \in Seq(Nat) /\ Len(a \o b) = Len(a) + Len(b)
        /\ \A i \in 1..Len(a) + Len(b) :
              (a \o b)[i] = IF i <= Len(a) THEN a[i] ELSE b[i - Len(a)]
    BY ConcatProperties
  <2> QED
    BY <2>1
<1>3. c # <<>>
  BY <1>1, <1>2, NotEmpty
<1>4. /\ Tail(c) \in Seq(Nat) /\ Len(Tail(c)) = Len(c) - 1
      /\ \A i \in 1..Len(Tail(c)) : Tail(c)[i] = c[i + 1]
  BY <1>3, TailIndexed, Zenon
<1>5. PICK t \in Seq(Nat), v \in Seq(Nat) :
          /\ t = Tail(a) /\ Len(t) = Len(a) - 1 /\ \A i \in 1..Len(t) : t[i] = a[i + 1]
          /\ v = Tail(c) /\ Len(v) = Len(c) - 1 /\ \A i \in 1..Len(v) : v[i] = c[i + 1]
  BY <1>1, <1>4
<1>6. /\ t \o b \in Seq(Nat) /\ Len(t \o b) = Len(t) + Len(b)
      /\ \A i \in 1..Len(t) + Len(b) :
            (t \o b)[i] = IF i <= Len(t) THEN t[i] ELSE b[i - Len(t)]
  BY ConcatProperties
<1>7. Len(a) \in Nat \ {0} /\ Len(b) \in Nat /\ Len(t) = Len(a) - 1 /\ Len(v) = Len(a) + Len(b) - 1
  BY <1>1, <1>2, <1>5
<1>8. ASSUME NEW i \in 1..Len(v)
      PROVE  v[i] = (t \o b)[i]
  <2>1. v[i] = c[i + 1] /\ i + 1 \in 1..Len(a) + Len(b) /\ i \in 1..Len(t) + Len(b)
    BY <1>5, <1>7
  <2>2. CASE i <= Len(t)
    <3>1. i \in 1..Len(t) /\ i + 1 <= Len(a)
      BY <1>7, <2>2
    <3> QED
      BY <1>2, <1>5, <1>6, <2>1, <2>2, <3>1
  <2>3. CASE ~(i <= Len(t))
    <3>1. ~(i + 1 <= Len(a)) /\ (i + 1) - Len(a) = i - Len(t)
      BY <1>7, <2>3
    <3>2. c[i + 1] = b[(i + 1) - Len(a)] /\ (t \o b)[i] = b[i - Len(t)]
      BY <1>2, <1>6, <2>1, <2>3, <3>1
    <3> QED
      BY <2>1, <3>1, <3>2
  <2> QED
    BY <2>2, <2>3
<1>9. v = t \o b
  <2>1. Len(v) = Len(t \o b)
    BY <1>6, <1>7
  <2> QED
    BY <1>6, <1>8, <2>1, SeqEqual
<1> QED
  BY <1>2, <1>3, <1>5, <1>9

LEMMA RunBalance ==
    ASSUME Types, Types', Counted, InOrder, UNCHANGED <<batch, nq, got, slip>>,
           Unserved' = Unserved, wrk.pc # "collect", wrk'.pc # "collect",
           wrk'.pending = wrk.pending
    PROVE  Counted' /\ InOrder'
<1>1. Owed' = Owed
  BY SameLater
<1> QED
  BY <1>1, SameBalance

LEMMA ReadOpBalance ==
    ASSUME Types, Types', InTurn, ReadOp, ~Abandoned'
    PROVE  Counted' /\ InOrder'
<1>1. Sent /\ Head(req).t = "op" /\ WorkerSound
  BY ReadOpInTurn, WorkerTurn DEF ReadOp
<1>2. Head(req) = req[1]
  BY <1>1, LastMessage DEF Sent
<1>3. /\ wrk.pc = "idle" /\ wrk'.pc = "run"
      /\ \/ Head(req).op = "load" /\ wrk'.pending = 0 /\ nq' = <<>>
         \/ Head(req).op # "load" /\ wrk'.pending = wrk.pending /\ UNCHANGED <<nq, slip>>
      /\ UNCHANGED <<resp, got, batch>>
  BY <1>1, ReadOpDoes DEF UnchangedParent
<1>4. CASE Head(req).op = "load"
  <2>1. batch' = <<>> /\ resp' = <<>> /\ got' = <<>>
    BY <1>1, <1>2, <1>3, <1>4 DEF Sent, WorkerSound
  <2>2. Owed' = <<>> \o <<>>
    BY <1>3, <2>1, IdsEmpty, OwedWillBe DEF OwedForms, Later
  <2>3. Owed' = <<>> /\ <<>> = <<>> \o <<>> /\ Len(<<>>) = 0
    BY <2>2
  <2> QED
    BY <1>3, <1>4, <2>1, <2>3 DEF Counted, InOrder
<1>5. CASE Head(req).op # "load"
  <2>1. ~Abandoned /\ Counted /\ InOrder
    BY <1>1, <1>2, <1>3, <1>5 DEF Sent, Abandoned, InTurn, Alive
  <2>2. Unserved' = Unserved
    BY <1>3 DEF Unserved, Asking
  <2> QED
    BY <1>3, <1>5, <2>1, <2>2, RunBalance
<1> QED
  BY <1>4, <1>5

LEMMA CollectBalance ==
    ASSUME Types, Types', InTurn, Collect
    PROVE  Counted' /\ InOrder'
<1>1. /\ Replying /\ Counted /\ WorkerSound /\ Head(req).t = "reply"
      /\ wrk'.pc = "run" => Len(req) = 1 /\ Len(par.out) = 0
  BY CollectInTurn
<1>2. InOrder
  BY <1>1 DEF InTurn, Alive, Replying, Obeying, Abandoned
<1>3. /\ wrk.pc = "collect" /\ req # <<>> /\ req' = Tail(req)
      /\ got' = Append(got, Head(req).id) /\ wrk'.pending = wrk.pending
      /\ IF Len(got) + 1 = wrk.need THEN wrk'.pc = "run"
                                    ELSE wrk'.pc = "collect" /\ wrk'.need = wrk.need
      /\ UNCHANGED <<resp, nq, slip, batch, par>>
  BY <1>1, CollectDoes DEF UnchangedParent
<1>4. resp = <<>> /\ batch = <<>>
  BY <1>1 DEF Replying
<1>5. Owed = Ids(req) \o Ids(par.out) /\ Ids(par.out) \in Seq(Nat) /\ Owed \in Seq(Nat)
  BY <1>3, <1>4, OwedIs DEF OwedForms
<1>6. /\ Ids(req) = <<Head(req).id>> \o Ids(Tail(req)) /\ Head(req).id \in Nat
      /\ Ids(Tail(req)) \in Seq(Nat)
  <2>1. req \in Seq(ToWorker) /\ \A x \in ToWorker : x.id \in Nat
    BY RecordsTyped DEF Types
  <2> QED
    BY <1>3, <2>1, IdsHeadTail
<1>7. Owed' = Ids(Tail(req)) \o Ids(par.out)
  <2>1. CASE wrk'.pc = "collect"
    BY <1>3, <1>4, <2>1, OwedWillBe DEF OwedForms
  <2>2. CASE wrk'.pc = "run"
    <3>1. Tail(req) = <<>>
      BY <1>1, <2>2, LastMessage
    <3>2. par.out = <<>>
      BY <1>1, <2>2, EmptySeq DEF Types, ParRec
    <3>3. Owed' = <<>> \o <<>>
      BY <1>3, <1>4, <2>2, IdsEmpty, OwedWillBe DEF OwedForms, Later
    <3> QED
      BY <3>1, <3>2, <3>3, IdsEmpty
  <2> QED
    BY <1>3, <2>1, <2>2
<1> DEFINE k == Head(req).id
           a == Ids(Tail(req))
           b == Ids(par.out)
<1>8. k \in Nat /\ a \in Seq(Nat) /\ b \in Seq(Nat) /\ Owed = (<<k>> \o a) \o b /\ Owed' = a \o b
      /\ got' = Append(got, k)
  BY <1>3, <1>5, <1>6, <1>7
<1> HIDE DEF k, a, b
<1>9. <<k>> \in Seq(Nat) /\ Len(<<k>>) = 1
  BY <1>8
<1>10. Owed = <<k>> \o (a \o b) /\ a \o b \in Seq(Nat)
  BY <1>8, <1>9, ConcatAssociative, ConcatProperties, SMTT(20)
<1>11. Len(Owed) = 1 + Len(a \o b) /\ Len(a \o b) \in Nat
  BY <1>9, <1>10, ConcatProperties, LenProperties
<1>12. got \in Seq(Nat) /\ Len(got') = Len(got) + 1 /\ Len(got) \in Nat
  <2>1. got \in Seq(Nat)
    BY DEF Types
  <2> QED
    BY <1>8, <2>1, AppendProperties, LenProperties
<1>13. InOrder'
  <2>1. Append(got, k) \o (a \o b) = got \o (<<k>> \o (a \o b))
    BY <1>8, <1>10, <1>12, ConsConcat
  <2>2. got' \o Owed' = got \o Owed
    BY <1>8, <1>10, <2>1
  <2> QED
    BY <1>2, <1>3, <2>2 DEF InOrder
<1>14. Counted'
  <2>1. wrk.need \in Nat /\ wrk.pending = 0 /\ Len(got) < wrk.need
    BY <1>1, <1>3 DEF Types, WrkRec, WorkerSound
  <2>2. Len(Owed) = wrk.need - Len(got)
    BY <1>1, <1>3, <1>12, <2>1 DEF Counted
  <2>3. Len(Owed') = wrk.need - (Len(got) + 1)
    <3>1. Len(Owed') = Len(a \o b)
      BY <1>8
    <3> QED
      BY <1>11, <1>12, <2>1, <2>2, <3>1, SMTT(20)
  <2>4. CASE wrk'.pc = "collect"
    BY <1>3, <1>12, <2>1, <2>3, <2>4 DEF Counted
  <2>5. CASE wrk'.pc = "run"
    <3>1. Len(got) + 1 = wrk.need
      BY <1>3, <2>5
    <3>2. Len(Owed') = 0
      BY <1>12, <2>1, <2>3, <3>1
    <3> QED
      BY <1>3, <2>1, <2>5, <3>2 DEF Counted
  <2> QED
    BY <1>3, <2>4, <2>5
<1> QED
  BY <1>13, <1>14

LEMMA RunIsCurrent ==
    ASSUME InTurn, Run
    PROVE  ~Abandoned /\ Counted /\ InOrder /\ par.out = <<>> /\ req = <<>>
BY DEF InTurn, Alive, Run, Obeying, Abandoned, RespInTurn

LEMMA DrainBalance ==
    ASSUME Types, Types', InTurn, Drain
    PROVE  Counted' /\ InOrder'
<1>1. /\ wrk.pc = "run" /\ wrk.phase = "drain" /\ SameJob
      /\ UNCHANGED <<req, nq, got, seq, slip, par, batch>>
  BY DrainDoes DEF UnchangedParent
<1>2. Run /\ WorkerSound
  BY <1>1, WorkerTurn
<1>3. Counted /\ InOrder /\ par.out = <<>> /\ req = <<>>
  BY <1>2, RunIsCurrent
<1>4. CASE wrk'.pc = "run" /\ SameCount /\ UNCHANGED resp
  <2>1. Unserved' = Unserved
    BY <1>4 DEF Unserved, Asking
  <2> QED
    BY <1>1, <1>3, <1>4, <2>1, RunBalance DEF SameCount
<1>5. CASE /\ wrk'.pc = "collect" /\ wrk'.need = wrk.pending /\ wrk'.pending = 0
           /\ \E f \in FrameRec : f.t = "NETWAIT" /\ resp' = Append(resp, f)
  <2>1. Unserved' = Unserved
    BY <1>2, <1>5, UnservedKept
  <2>2. Owed' = Owed
    BY <1>1, <1>3, <2>1, SameLater
  <2>3. got = <<>> /\ Len(got) = 0
    BY <1>1, <1>2 DEF WorkerSound
  <2>4. Len(Owed) = wrk.pending /\ wrk.pending \in Nat
    BY <1>1, <1>3 DEF Counted, Types, WrkRec
  <2>5. Counted'
    BY <1>1, <1>5, <2>2, <2>3, <2>4 DEF Counted
  <2>6. InOrder'
    BY <1>1, <1>3, <2>2 DEF InOrder
  <2> QED
    BY <2>5, <2>6
<1> QED
  BY <1>4, <1>5, DrainDoes

LEMMA DeliverBalance ==
    ASSUME Types, Types', InTurn, Deliver
    PROVE  Counted' /\ InOrder'
<1>1. /\ wrk.pc = "run" /\ got # <<>> /\ got' = Tail(got)
      /\ nq' = (IF nq = <<>> THEN nq ELSE Tail(nq))
      /\ UNCHANGED <<req, resp, wrk, slip, batch>>
  BY DEF Deliver, UnchangedParent
<1>2. Counted /\ InOrder
  BY <1>1, WorkerTurn, RunIsCurrent
<1>3. Unserved' = Unserved
  BY <1>1 DEF Unserved, Asking
<1>4. Owed' = Owed /\ Owed \in Seq(Nat) /\ got \in Seq(Nat)
  BY <1>1, <1>3, SameLater, OwedIs DEF OwedForms, Types
<1>5. got \o Owed # <<>> /\ Tail(got \o Owed) = Tail(got) \o Owed
  BY <1>1, <1>4, TailConcat
<1>6. InOrder'
  BY <1>1, <1>2, <1>4, <1>5 DEF InOrder
<1>7. Counted'
  BY <1>1, <1>2, <1>4 DEF Counted
<1> QED
  BY <1>6, <1>7

LEMMA WorkerBalance ==
    ASSUME Types, Types', InTurn, Worker, ~Abandoned'
    PROVE  Counted' /\ InOrder'
<1> USE DEF UnchangedParent
<1>1. ASSUME wrk.pc = "run", wrk'.pc = "run", SameCount, UNCHANGED <<resp, batch, nq, got, slip>>
      PROVE  Counted' /\ InOrder'
  <2>1. Counted /\ InOrder
    BY <1>1, WorkerTurn, RunIsCurrent
  <2>2. Unserved' = Unserved
    BY <1>1 DEF Unserved, Asking
  <2> QED
    BY <1>1, <2>1, <2>2, RunBalance DEF SameCount
<1>2. CASE ReadOp
  BY <1>2, ReadOpBalance
<1>3. CASE ReadSync
  <2>1. Sync /\ Head(req).t # "op"
    BY <1>3, ReadSyncInTurn
  <2>2. /\ wrk.pc = "sync" /\ wrk'.pc = "run" /\ wrk'.pending = wrk.pending
        /\ UNCHANGED <<resp, batch, nq, got, slip>>
    BY <1>3, <2>1, ReadSyncDoes
  <2>3. Counted /\ InOrder
    BY <2>1, <2>2 DEF InTurn, Alive, Sync, Obeying, Abandoned
  <2>4. Unserved' = Unserved
    BY <2>2 DEF Unserved, Asking
  <2> QED
    BY <2>2, <2>3, <2>4, RunBalance
<1>4. CASE EndPhase
  BY <1>1, <1>4, EndPhaseDoes
<1>5. CASE Drain
  BY <1>5, DrainBalance
<1>6. CASE Collect
  BY <1>6, CollectBalance
<1>7. CASE Deliver
  BY <1>7, DeliverBalance
<1>8. CASE EndRound
  BY <1>1, <1>8, EndRoundDoes
<1>9. CASE WriteResult
  <2>1. /\ wrk.pc = "run" /\ wrk'.pc = "idle" /\ SameCount
        /\ \E f \in FrameRec : f.t = "RESULT" /\ resp' = Append(resp, f)
        /\ UNCHANGED <<batch, nq, got, slip>>
    BY <1>9, WriteResultDoes
  <2>2. Run /\ Counted /\ InOrder
    BY <2>1, WorkerTurn, RunIsCurrent
  <2>3. Unserved' = Unserved
    BY <2>1, <2>2, UnservedKept
  <2> QED
    BY <2>1, <2>2, <2>3, RunBalance DEF SameCount
<1> QED
  BY <1>2, <1>3, <1>4, <1>5, <1>6, <1>7, <1>8, <1>9 DEF Worker

LEMMA IssueAsyncBalance ==
    ASSUME Types, Types', InTurn, NEW m \in Methods, NEW r \in BOOLEAN, IssueAsync(m, r)
    PROVE  Counted' /\ InOrder'
<1>1. /\ wrk.pc = "run" /\ wrk'.pc = "run" /\ wrk'.pending = wrk.pending + 1
      /\ slip' = "none" => slip = "none" /\ nq' = Append(nq, seq + 1)
      /\ UNCHANGED <<req, got, batch>>
  BY IssueAsyncDoes DEF UnchangedParent
<1>2. PICK f \in FrameRec : f.t = "ASYNC" /\ f.id = seq + 1 /\ resp' = Append(resp, f)
  BY IssueAsyncDoes
<1>3. Run /\ Counted /\ InOrder
  BY <1>1, WorkerTurn, RunIsCurrent
<1> DEFINE k == f.id
           a == Ids(batch)
           u == Unserved
<1>4. Unserved' = Append(Unserved, f.id)
  BY <1>2, <1>3, UnservedGrows
<1>5. Owed = a \o u /\ Owed' = a \o Append(u, k) /\ a \in Seq(Nat) /\ u \in Seq(Nat) /\ k \in Nat
  BY <1>1, <1>4, OwedIs, OwedWillBe, RecordsTyped DEF OwedForms, Later
<1> HIDE DEF k, a, u
<1>6. PICK o \in Seq(Nat) : o = Owed /\ Owed' = Append(o, k)
  <2>1. a \o u \in Seq(Nat) /\ a \o Append(u, k) = Append(a \o u, k)
    BY <1>5, ConcatSnoc, ConcatProperties
  <2> QED
    BY <1>5, <2>1
<1>7. Len(Owed') = Len(Owed) + 1
  BY <1>5, <1>6, AppendProperties
<1>8. Counted'
  <2>1. Len(Owed) = wrk.pending /\ wrk.pending \in Nat
    BY <1>1, <1>3 DEF Counted, Types, WrkRec
  <2> QED
    BY <1>1, <1>7, <2>1 DEF Counted
<1>9. InOrder'
  <2>1. got \in Seq(Nat)
    BY DEF Types
  <2>2. got \o Append(o, k) = Append(got \o o, k)
    BY <1>5, <2>1, ConcatSnoc
  <2>3. slip' = "none" => nq = got \o o /\ nq' = Append(nq, k)
    BY <1>1, <1>2, <1>3, <1>6 DEF InOrder, k
  <2> QED
    BY <1>1, <1>6, <2>2, <2>3 DEF InOrder
<1> QED
  BY <1>8, <1>9

LEMMA ScriptBalance ==
    ASSUME Types, Types', InTurn, Script
    PROVE  Counted' /\ InOrder'
<1>1. ASSUME NEW m \in Methods, IssueSync(m)
      PROVE  Counted' /\ InOrder'
  <2>1. /\ wrk.pc = "run" /\ wrk'.pc = "sync" /\ wrk'.pending = wrk.pending
        /\ \E f \in FrameRec : f.t = "SUBREQ" /\ resp' = Append(resp, f)
        /\ UNCHANGED <<batch, nq, got, slip>>
    BY <1>1, IssueSyncDoes DEF UnchangedParent
  <2>2. Run /\ Counted /\ InOrder
    BY <2>1, WorkerTurn, RunIsCurrent
  <2>3. Unserved' = Unserved
    BY <2>1, <2>2, UnservedKept
  <2> QED
    BY <2>1, <2>2, <2>3, RunBalance
<1> QED
  BY <1>1, IssueAsyncBalance DEF Script

-----------------------------------------------------------------------------
(* The invariant.                                                          *)

LEMMA BeginOpBalance ==
    ASSUME Types, Types', InTurn, NEW op \in Ops, BeginOp(op)
    PROVE  Counted' /\ InOrder'
<1>1. par.pc = "idle" /\ wrk.pc # "dead" /\ UNCHANGED <<req, resp, batch, wrk, nq, got, slip>>
  BY BeginOpDoes DEF UnchangedWorker
<1>2. wrk.pc = "idle" /\ ~Abandoned
  BY <1>1 DEF InTurn, Alive, Turns, Between, Sent, Run, Answered, Sync, Asked, Replying, Abandoned
<1>3. Counted /\ InOrder
  BY <1>1, <1>2 DEF InTurn, Alive
<1>4. Unserved' = Unserved
  BY <1>1 DEF Unserved, Asking
<1> QED
  BY <1>1, <1>2, <1>3, <1>4, RunBalance

LEMMA ThreadKeeps ==
    ASSUME Types, InTurn, NEW i \in 1..MaxJobs, Thread(i)
    PROVE  InTurn'
<1>1. /\ batch \in Seq(JobRec) /\ batch' \in Seq(JobRec) /\ Len(batch') = Len(batch)
      /\ \A k \in 1..Len(batch) : batch'[k].id = batch[k].id
      /\ UNCHANGED <<req, resp, par, tab, wrk, nq, got, slip>>
  BY ThreadBatch DEF Types
<1>2. batch = <<>> => batch' = <<>>
  BY <1>1, EmptySeq
<1>3. Ids(batch') = Ids(batch)
  BY <1>1 DEF Ids
<1>4. Owed' = Owed
  BY <1>1, <1>3 DEF Owed, Deferred, Unserved, Asking
<1>5. RespInTurn'
  BY <1>1 DEF InTurn, RespInTurn
<1>6. Turns => Turns'
  <2>1. Between => Between'
    BY <1>1 DEF Between
  <2>2. Sent => Sent'
    BY <1>1, <1>2 DEF Sent
  <2>3. Run => Run'
    BY <1>1 DEF Run, Obeying
  <2>4. Answered => Answered'
    BY <1>1 DEF Answered, Obeying, LastIs
  <2>5. Sync => Sync'
    BY <1>1 DEF Sync, Obeying, LastIs
  <2>6. Asked => Asked'
    BY <1>1 DEF Asked, Obeying, LastIs
  <2>7. Replying => Replying'
    BY <1>1, <1>2 DEF Replying, Obeying
  <2> QED
    BY <2>1, <2>2, <2>3, <2>4, <2>5, <2>6, <2>7 DEF Turns
<1>7. WorkerSound => WorkerSound'
  BY <1>1 DEF WorkerSound
<1>8. Abandoned' = Abandoned /\ (Counted => Counted') /\ (InOrder => InOrder')
  BY <1>1, <1>4 DEF Abandoned, Counted, InOrder
<1> QED
  BY <1>1, <1>5, <1>6, <1>7, <1>8 DEF InTurn, Alive

LEMMA RefusedStays ==
    ASSUME Types, [Next]_vars, slip = "refused"
    PROVE  slip' = "refused"
<1> USE DEF UnchangedWorker
<1>1. CASE Parent
  <2>1. CASE ServeTag
    BY <2>1 DEF ServeTag, ServeResult, ServeSubreq, Submit
  <2> QED
    BY <1>1, <2>1 DEF Parent, Discard, Send, Broken, SyncFetched, NetWait, WriteReply, Unbind, FreeTab
<1>2. CASE Worker
  BY <1>2 DEF Worker, ReadOp, ReadSync, EndPhase, Drain, Collect, Deliver, EndRound, WriteResult
<1>3. CASE Script
  BY <1>3 DEF Script, IssueSync, IssueAsync
<1>4. CASE \/ \E op \in Ops : BeginOp(op)
           \/ \E i \in 1..MaxJobs : Thread(i)
           \/ Crash \/ CloseTab \/ Abandon \/ UNCHANGED vars
  BY <1>4 DEF BeginOp, Thread, ThreadStart, ThreadEnd, UnchangedMain, Crash, CloseTab, Abandon, vars
<1> QED
  BY <1>1, <1>2, <1>3, <1>4 DEF Next, Closed

LEMMA ProtocolKept ==
    ASSUME Types, Types', OwnBatch, Protocol, [Next]_vars
    PROVE  Protocol'
<1> SUFFICES ASSUME slip' # "refused" PROVE InTurn'
  BY DEF Protocol, InTurn, Alive, Dead
<1>1. slip # "refused"
  BY RefusedStays
<1>2. InTurn
  BY <1>1 DEF Protocol, InTurn, Alive, Dead
<1>3. CASE Parent
  BY <1>2, <1>3, ParentInTurn, ParentBalance DEF InTurn, Alive
<1>4. CASE Worker
  BY <1>2, <1>4, WorkerInTurn, WorkerBalance DEF InTurn, Alive
<1>5. CASE Script
  BY <1>2, <1>5, ScriptInTurn, ScriptBalance DEF InTurn, Alive
<1>6. ASSUME NEW op \in Ops, BeginOp(op)
      PROVE  InTurn'
  BY <1>2, <1>6, BeginOpInTurn, BeginOpBalance DEF InTurn, Alive
<1>7. ASSUME NEW i \in 1..MaxJobs, Thread(i)
      PROVE  InTurn'
  BY <1>2, <1>7, ThreadKeeps
<1>8. CASE Crash
  <2>1. wrk'.pc = "dead" /\ UNCHANGED resp /\ UnchangedParent
    BY <1>8, CrashDoes
  <2>2. RespInTurn'
    BY <1>2, <2>1, RespKept DEF InTurn
  <2> QED
    BY <2>1, <2>2 DEF InTurn
<1>9. CASE CloseTab
  <2>1. /\ wrk'.pc = "dead" /\ resp' = <<>> /\ Len(resp') = 0 /\ par.pc = "idle"
        /\ par'.pc = "closing" /\ par'.out = par.out
    BY <1>9, CloseTabDoes DEF SameServe
  <2>2. par.out = <<>>
    BY <1>2, <2>1 DEF InTurn, RespInTurn
  <2> QED
    BY <2>1, <2>2 DEF InTurn, RespInTurn
<1>11. CASE Abandon
  <2>1. /\ wrk'.pc = "dead" /\ resp' = <<>> /\ Len(resp') = 0 /\ par.pc = "unbind"
        /\ par'.pc = "closing" /\ par'.out = par.out
    BY <1>11, AbandonDoes DEF SameServe
  <2>2. par.out = <<>>
    BY <1>2, <2>1 DEF InTurn, RespInTurn
  <2> QED
    BY <2>1, <2>2 DEF InTurn, RespInTurn
<1>10. CASE UNCHANGED vars
  BY <1>2, <1>10 DEF vars, InTurn, Alive, RespInTurn, Turns, Between, Sent, Run, Answered, Sync,
                     Asked, Replying, Obeying, LastIs, WorkerSound, Abandoned, Counted, InOrder,
                     Owed, Deferred, Unserved, Asking
<1> QED
  BY <1>3, <1>4, <1>5, <1>6, <1>7, <1>8, <1>9, <1>10, <1>11 DEF Next, Closed

LEMMA ChannelInvInit == Init => ChannelInv
<1> SUFFICES ASSUME Init PROVE ChannelInv
  OBVIOUS
<1> USE DEF Init
<1>1. Types
  BY EmptySeq DEF Types, NoServe, Fresh, ParRec, TabRec, WrkRec, Kinds
<1>2. OwnBatch /\ OwnResult
  BY DEF OwnBatch, OwnResult, NoServe
<1>3. RespInTurn
  BY DEF RespInTurn, NoServe
<1>4. Between /\ WorkerSound
  BY DEF Between, WorkerSound, NoServe, Fresh
<1>5. Owed = <<>> \o <<>>
  BY <1>1, OwedIs, IdsEmpty DEF OwedForms, Later, Fresh
<1>6. Owed = <<>> /\ Len(<<>>) = 0 /\ <<>> = <<>> \o <<>>
  BY <1>5
<1>7. Counted /\ InOrder
  BY <1>6 DEF Counted, InOrder, Fresh
<1> QED
  BY <1>1, <1>2, <1>3, <1>4, <1>7 DEF ChannelInv, Protocol, Turns

LEMMA ChannelInvNext == ChannelInv /\ [Next]_vars => ChannelInv'
<1> SUFFICES ASSUME ChannelInv, [Next]_vars PROVE ChannelInv'
  OBVIOUS
<1>1. Types /\ OwnBatch /\ OwnResult /\ Protocol
  BY DEF ChannelInv
<1>2. Types'
  BY <1>1, TypesKept
<1>3. OwnBatch' /\ OwnResult'
  BY <1>1, OwnKept DEF Protocol
<1>4. Protocol'
  BY <1>1, <1>2, ProtocolKept
<1> QED
  BY <1>2, <1>3, <1>4 DEF ChannelInv

LEMMA ChannelInvAlways == Spec => []ChannelInv
BY ChannelInvInit, ChannelInvNext, PTL DEF Spec

LEMMA TurnsMatch ==
    ASSUME Types, RespInTurn, Turns
    PROVE  /\ \A i \in 1..Len(resp) - 1 : resp[i].t = "ASYNC"
           /\ \A i \in 1..Len(req) : req[i].t = "reply" =>
                 wrk.pc = "collect" \/ (wrk.pc = "sync" /\ req[i].id = wrk.wait)
           /\ \A i \in 1..Len(par.out) :
                 wrk.pc = "collect" \/ (wrk.pc = "sync" /\ par.out[i].id = wrk.wait)
           /\ wrk.pc = "sync" /\ req # <<>> => Head(req).t = "reply" /\ Head(req).id = wrk.wait
<1>1. ASSUME NEW i \in 1..Len(resp) - 1
      PROVE  resp[i].t = "ASYNC"
  <2>1. i \in 1..Len(resp) /\ i # Len(resp)
    BY LenProperties DEF Types
  <2> QED
    BY <2>1 DEF RespInTurn
<1>2. req = <<>> => Len(req) = 0
  OBVIOUS
<1>3. CASE Between \/ Run \/ Answered \/ Asked
  <2>1. req = <<>> /\ par.pc # "reply"
    BY <1>3 DEF Between, Run, Answered, Asked
  <2>2. par.out = <<>> /\ Len(par.out) = 0
    BY <2>1 DEF RespInTurn
  <2> QED
    BY <1>1, <1>2, <2>1, <2>2
<1>4. CASE Sent
  <2>1. Len(req) = 1 /\ req[1].t = "op" /\ par.pc # "reply" /\ wrk.pc # "sync"
    BY <1>4 DEF Sent
  <2>2. par.out = <<>> /\ Len(par.out) = 0
    BY <2>1 DEF RespInTurn
  <2> QED
    BY <1>1, <2>1, <2>2
<1>5. CASE Sync
  <2>1. \/ req = <<>>
        \/ Len(req) = 1 /\ req[1].t = "reply" /\ req[1].id = wrk.wait
    BY <1>5 DEF Sync
  <2>2. \/ par.out = <<>>
        \/ Len(par.out) = 1 /\ par.out[1].id = wrk.wait
    BY <1>5 DEF Sync, RespInTurn
  <2>3. wrk.pc = "sync"
    BY <1>5 DEF Sync
  <2>4. \A i \in 1..Len(par.out) : par.out[i].id = wrk.wait
    <3>1. par.out = <<>> => Len(par.out) = 0
      OBVIOUS
    <3> QED
      BY <2>2, <3>1
  <2>5. \A i \in 1..Len(req) : req[i].id = wrk.wait
    BY <1>2, <2>1
  <2>6. req # <<>> => Head(req).t = "reply" /\ Head(req).id = wrk.wait
    BY <2>1, LastMessage
  <2> QED
    BY <1>1, <2>3, <2>4, <2>5, <2>6
<1>6. CASE Replying
  BY <1>1, <1>6 DEF Replying
<1> QED
  BY <1>3, <1>4, <1>5, <1>6 DEF Turns

LEMMA ChannelInvMatches == ChannelInv => RepliesMatched
<1> SUFFICES ASSUME ChannelInv PROVE RepliesMatched
  OBVIOUS
<1>1. Types
  BY DEF ChannelInv
<1>2. InStep => RespInTurn /\ Turns /\ Counted /\ InOrder
  BY DEF ChannelInv, Protocol, InStep
<1>3. FramesInTurn
  <2>1. SUFFICES ASSUME InStep
                 PROVE  /\ \A i \in 1..Len(resp) - 1 : resp[i].t = "ASYNC"
                        /\ \A m \in Range(req) \cup Range(par.out) :
                              m.t = "reply" => wrk.pc = "collect" \/ (wrk.pc = "sync" /\ m.id = wrk.wait)
    BY DEF FramesInTurn
  <2>2. DOMAIN req = 1..Len(req) /\ DOMAIN par.out = 1..Len(par.out)
    BY <1>1, LenProperties DEF Types, ParRec
  <2>3. /\ \A i \in 1..Len(resp) - 1 : resp[i].t = "ASYNC"
        /\ \A i \in 1..Len(req) : req[i].t = "reply" =>
              wrk.pc = "collect" \/ (wrk.pc = "sync" /\ req[i].id = wrk.wait)
        /\ \A i \in 1..Len(par.out) :
              wrk.pc = "collect" \/ (wrk.pc = "sync" /\ par.out[i].id = wrk.wait)
    BY <1>1, <1>2, <2>1, TurnsMatch
  <2> QED
    BY <2>2, <2>3 DEF Range
<1>4. RepliesCounted
  BY <1>2 DEF RepliesCounted, Counted
<1>5. RepliesInOrder
  BY <1>2 DEF RepliesInOrder, InOrder
<1>6. SyncAnswer
  BY <1>1, <1>2, TurnsMatch DEF SyncAnswer
<1> QED
  BY <1>3, <1>4, <1>5, <1>6 DEF RepliesMatched

(***************************************************************************)
(* For pipes, batches and budgets of any size: the parent of a tab sends   *)
(* the worker as many replies as it counts on, in the order of the         *)
(* callbacks registered for them, each synchronous request gets its own    *)
(* answer, and nothing is on a pipe to an end that does not wait for it    *)
(* (tab_serve_netwait, tab_submit_async, child_net_drain, child_fetch).    *)
(***************************************************************************)
THEOREM RepliesAlwaysMatched == Spec => []RepliesMatched
BY ChannelInvAlways, ChannelInvMatches, PTL

(***************************************************************************)
(* For pipes, batches and budgets of any size: no thread fetches for the   *)
(* page before once a load is sent (tab_batch_discard), and an operation   *)
(* that succeeds returns its own result, whatever the worker does or when  *)
(* it dies.                                                                *)
(***************************************************************************)
THEOREM PagesNeverCross == Spec => []OnlyOwnPage
<1>1. ChannelInv => OnlyOwnPage
  BY DEF ChannelInv, OwnBatch, OnlyOwnPage, NoStaleFetch
<1> QED
  BY <1>1, ChannelInvAlways, PTL

-----------------------------------------------------------------------------
(* The limits of the pipes, the batch and the budgets.                     *)

PipesIn ==
    /\ req \in Seq(OpRec \cup ReplyRec) /\ Len(req) <= PipeCap /\ Len(resp) <= PipeCap
    /\ par.pc \in {"discard", "send"} => par.op \in Ops

BatchIn == Len(batch) <= MaxJobs /\ Cardinality(Running) <= Slots /\ tab.bytes <= MaxBytes

WorkerIn == wrk.pending <= MaxJobs /\ wrk.used <= MaxSubreq /\ wrk.round <= MaxRounds

LimitsInv == Types /\ PipesIn /\ BatchIn /\ WorkerIn

(* What a step may do to a pipe. *)
Moved(s, t, S) ==
    \/ t = s \/ t = <<>> \/ (s # <<>> /\ t = Tail(s))
    \/ \E m \in S : Len(s) < PipeCap /\ t = Append(s, m)

LEMMA PipeBounded ==
    ASSUME NEW S, NEW s \in Seq(S), NEW t, Len(s) <= PipeCap, Moved(s, t, S)
    PROVE  t \in Seq(S) /\ Len(t) <= PipeCap
<1>1. PipeCap \in Nat /\ Len(s) \in Nat
  BY ChannelAssumption, LenProperties
<1>2. CASE t = s
  BY <1>2
<1>3. CASE t = <<>>
  BY <1>1, <1>3, EmptySeq
<1>4. CASE s # <<>> /\ t = Tail(s)
  BY <1>1, <1>4, HeadTailProperties
<1>5. ASSUME NEW m \in S, Len(s) < PipeCap, t = Append(s, m)
      PROVE  t \in Seq(S) /\ Len(t) <= PipeCap
  BY <1>1, <1>5, AppendProperties
<1> QED
  BY <1>2, <1>3, <1>4, <1>5 DEF Moved

LEMMA ReqMoved ==
    ASSUME Types, PipesIn, [Next]_vars
    PROVE  Moved(req, req', OpRec \cup ReplyRec)
<1> USE DEF Moved
<1>1. CASE Parent
  <2>1. ASSUME NEW r \in Grants, Send(r)
        PROVE  Moved(req, req', OpRec \cup ReplyRec)
    <3>1. par.op \in Ops /\ tab.opn \in Nat /\ Len(req) < PipeCap
          /\ req' = Append(req, OpMsg(tab.opn, par.op, r))
      BY <2>1 DEF Send, PipesIn, Types, TabRec
    <3>2. OpMsg(tab.opn, par.op, r) \in OpRec
      BY <3>1 DEF OpMsg, OpRec, Grants
    <3> QED
      BY <3>1, <3>2
  <2>2. CASE WriteReply
    <3>1. par.out \in Seq(ReplyRec) /\ par.out # <<>>
      BY <2>2, WriteReplyDoes DEF Types, ParRec
    <3>2. Head(par.out) \in ReplyRec
      BY <3>1, HeadTailProperties
    <3> QED
      BY <2>2, <3>2 DEF WriteReply
  <2>3. CASE Discard \/ Broken \/ ServeTag \/ SyncFetched \/ NetWait \/ Unbind \/ FreeTab
    BY <2>3 DEF Discard, Broken, ServeTag, SyncFetched, NetWait, Unbind, FreeTab
  <2> QED
    BY <1>1, <2>1, <2>2, <2>3 DEF Parent
<1>2. CASE Worker
  <2>1. CASE ReadOp
    BY <2>1 DEF ReadOp
  <2>2. CASE ReadSync \/ Collect
    BY <2>2 DEF ReadSync, Collect
  <2>3. CASE EndPhase \/ Drain \/ Deliver \/ EndRound \/ WriteResult
    BY <2>3 DEF EndPhase, Drain, Deliver, EndRound, WriteResult
  <2> QED
    BY <1>2, <2>1, <2>2, <2>3 DEF Worker
<1>3. CASE Script
  BY <1>3 DEF Script, IssueSync, IssueAsync
<1>4. CASE \/ \E op \in Ops : BeginOp(op)
           \/ \E i \in 1..MaxJobs : Thread(i)
           \/ Crash \/ CloseTab \/ Abandon \/ UNCHANGED vars
  <2>1. CASE \E op \in Ops : BeginOp(op)
    BY <2>1 DEF BeginOp
  <2>2. CASE \E i \in 1..MaxJobs : Thread(i)
    BY <2>2 DEF Thread, ThreadStart, ThreadEnd, UnchangedMain
  <2>3. CASE Crash \/ CloseTab \/ Abandon \/ UNCHANGED vars
    BY <2>3 DEF Crash, CloseTab, Abandon, vars
  <2> QED
    BY <1>4, <2>1, <2>2, <2>3
<1> QED
  BY <1>1, <1>2, <1>3, <1>4 DEF Next, Closed

LEMMA RespMoved ==
    ASSUME Types, [Next]_vars
    PROVE  Moved(resp, resp', FrameRec)
<1> USE DEF Moved
<1>1. CASE Parent
  BY <1>1 DEF Parent, Discard, Send, Broken, ServeTag, SyncFetched, NetWait, WriteReply, Unbind, FreeTab
<1>2. CASE Worker
  <2>1. CASE Drain
    BY <2>1, FrameTyped DEF Drain
  <2>2. CASE WriteResult
    <3>1. wrk.n \in Nat
      BY DEF Types, WrkRec
    <3> QED
      BY <2>2, <3>1, FrameTyped DEF WriteResult
  <2>3. CASE ReadOp \/ ReadSync \/ EndPhase \/ Collect \/ Deliver \/ EndRound
    BY <2>3 DEF ReadOp, ReadSync, EndPhase, Collect, Deliver, EndRound
  <2> QED
    BY <1>2, <2>1, <2>2, <2>3 DEF Worker
<1>3. CASE Script
  <2>1. seq + 1 \in Nat
    BY DEF Types
  <2>2. ASSUME NEW m \in Methods
        PROVE  Frame("SUBREQ", seq + 1, m) \in FrameRec /\ Frame("ASYNC", seq + 1, m) \in FrameRec
    BY <2>1, FrameTyped
  <2>3. ASSUME NEW m \in Methods, IssueSync(m)
        PROVE  Moved(resp, resp', FrameRec)
    BY <2>2, <2>3 DEF IssueSync, CanIssue
  <2>4. ASSUME NEW m \in Methods, NEW r \in BOOLEAN, IssueAsync(m, r)
        PROVE  Moved(resp, resp', FrameRec)
    BY <2>2, <2>4 DEF IssueAsync, CanIssue
  <2> QED
    BY <1>3, <2>3, <2>4 DEF Script
<1>4. CASE \/ \E op \in Ops : BeginOp(op)
           \/ \E i \in 1..MaxJobs : Thread(i)
           \/ Crash \/ CloseTab \/ Abandon \/ UNCHANGED vars
  <2>1. CASE \E op \in Ops : BeginOp(op)
    BY <2>1 DEF BeginOp
  <2>2. CASE \E i \in 1..MaxJobs : Thread(i)
    BY <2>2 DEF Thread, ThreadStart, ThreadEnd, UnchangedMain
  <2>3. CASE Crash \/ CloseTab \/ Abandon \/ UNCHANGED vars
    BY <2>3 DEF Crash, CloseTab, Abandon, vars
  <2> QED
    BY <1>4, <2>1, <2>2, <2>3
<1> QED
  BY <1>1, <1>2, <1>3, <1>4 DEF Next, Closed

LEMMA OpPending ==
    ASSUME Types, PipesIn, [Next]_vars
    PROVE  par'.pc \in {"discard", "send"} => par'.op \in Ops
<1> USE DEF SameServe, Returned
<1>1. CASE Parent
  <2>1. CASE Discard
    BY <2>1, DiscardDoes DEF PipesIn
  <2>2. ASSUME NEW r \in Grants, Send(r)
        PROVE  par'.pc = "serve"
    BY <2>2, SendDoes
  <2>3. CASE Broken
    BY <2>3, BrokenDoes
  <2>4. CASE ServeTag
    BY <2>4, ServeTagDoes DEF ServesResult, ServesSubreq, ServesAsync, ServesWait, ServesNothing
  <2>5. CASE SyncFetched
    BY <2>5, SyncFetchedDoes
  <2>6. CASE NetWait
    BY <2>6, NetWaitDoes
  <2>7. CASE WriteReply
    BY <2>7, WriteReplyDoes
  <2>8. CASE Unbind
    BY <2>8, UnbindDoes
  <2>9. CASE FreeTab
    BY <2>9, FreeTabDoes
  <2> QED
    BY <1>1, <2>1, <2>2, <2>3, <2>4, <2>5, <2>6, <2>7, <2>8, <2>9 DEF Parent
<1>2. ASSUME NEW op \in Ops, BeginOp(op)
      PROVE  par'.op \in Ops
  BY <1>2, BeginOpDoes
<1>3. CASE CloseTab \/ Abandon
  BY <1>3, CloseTabDoes, AbandonDoes
<1>4. CASE Worker \/ Script \/ Crash \/ (\E i \in 1..MaxJobs : Thread(i)) \/ UNCHANGED vars
  <2>1. par' = par
    BY <1>4 DEF Worker, ReadOp, ReadSync, EndPhase, Drain, Collect, Deliver, EndRound, WriteResult,
                Script, IssueSync, IssueAsync, Crash, Thread, ThreadStart, ThreadEnd,
                UnchangedParent, UnchangedMain, vars
  <2> QED
    BY <2>1 DEF PipesIn
<1> QED
  BY <1>1, <1>2, <1>3, <1>4 DEF Next, Closed

LEMMA PipesKept ==
    ASSUME Types, PipesIn, [Next]_vars
    PROVE  PipesIn'
<1>1. req' \in Seq(OpRec \cup ReplyRec) /\ Len(req') <= PipeCap
  BY ReqMoved, PipeBounded DEF PipesIn
<1>2. Len(resp') <= PipeCap
  BY RespMoved, PipeBounded DEF PipesIn, Types
<1> QED
  BY <1>1, <1>2, OpPending DEF PipesIn

LEMMA RunningFinite ==
    ASSUME Types
    PROVE  IsFiniteSet(Running) /\ Cardinality(Running) \in Nat /\ Len(batch) \in Nat
<1>1. Len(batch) \in Nat
  BY LenProperties DEF Types
<1>2. IsFiniteSet(1..Len(batch)) /\ Running \in SUBSET (1..Len(batch))
  BY <1>1, FS_Interval DEF Running
<1> QED
  BY <1>1, <1>2, FS_Subset, FS_CardinalityType

(* The bodies of a round: the k-th one sent has k bodies before and with it, *)
(* so that no two of them have the same count and none has more than fits.   *)
LEMMA BodiesFit ==
    ASSUME Types, tab.bytes <= MaxBytes
    PROVE  tab.bytes + Cardinality({i \in 1..Len(batch) : BatchReplies[i].ok}) <= MaxBytes
<1> DEFINE n == Len(batch)
           Ok(i) == {k \in 1..i : batch[k].ok}
           A == {i \in 1..n : BatchReplies[i].ok}
           room == MaxBytes - tab.bytes
           f == [i \in A |-> Bodies(i)]
<1>1. n \in Nat /\ room \in Nat /\ MaxBytes \in Nat /\ tab.bytes \in Nat
  <2>1. batch \in Seq(JobRec) /\ tab.bytes \in Nat
    BY DEF Types, TabRec
  <2>2. MaxBytes \in Nat
    BY ChannelAssumption
  <2> QED
    BY <2>1, <2>2, LenProperties
<1>2. \A i \in 1..n : IsFiniteSet(Ok(i)) /\ Bodies(i) = Cardinality(Ok(i)) /\ Bodies(i) \in Nat
  <2> TAKE i \in 1..n
  <2>1. IsFiniteSet(1..i) /\ Ok(i) \in SUBSET (1..i)
    BY <1>1, FS_Interval
  <2>2. IsFiniteSet(Ok(i)) /\ Cardinality(Ok(i)) \in Nat
    BY <2>1, FS_Subset, FS_CardinalityType
  <2> QED
    BY <2>2 DEF Bodies
<1>3. \A i \in A : i \in 1..n /\ batch[i].ok /\ tab.bytes + Bodies(i) <= MaxBytes
  BY DEF BatchReplies, Reply
<1>4. \A i \in A : Bodies(i) \in 1..room
  <2> TAKE i \in A
  <2>1. i \in Ok(i) /\ i \in 1..n
    BY <1>1, <1>3
  <2>2. Bodies(i) # 0
    BY <1>2, <2>1, FS_EmptySet
  <2>3. Bodies(i) \in Nat /\ tab.bytes + Bodies(i) <= MaxBytes
    BY <1>2, <1>3, <2>1
  <2> QED
    BY <1>1, <2>2, <2>3
<1>5. ASSUME NEW i \in A, NEW j \in A, i < j
      PROVE  Bodies(i) # Bodies(j)
  <2>1. i \in 1..n /\ j \in 1..n /\ batch[j].ok
    BY <1>3
  <2>2. Ok(i) \in SUBSET Ok(j) /\ j \in Ok(j) /\ j \notin Ok(i)
    BY <1>1, <1>5, <2>1
  <2>3. Cardinality(Ok(i)) = Cardinality(Ok(j)) => Ok(i) = Ok(j)
    BY <1>2, <2>1, <2>2, FS_Subset
  <2> QED
    BY <1>2, <2>1, <2>2, <2>3
<1>6. f \in Injection(A, 1..room)
  <2>1. f \in [A -> 1..room]
    BY <1>4
  <2>2. \A i, j \in A : f[i] = f[j] => i = j
    <3> TAKE i, j \in A
    <3>1. i \in Int /\ j \in Int
      BY <1>1, <1>3
    <3> QED
      BY <1>5, <3>1
  <2> QED
    BY <2>1, <2>2 DEF Injection, IsInjective
<1> HIDE DEF f, A, room
<1>7. IsFiniteSet(1..room) /\ Cardinality(1..room) = room
  <2>1. room \in Nat
    BY <1>1
  <2>2. room \in Int /\ 1 \in Int
    BY <2>1
  <2>3. IsFiniteSet(1..room) /\ Cardinality(1..room) = (IF 1 > room THEN 0 ELSE room - 1 + 1)
    BY <2>2, FS_Interval
  <2> QED
    BY <2>1, <2>3
<1>8. IsFiniteSet(A) /\ Cardinality(A) <= room
  BY <1>6, <1>7, FS_Injection
<1>9. Cardinality(A) \in Nat
  BY <1>8, FS_CardinalityType
<1> QED
  BY <1>1, <1>8, <1>9 DEF A, room

(* A step that leaves the batch alone, or empties it. *)
LEMMA BatchSame ==
    ASSUME BatchIn, UNCHANGED batch, tab'.bytes = tab.bytes
    PROVE  BatchIn'
BY DEF BatchIn, Running

LEMMA BatchEmptied ==
    ASSUME batch' = <<>>, tab'.bytes <= MaxBytes
    PROVE  BatchIn'
<1>1. Running' = {} /\ Len(batch') = 0
  BY DEF Running
<1> QED
  BY <1>1, FS_EmptySet, ChannelAssumption DEF BatchIn

LEMMA SubmitKeepsBatch ==
    ASSUME Types, BatchIn, NEW m \in FrameRec, Submit(m)
    PROVE  BatchIn'
<1>1. CASE /\ Len(batch) < MaxJobs /\ UNCHANGED tab
           /\ batch' = Append(batch, Job(m.id, tab.over \/ ~Granted(m.method)))
  <2>1. PICK j : /\ batch' = Append(batch, j) /\ j.st \in {"refused", "queued"} /\ j \in JobRec
    <3>1. Job(m.id, tab.over \/ ~Granted(m.method)) \in JobRec
      BY DEF Job, JobRec, FrameRec, Types, TabRec
    <3>2. Job(m.id, tab.over \/ ~Granted(m.method)).st \in {"refused", "queued"}
      BY DEF Job
    <3> QED
      BY <1>1, <3>1, <3>2
  <2>2. /\ batch \in Seq(JobRec) /\ Len(batch) \in Nat /\ Len(batch') = Len(batch) + 1
        /\ \A i \in 1..Len(batch) : batch'[i] = batch[i]
        /\ batch'[Len(batch) + 1] = j
    <3>1. batch \in Seq(JobRec)
      BY DEF Types
    <3> QED
      BY <2>1, <3>1, AppendProperties, LenProperties
  <2>3. Running' = Running
    BY <2>1, <2>2 DEF Running
  <2>4. Len(batch') <= MaxJobs
    BY <1>1, <2>2, ChannelAssumption
  <2> QED
    BY <1>1, <2>3, <2>4 DEF BatchIn
<1>2. CASE Fail /\ UNCHANGED batch
  <2>1. tab'.bytes = tab.bytes
    BY <1>2 DEF Fail, Types, TabRec
  <2> QED
    BY <1>2, <2>1, BatchSame
<1> QED
  BY <1>1, <1>2 DEF Submit

LEMMA ThreadKeepsBatch ==
    ASSUME Types, BatchIn, NEW i \in 1..MaxJobs, Thread(i)
    PROVE  BatchIn'
<1>1. /\ batch \in Seq(JobRec) /\ i \in 1..Len(batch) /\ Len(batch) \in Nat
      /\ \A k \in 1..Len(batch) : batch[k] \in JobRec
  BY LenProperties, ElementOfSeq DEF Thread, Types
<1>2. Len(batch') = Len(batch) /\ tab' = tab
  BY ThreadBatch
<1>3. IsFiniteSet(Running) /\ Cardinality(Running) \in Nat /\ Slots \in Nat
  BY RunningFinite, ChannelAssumption
<1>4. CASE ThreadStart(i)
  <2>1. Running' = Running \cup {i}
    BY <1>1, <1>2, <1>4 DEF ThreadStart, Running, JobRec
  <2>2. Cardinality(Running) < Slots
    BY <1>4 DEF ThreadStart
  <2>3. Cardinality(Running \cup {i}) <= Cardinality(Running) + 1
    BY <1>3, FS_AddElement
  <2>4. Cardinality(Running \cup {i}) \in Nat
    BY <1>3, FS_AddElement, FS_CardinalityType
  <2>5. Cardinality(Running') <= Slots
    BY <1>3, <2>1, <2>2, <2>3, <2>4
  <2> QED
    BY <1>2, <2>5 DEF BatchIn
<1>5. CASE ThreadEnd(i)
  <2>1. Running' \in SUBSET Running
    BY <1>1, <1>2, <1>5 DEF ThreadEnd, Running, JobRec
  <2>2. Cardinality(Running') <= Cardinality(Running) /\ Cardinality(Running') \in Nat
    BY <1>3, <2>1, FS_Subset, FS_CardinalityType
  <2>3. Cardinality(Running') <= Slots
    BY <1>3, <2>2 DEF BatchIn
  <2> QED
    BY <1>2, <2>3 DEF BatchIn
<1> QED
  BY <1>4, <1>5 DEF Thread

LEMMA BatchKept ==
    ASSUME Types, BatchIn, [Next]_vars
    PROVE  BatchIn'
<1>0. tab \in TabRec /\ MaxBytes \in Nat
  BY ChannelAssumption DEF Types
<1>1. CASE Parent
  <2>1. CASE Discard
    <3>1. batch' = <<>> /\ tab'.bytes = 0
      BY <1>0, <2>1 DEF Discard, TabRec
    <3> QED
      BY <1>0, <3>1, BatchEmptied
  <2>2. ASSUME NEW r \in Grants, Send(r)
        PROVE  BatchIn'
    <3>1. UNCHANGED batch /\ tab'.bytes = tab.bytes
      BY <1>0, <2>2 DEF Send, TabRec
    <3> QED
      BY <3>1, BatchSame
  <2>3. CASE Broken
    <3>1. UNCHANGED batch /\ tab'.bytes = tab.bytes
      BY <1>0, <2>3 DEF Broken, Fail, TabRec
    <3> QED
      BY <3>1, BatchSame
  <2>4. CASE ServeTag
    <3> DEFINE m == Head(resp)
    <3>1. m \in FrameRec
      BY <2>4, RespTyped DEF ServeTag
    <3>2. CASE Submit(m)
      BY <3>1, <3>2, SubmitKeepsBatch
    <3>3. CASE ~Submit(m)
      <4>1. UNCHANGED batch /\ (UNCHANGED tab \/ Fail)
        BY <2>4, <3>3 DEF ServeTag, ServeResult, ServeSubreq
      <4>2. tab'.bytes = tab.bytes
        BY <1>0, <4>1 DEF Fail, TabRec
      <4> QED
        BY <4>1, <4>2, BatchSame
    <3> QED
      BY <3>2, <3>3
  <2>5. CASE SyncFetched
    <3>1. UNCHANGED batch /\ tab'.bytes = tab.bytes
      BY <1>0, <2>5 DEF SyncFetched, TabRec
    <3> QED
      BY <3>1, BatchSame
  <2>6. CASE NetWait
    <3>1. PICK c \in Nat : c = Cardinality({i \in 1..Len(batch) : BatchReplies[i].ok})
      BY NetWaitBytes
    <3>2. PICK b \in Nat : b = tab.bytes + c
      BY <1>0 DEF TabRec
    <3>3. batch' = <<>> /\ tab'.bytes = b
      BY <1>0, <2>6, <3>1, <3>2 DEF NetWait, TabRec
    <3>4. b <= MaxBytes
      BY <3>1, <3>2, BodiesFit DEF BatchIn
    <3> QED
      BY <3>3, <3>4, BatchEmptied
  <2>7. CASE WriteReply
    BY <2>7, BatchSame DEF WriteReply
  <2>8. CASE Unbind
    <3>1. UNCHANGED batch /\ tab'.bytes = tab.bytes
      BY <1>0, <2>8 DEF Unbind, TabRec
    <3> QED
      BY <3>1, BatchSame
  <2>9. CASE FreeTab
    <3>1. batch' = <<>> /\ tab'.bytes <= MaxBytes
      BY <2>9 DEF FreeTab, BatchIn
    <3> QED
      BY <3>1, BatchEmptied
  <2> QED
    BY <1>1, <2>1, <2>2, <2>3, <2>4, <2>5, <2>6, <2>7, <2>8, <2>9 DEF Parent
<1>2. ASSUME NEW op \in Ops, BeginOp(op)
      PROVE  BatchIn'
  <2>1. UNCHANGED batch
    BY <1>2 DEF BeginOp
  <2>2. PICK n \in Nat : n = tab.opn + 1
    BY <1>0 DEF TabRec
  <2>3. \E g : tab' = [tab EXCEPT !.opn = n, !.over = FALSE, !.fetcher = g]
    BY <1>0, <1>2, <2>2 DEF BeginOp, TabRec
  <2>4. tab'.bytes = tab.bytes
    BY <1>0, <2>3 DEF TabRec
  <2> QED
    BY <2>1, <2>4, BatchSame
<1>3. ASSUME NEW i \in 1..MaxJobs, Thread(i)
      PROVE  BatchIn'
  BY <1>3, ThreadKeepsBatch
<1>4. CASE Worker \/ Script \/ Crash \/ CloseTab \/ UNCHANGED vars
  <2>1. UNCHANGED <<batch, tab>>
    BY <1>4 DEF Worker, ReadOp, ReadSync, EndPhase, Drain, Collect, Deliver, EndRound, WriteResult,
                Script, IssueSync, IssueAsync, Crash, CloseTab, UnchangedParent, vars
  <2> QED
    BY <2>1, BatchSame
<1>5. CASE Abandon
  <2>1. UNCHANGED batch /\ tab'.bytes = tab.bytes
    BY <1>0, <1>5 DEF Abandon, TabRec
  <2> QED
    BY <2>1, BatchSame
<1> QED
  BY <1>1, <1>2, <1>3, <1>4, <1>5 DEF Next, Closed

LEMMA CountersSame ==
    ASSUME WorkerIn, wrk'.pending = wrk.pending, wrk'.used = wrk.used, wrk'.round = wrk.round
    PROVE  WorkerIn'
BY DEF WorkerIn

LEMMA WorkerLimits ==
    ASSUME Types, WorkerIn, [Next]_vars
    PROVE  WorkerIn'
<1>0. /\ wrk \in WrkRec /\ MaxJobs \in Nat /\ MaxSubreq \in Nat /\ MaxRounds \in Nat
      /\ wrk.pending \in Nat /\ wrk.used \in Nat /\ wrk.round \in Nat
  BY ChannelAssumption DEF Types, WrkRec
<1>1. CASE Worker
  <2>1. CASE ReadOp
    <3> DEFINE m == Head(req)
    <3>1. CASE m.t # "op"
      <4>1. wrk' = [wrk EXCEPT !.pc = "dead"]
        BY <2>1, <3>1 DEF ReadOp
      <4> QED
        BY <1>0, <4>1, CountersSame DEF WrkRec
    <3>2. CASE m.t = "op" /\ m.op = "load"
      <4>1. wrk' = StartLoad(m)
        BY <2>1, <3>2 DEF ReadOp
      <4>2. wrk'.pending = 0 /\ wrk'.used = 0 /\ wrk'.round = 0
        BY <1>0, <4>1 DEF StartLoad, WrkRec
      <4> QED
        BY <1>0, <4>2 DEF WorkerIn
    <3>3. CASE m.t = "op" /\ m.op # "load"
      <4>1. wrk' = StartOp(m)
        BY <2>1, <3>3 DEF ReadOp
      <4>2. wrk'.pending = wrk.pending /\ (wrk'.used = 0 \/ wrk'.used = wrk.used) /\ wrk'.round = 0
        BY <1>0, <4>1 DEF StartOp, WrkRec
      <4> QED
        BY <1>0, <4>2 DEF WorkerIn
    <3> QED
      BY <3>1, <3>2, <3>3
  <2>2. CASE ReadSync
    <3>1. wrk' = [wrk EXCEPT !.pc = "run", !.wait = 0] \/ wrk' = wrk
      BY <2>2 DEF ReadSync
    <3> QED
      BY <1>0, <3>1, CountersSame DEF WrkRec
  <2>3. CASE EndPhase
    <3>1. \E p, a : wrk' = [wrk EXCEPT !.phase = p, !.net_active = a]
      BY <2>3 DEF EndPhase
    <3> QED
      BY <1>0, <3>1, CountersSame DEF WrkRec
  <2>4. CASE Drain
    <3>1. CASE wrk' = [wrk EXCEPT !.pc = "collect", !.need = wrk.pending, !.pending = 0]
      <4>1. wrk'.pending = 0 /\ wrk'.used = wrk.used /\ wrk'.round = wrk.round
        BY <1>0, <3>1 DEF WrkRec
      <4> QED
        BY <1>0, <4>1 DEF WorkerIn
    <3>2. CASE wrk' = [wrk EXCEPT !.phase = AfterPhase(wrk)]
      BY <1>0, <3>2, CountersSame DEF WrkRec
    <3> QED
      BY <2>4, <3>1, <3>2 DEF Drain
  <2>5. CASE Collect
    <3>1. CASE wrk' = [wrk EXCEPT !.pc = "run", !.phase = "deliver", !.need = 0]
      BY <1>0, <3>1, CountersSame DEF WrkRec
    <3>2. CASE wrk' = [wrk EXCEPT !.pc = "run", !.phase = "deliver", !.need = 0, !.round = MaxRounds]
      <4>1. wrk'.pending = wrk.pending /\ wrk'.used = wrk.used /\ wrk'.round = MaxRounds
        BY <1>0, <3>2 DEF WrkRec
      <4> QED
        BY <1>0, <4>1 DEF WorkerIn
    <3>3. CASE wrk' = wrk
      BY <3>3, CountersSame
    <3> QED
      BY <2>5, <3>1, <3>2, <3>3 DEF Collect
  <2>6. CASE EndRound
    <3>1. PICK r \in Nat : r = wrk.round + 1
      BY <1>0
    <3>2. \/ wrk' = [wrk EXCEPT !.phase = "drain"]
          \/ wrk.round # MaxRounds /\ wrk' = [wrk EXCEPT !.phase = "drain", !.round = r]
      BY <1>0, <2>6, <3>1 DEF EndRound, WrkRec
    <3>3. CASE wrk' = [wrk EXCEPT !.phase = "drain"]
      BY <1>0, <3>3, CountersSame DEF WrkRec
    <3>4. CASE wrk.round # MaxRounds /\ wrk' = [wrk EXCEPT !.phase = "drain", !.round = r]
      <4>1. wrk'.pending = wrk.pending /\ wrk'.used = wrk.used /\ wrk'.round = r
        BY <1>0, <3>4 DEF WrkRec
      <4>2. r <= MaxRounds
        BY <1>0, <3>1, <3>4 DEF WorkerIn
      <4> QED
        BY <4>1, <4>2 DEF WorkerIn
    <3> QED
      BY <3>2, <3>3, <3>4
  <2>7. CASE WriteResult
    <3>1. wrk' = [wrk EXCEPT !.pc = "idle", !.net_active = FALSE]
      BY <2>7 DEF WriteResult
    <3> QED
      BY <1>0, <3>1, CountersSame DEF WrkRec
  <2>8. CASE Deliver
    BY <2>8, CountersSame DEF Deliver
  <2> QED
    BY <1>1, <2>1, <2>2, <2>3, <2>4, <2>5, <2>6, <2>7, <2>8 DEF Worker
<1>2. ASSUME NEW m \in Methods, IssueSync(m)
      PROVE  WorkerIn'
  <2>1. PICK u \in Nat : u = wrk.used + 1
    BY <1>0
  <2>2. \E w : wrk' = [wrk EXCEPT !.pc = "sync", !.wait = w, !.used = u]
    BY <1>0, <1>2, <2>1 DEF IssueSync, WrkRec
  <2>3. wrk'.pending = wrk.pending /\ wrk'.used = u /\ wrk'.round = wrk.round
    BY <1>0, <2>2 DEF WrkRec
  <2>4. u <= MaxSubreq
    <3>1. wrk.used < MaxSubreq
      BY <1>2 DEF IssueSync, CanIssue
    <3> QED
      BY <1>0, <2>1, <3>1
  <2> QED
    BY <2>3, <2>4 DEF WorkerIn
<1>3. ASSUME NEW m \in Methods, NEW r \in BOOLEAN, IssueAsync(m, r)
      PROVE  WorkerIn'
  <2>1. PICK u \in Nat, w \in Nat : u = wrk.used + 1 /\ w = wrk.pending + 1
    BY <1>0
  <2>2. wrk' = [wrk EXCEPT !.pending = w, !.used = u]
    BY <1>0, <1>3, <2>1 DEF IssueAsync, WrkRec
  <2>3. wrk'.pending = w /\ wrk'.used = u /\ wrk'.round = wrk.round
    BY <1>0, <2>2 DEF WrkRec
  <2>4. u <= MaxSubreq /\ w <= MaxJobs
    <3>1. wrk.used < MaxSubreq /\ wrk.pending < MaxJobs
      BY <1>3 DEF IssueAsync, CanIssue
    <3> QED
      BY <1>0, <2>1, <3>1
  <2> QED
    BY <2>3, <2>4 DEF WorkerIn
<1>4. CASE Crash \/ CloseTab \/ Abandon
  <2>1. wrk' = [wrk EXCEPT !.pc = "dead"]
    BY <1>4 DEF Crash, CloseTab, Abandon
  <2> QED
    BY <1>0, <2>1, CountersSame DEF WrkRec
<1>5. CASE \/ Parent \/ \E op \in Ops : BeginOp(op)
           \/ \E i \in 1..MaxJobs : Thread(i)
           \/ UNCHANGED vars
  <2>1. Parent => UNCHANGED wrk
    <3>1. Discard => UNCHANGED wrk
      BY DEF Discard, UnchangedWorker
    <3>2. (\E r \in Grants : Send(r)) => UNCHANGED wrk
      BY DEF Send, UnchangedWorker
    <3>3. Broken \/ WriteReply \/ FreeTab => UNCHANGED wrk
      BY DEF Broken, WriteReply, FreeTab, UnchangedWorker
    <3>4. ServeTag => UNCHANGED wrk
      BY DEF ServeTag, UnchangedWorker
    <3>5. SyncFetched => UNCHANGED wrk
      BY DEF SyncFetched, UnchangedWorker
    <3>6. NetWait => UNCHANGED wrk
      BY DEF NetWait, UnchangedWorker
    <3>7. Unbind => UNCHANGED wrk
      BY DEF Unbind, UnchangedWorker
    <3> QED
      BY <3>1, <3>2, <3>3, <3>4, <3>5, <3>6, <3>7 DEF Parent
  <2>2. (\E op \in Ops : BeginOp(op)) => UNCHANGED wrk
    BY DEF BeginOp, UnchangedWorker
  <2>3. (\E i \in 1..MaxJobs : Thread(i)) => UNCHANGED wrk
    BY DEF Thread, ThreadStart, ThreadEnd, UnchangedMain
  <2>4. UNCHANGED vars => UNCHANGED wrk
    BY DEF vars
  <2> QED
    BY <1>5, <2>1, <2>2, <2>3, <2>4, CountersSame
<1> QED
  BY <1>1, <1>2, <1>3, <1>4, <1>5 DEF Next, Closed, Script

(***************************************************************************)
(* For every value of the limits: neither pipe holds more than its         *)
(* capacity, the batch no more than SQB_MAX_JOBS jobs of which             *)
(* TAB_ASYNC_THREADS run, the bodies sent to a page no more than its byte  *)
(* budget (tab_serve_netwait), and the worker's counters of pending and    *)
(* issued requests and of rounds stay within theirs.                       *)
(***************************************************************************)
THEOREM ChannelWithinLimits == Spec => []TypeOK
<1>1. Init => LimitsInv
  <2> SUFFICES ASSUME Init PROVE LimitsInv
    OBVIOUS
  <2>1. Types
    BY ChannelInvInit DEF ChannelInv
  <2>2. PipesIn
    BY EmptySeq, ChannelAssumption DEF Init, PipesIn, NoServe
  <2>3. BatchIn
    <3>1. Running = {} /\ Len(batch) = 0 /\ tab.bytes = 0
      BY DEF Init, Running
    <3> QED
      BY <3>1, FS_EmptySet, ChannelAssumption DEF BatchIn
  <2>4. WorkerIn
    BY ChannelAssumption DEF Init, WorkerIn, Fresh
  <2> QED
    BY <2>1, <2>2, <2>3, <2>4 DEF LimitsInv
<1>2. LimitsInv /\ [Next]_vars => LimitsInv'
  BY TypesKept, PipesKept, BatchKept, WorkerLimits DEF LimitsInv
<1>3. LimitsInv => TypeOK
  <2> SUFFICES ASSUME LimitsInv PROVE TypeOK
    OBVIOUS
  <2>1. MaxJobs \in Nat
    BY ChannelAssumption
  <2> QED
    BY <2>1 DEF LimitsInv, Types, PipesIn, BatchIn, WorkerIn, TypeOK, ParRec, TabRec, WrkRec
<1> QED
  BY <1>1, <1>2, <1>3, PTL DEF Spec
=============================================================================
