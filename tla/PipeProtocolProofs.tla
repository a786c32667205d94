------------------------- MODULE PipeProtocolProofs -------------------------
(***************************************************************************)
(* For a client that keeps to packet.proto: every call that ends is        *)
(* answered exactly once, what comes out of the pipe is a behaviour of     *)
(* CallProtocol, and, on one thread, a Cancel is not mistaken for the end  *)
(* of a request stream and silences its handler.                           *)
(***************************************************************************)
EXTENDS PipeOrderProofs

-----------------------------------------------------------------------------
(* Order, as a relation of what was sent and what is on its way.           *)

SpokenIn(w, pl, r) == w[r] # <<>> \/ \E i \in DOMAIN pl : pl[i].id = r

\* A frame may join at the end when its call has no Close, and, when it is Headers,
\* no frame.
LEMMA InOrderAppend ==
    ASSUME NEW w \in [Ids -> Seq(P!Bodies)], NEW pl \in Seq(Frame), NEW f \in Frame, InOrder(w, pl),
           ~ClosedIn(w, pl, f.id),
           f.body = "headers" => HandlersDropSends \/ ~SpokenIn(w, pl, f.id)
    PROVE  InOrder(w, Append(pl, f))
  <1> DEFINE n == Len(pl) + 1
  <1>1. /\ DOMAIN Append(pl, f) = 1..n /\ DOMAIN pl = 1..Len(pl) /\ Len(pl) \in Nat
        /\ Append(pl, f)[n] = f
        /\ \A i \in DOMAIN pl : Append(pl, f)[i] = pl[i]
    OBVIOUS
  <1> SUFFICES ASSUME NEW r \in Ids
               PROVE  /\ \A i, j \in 1..n :
                            i < j /\ Append(pl, f)[i].id = r /\ Append(pl, f)[j].id = r
                            => MayFollow(Append(pl, f)[i].body, Append(pl, f)[j].body)
                      /\ \A i \in DOMAIN w[r], j \in 1..n :
                            Append(pl, f)[j].id = r => MayFollow(w[r][i], Append(pl, f)[j].body)
    BY <1>1 DEF InOrder
  <1>2. ASSUME NEW i \in DOMAIN pl, pl[i].id = r, f.id = r
        PROVE  MayFollow(pl[i].body, f.body)
    BY <1>2 DEF MayFollow, ClosedIn, SpokenIn, IsClose
  <1>3. ASSUME NEW i \in DOMAIN w[r], f.id = r
        PROVE  MayFollow(w[r][i], f.body)
    <2>1. w[r] # <<>>
      BY <1>3
    <2> QED
      BY <1>3, <2>1 DEF MayFollow, ClosedIn, SpokenIn
  <1>4. ASSUME NEW i \in 1..n, NEW j \in 1..n, i < j, Append(pl, f)[i].id = r, Append(pl, f)[j].id = r
        PROVE  MayFollow(Append(pl, f)[i].body, Append(pl, f)[j].body)
    <2>1. i \in DOMAIN pl /\ pl[i].id = r
      BY <1>1, <1>4
    <2>2. CASE j = n
      BY <1>1, <1>2, <1>4, <2>1, <2>2
    <2>3. CASE j \in DOMAIN pl
      BY <1>1, <1>4, <2>1, <2>3 DEF InOrder
    <2> QED
      BY <1>1, <2>2, <2>3
  <1>5. ASSUME NEW i \in DOMAIN w[r], NEW j \in 1..n, Append(pl, f)[j].id = r
        PROVE  MayFollow(w[r][i], Append(pl, f)[j].body)
    <2>1. CASE j = n
      BY <1>1, <1>3, <1>5, <2>1
    <2>2. CASE j \in DOMAIN pl
      BY <1>1, <1>5, <2>2 DEF InOrder
    <2> QED
      BY <1>1, <2>1, <2>2
  <1> QED
    BY <1>4, <1>5

\* The first frame on its way is the next on the wire.
LEMMA InOrderForward ==
    ASSUME NEW w \in [Ids -> Seq(P!Bodies)], NEW pl \in Seq(Frame), pl # <<>>, InOrder(w, pl)
    PROVE  InOrder([w EXCEPT ![Head(pl).id] = Append(@, Head(pl).body)], Tail(pl))
  <1> DEFINE f == Head(pl)
             rest == Tail(pl)
             v == [w EXCEPT ![f.id] = Append(@, f.body)]
  <1>1. f \in Frame /\ f.id \in Ids /\ f = pl[1] /\ 1 \in DOMAIN pl
    BY FirstFrame
  <1>2. \A i \in DOMAIN rest : i + 1 \in DOMAIN pl /\ rest[i] = pl[i + 1] /\ i \in Nat \ {0}
    OBVIOUS
  <1>3. \A r \in Ids : r # f.id => v[r] = w[r]
    OBVIOUS
  <1>4. /\ v[f.id] = Append(w[f.id], f.body)
        /\ w[f.id] \in Seq(P!Bodies)
    BY <1>1
  <1> HIDE DEF rest, v
  <1>5. /\ DOMAIN v[f.id] = 1..Len(w[f.id]) + 1
        /\ DOMAIN w[f.id] = 1..Len(w[f.id]) /\ Len(w[f.id]) \in Nat
        /\ v[f.id][Len(w[f.id]) + 1] = f.body
        /\ \A i \in DOMAIN w[f.id] : v[f.id][i] = w[f.id][i]
    BY <1>4
  <1>6. ASSUME NEW r \in Ids, NEW i \in DOMAIN rest, NEW j \in DOMAIN rest, i < j,
               rest[i].id = r, rest[j].id = r
        PROVE  MayFollow(rest[i].body, rest[j].body)
    BY <1>2, <1>6 DEF InOrder
  <1>7. ASSUME NEW r \in Ids, r # f.id
        PROVE  /\ \A i, j \in DOMAIN v[r] : i < j => MayFollow(v[r][i], v[r][j])
               /\ \A i \in DOMAIN v[r], j \in DOMAIN rest :
                     rest[j].id = r => MayFollow(v[r][i], rest[j].body)
    BY <1>2, <1>3, <1>7 DEF InOrder
  <1>8. ASSUME NEW i \in DOMAIN v[f.id], NEW j \in DOMAIN v[f.id], i < j
        PROVE  MayFollow(v[f.id][i], v[f.id][j])
    <2>1. i \in DOMAIN w[f.id]
      BY <1>5, <1>8
    <2>2. CASE j = Len(w[f.id]) + 1
      BY <1>1, <1>5, <2>1, <2>2 DEF InOrder
    <2>3. CASE j \in DOMAIN w[f.id]
      BY <1>1, <1>5, <1>8, <2>1, <2>3 DEF InOrder
    <2> QED
      BY <1>5, <2>2, <2>3
  <1>9. ASSUME NEW i \in DOMAIN v[f.id], NEW j \in DOMAIN rest, rest[j].id = f.id
        PROVE  MayFollow(v[f.id][i], rest[j].body)
    <2>1. CASE i = Len(w[f.id]) + 1
      <3>1. j + 1 \in DOMAIN pl /\ 1 < j + 1 /\ rest[j] = pl[j + 1]
        BY <1>2
      <3> QED
        BY <1>1, <1>5, <1>9, <2>1, <3>1 DEF InOrder
    <2>2. CASE i \in DOMAIN w[f.id]
      BY <1>1, <1>2, <1>5, <1>9, <2>2 DEF InOrder
    <2> QED
      BY <1>5, <2>1, <2>2
  <1>10. ASSUME NEW r \in Ids
         PROVE  /\ \A i, j \in DOMAIN v[r] : i < j => MayFollow(v[r][i], v[r][j])
                /\ \A i, j \in DOMAIN rest :
                      i < j /\ rest[i].id = r /\ rest[j].id = r
                      => MayFollow(rest[i].body, rest[j].body)
                /\ \A i \in DOMAIN v[r], j \in DOMAIN rest :
                      rest[j].id = r => MayFollow(v[r][i], rest[j].body)
    <2>1. CASE r = f.id
      BY <1>6, <1>8, <1>9, <2>1
    <2>2. CASE r # f.id
      BY <1>6, <1>7, <2>2
    <2> QED
      BY <2>1, <2>2
  <1>11. InOrder(v, rest)
    BY <1>10 DEF InOrder
  <1> QED
    BY <1>11 DEF v, rest

\* Sending the first frame changes neither which calls have spoken nor which have
\* their Close.
LEMMA FramesForward ==
    ASSUME NEW w \in [Ids -> Seq(P!Bodies)], NEW pl \in Seq(Frame), pl # <<>>, NEW r \in Ids,
           NEW v, v = [w EXCEPT ![Head(pl).id] = Append(@, Head(pl).body)]
    PROVE  /\ SpokenIn(v, Tail(pl), r) => SpokenIn(w, pl, r)
           /\ ClosedIn(w, pl, r) <=> ClosedIn(v, Tail(pl), r)
  <1> DEFINE f == Head(pl)
  <1>1. f \in Frame /\ f.id \in Ids /\ f = pl[1] /\ 1 \in DOMAIN pl
    BY FirstFrame
  <1>2. \A i \in DOMAIN Tail(pl) : i + 1 \in DOMAIN pl /\ Tail(pl)[i] = pl[i + 1]
    OBVIOUS
  <1>3. r # f.id => v[r] = w[r]
    OBVIOUS
  <1>4. r = f.id => v[r] = Append(w[r], f.body) /\ w[r] \in Seq(P!Bodies)
    BY <1>1
  <1>5. SpokenIn(v, Tail(pl), r) => SpokenIn(w, pl, r)
    BY <1>1, <1>2, <1>3 DEF SpokenIn
  <1>6. ClosedIn(v, Tail(pl), r) => ClosedIn(w, pl, r)
    BY ClosedForward
  <1>7. ASSUME NEW i \in DOMAIN w[r], w[r][i] \in Statuses
        PROVE  ClosedIn(v, Tail(pl), r)
    <2>1. i \in DOMAIN v[r] /\ v[r][i] = w[r][i]
      BY <1>3, <1>4
    <2> QED
      BY <1>7, <2>1 DEF ClosedIn
  <1>8. ASSUME NEW i \in DOMAIN pl, IsClose(pl[i], r)
        PROVE  ClosedIn(v, Tail(pl), r)
    <2>1. CASE i = 1
      <3>1. r = f.id /\ f.body \in Statuses
        BY <1>1, <1>8, <2>1 DEF IsClose
      <3>2. /\ Len(w[r]) + 1 \in DOMAIN v[r]
            /\ v[r][Len(w[r]) + 1] = f.body
        BY <1>4, <3>1
      <3> QED
        BY <3>1, <3>2 DEF ClosedIn
    <2>2. CASE i # 1
      <3>1. i - 1 \in DOMAIN Tail(pl) /\ Tail(pl)[i - 1] = pl[i]
        BY <2>2
      <3> QED
        BY <1>8, <3>1 DEF ClosedIn
    <2> QED
      BY <2>1, <2>2
  <1> QED
    BY <1>5, <1>6, <1>7, <1>8 DEF ClosedIn

-----------------------------------------------------------------------------
(* What every step does, whatever it does to frames.                       *)

\* Only the run loop writes its variables and the history of the client.
LEMMA LoopOwnsClient ==
    ASSUME NEW r \in Ids, TaskStep(r) \/ CloserStep(r) \/ Writer
    PROVE  UNCHANGED loopVars
  <1>1. CASE HandlerStep(r)
    BY <1>1
    DEF HandlerStep, HandlerRecv, HandlerEof, HandlerDropRx, HandlerSend, HandlerSendDone,
        HandlerDropSend, HandlerReturn, HandlerPanic, SendClose
  <1>2. CASE ReportDone(r) \/ TaskEnd(r) \/ TaskAborted(r)
    BY <1>2 DEF ReportDone, TaskEnd, TaskAborted
  <1>3. CASE CloserStep(r)
    BY <1>3 DEF CloserStep, CloserSend, CloserEnd
  <1>4. CASE Writer
    BY <1>4 DEF Writer, WriterTake, WriterSend, WriterFail, WriterFinish
  <1> QED
    BY <1>1, <1>2, <1>3, <1>4 DEF TaskStep

\* A kill leaves a Close owed to a call that has a task.
LEMMA KillOwes ==
    ASSUME TypeOK, SessionInv, OnlyRefusals', NEW r \in Ids
    PROVE  ~Kill(r)
  <1> SUFFICES ASSUME Kill(r)
               PROVE  FALSE
    OBVIOUS
  <1>1. closer'[r] # "none" /\ task' = task /\ r \in LiveSessions
    BY DEF Kill, TypeOK, LiveSessions
  <1>2. task[r] # "unspawned"
    BY <1>1 DEF SessionInv, NoLeakedSession, DoneReported, Unfinished
  <1> QED
    BY <1>1, <1>2 DEF OnlyRefusals

\* No message of a conforming client kills its call.
LEMMA NoKill ==
    ASSUME Conforming, ClientHeard, NEW r \in Ids
    PROVE  ~Kill(r)
  BY DEF Kill, ClientHeard, P!MaySend

\* What a call is remembered for is not forgotten: no step takes back a task, a Close
\* owed, an answer, or the failure of the writer, and a response is fresh only once.
Moves ==
    /\ writer = "gone" => writer' = "gone"
    /\ \A r \in Ids :
        /\ task[r] # "unspawned" => task'[r] # "unspawned"
        /\ closer[r] # "none" => closer'[r] # "none"
        /\ Answering(r) => Answering(r)'
        /\ ~HandlersDropSends /\ resp'[r] = "fresh" /\ ~sending'[r]
           => (resp[r] = "fresh" /\ ~sending[r]) \/ (task[r] = "unspawned" /\ closer[r] = "none")
        /\ resp'[r] # "none" => resp[r] # "none" \/ task'[r] # "unspawned"

LEMMA MovesStep ==
    ASSUME TypeOK, SessionInv, OnlyRefusals', [Next]_vars
    PROVE  Moves
  <1>1. CASE UNCHANGED <<task, closer, resp, sending, writer>>
    BY <1>1 DEF Moves, Answering
  <1>2. ASSUME NEW r \in Ids, NEW path \in Paths, NEW single \in BOOLEAN,
               BeginRefused(r, path, single) \/ BeginAccepted(r, path, single)
        PROVE  Moves
    <2>1. task[r] = "unspawned" /\ closer[r] = "none"
      BY <1>2, BoundsAssumption
      DEF BeginRefused, RefusedId, BeginAccepted, StaleId, SessionInv, FreshIds, TypeOK, Ids
    <2>2. Refusal(path) # "none"
      BY DEF Refusal
    <2>3. CASE BeginRefused(r, path, single)
      BY <2>1, <2>2, <2>3 DEF BeginRefused, RefusedId, Moves, Answering, taskVars, streamVars, writerVars, TypeOK
    <2>4. CASE BeginAccepted(r, path, single)
      BY <2>1, <2>4 DEF BeginAccepted, Moves, Answering, writerVars, TypeOK
    <2> QED
      BY <1>2, <2>3, <2>4
  <1>3. CASE RunLoop
    BY <1>1, <1>2, <1>3, KillOwes
    DEF RunLoop, Packet, BeginViolation, Message, DoneSending, Cancel, LoopDone, InboundClosed,
        WriterGone, Stop, taskVars, streamVars, writerVars
  <1>4. ASSUME NEW r \in Ids, HandlerStep(r)
        PROVE  Moves
    <2>1. CASE HandlerRecv(r) \/ HandlerEof(r) \/ HandlerDropRx(r)
      BY <1>1, <2>1 DEF HandlerRecv, HandlerEof, HandlerDropRx, taskVars, writerVars
    <2>2. CASE HandlerSendDone(r) \/ HandlerDropSend(r) \/ \E body \in {"headers", "message"} : HandlerSend(r, body)
      <3>1. CASE HandlerSendDone(r) \/ HandlerDropSend(r)
        BY <3>1 DEF HandlerSendDone, HandlerDropSend, Handling, Opened, Moves, Answering,
                    taskVars, writerVars, TypeOK
      <3>2. ASSUME NEW body \in {"headers", "message"}, HandlerSend(r, body)
            PROVE  Moves
        <4>1. /\ task' = task /\ closer' = closer /\ writer' = writer
              /\ task[r] = "handler" /\ resp[r] # "none" /\ \E sends : sending' = [sending EXCEPT ![r] = sends]
              /\ resp' = [resp EXCEPT ![r] = IF sending'[r] THEN @ ELSE "opened"]
          BY <3>2 DEF HandlerSend, Handling, Opened, taskVars, writerVars
        <4> QED
          BY <4>1 DEF Moves, Answering, TypeOK
      <3> QED
        BY <2>2, <3>1, <3>2
    <2>3. ASSUME NEW status, Handling(r), SendClose(r, status)
          PROVE  Moves
      BY <2>3 DEF Handling, SendClose, DropStreams, Moves, Answering, writerVars, TypeOK
    <2> QED
      BY <1>4, <2>1, <2>2, <2>3 DEF HandlerStep, HandlerReturn, HandlerPanic
  <1>5. ASSUME NEW r \in Ids, ReportDone(r) \/ TaskEnd(r)
        PROVE  Moves
    BY <1>5 DEF ReportDone, TaskEnd, Moves, Answering, streamVars, writerVars, TypeOK
  <1>6. ASSUME NEW r \in Ids, TaskAborted(r)
        PROVE  Moves
    BY <1>6 DEF TaskAborted, DropStreams, Moves, Answering, writerVars, TypeOK
  <1>7. ASSUME NEW r \in Ids, CloserStep(r)
        PROVE  Moves
    BY <1>7
    DEF CloserStep, CloserSend, CloserEnd, Statuses, Moves, Answering, taskVars, streamVars,
        writerVars, TypeOK
  <1>8. CASE Writer
    BY <1>8
    DEF Writer, WriterTake, WriterSend, WriterFail, WriterFinish, Moves, Answering, taskVars,
        streamVars
  <1>9. CASE UNCHANGED vars
    BY <1>1, <1>9 DEF vars, taskVars, streamVars, writerVars
  <1> QED
    BY <1>3, <1>4, <1>5, <1>6, <1>7, <1>8, <1>9 DEF Next, TaskStep

\* The loop's picture of a conforming client stays true.
LEMMA ClientHeardStep ==
    ASSUME Conforming, TypeOK, SessionInv, ClientHeard, [Next]_vars
    PROVE  ClientHeard'
  <1>2. ASSUME NEW r \in Ids, NEW path \in Paths, NEW single \in BOOLEAN,
               BeginRefused(r, path, single) \/ BeginAccepted(r, path, single)
        PROVE  ClientHeard'
    <2>1. task[r] = "unspawned" /\ closer[r] = "none" /\ session[r] = "absent"
      BY <1>2, BoundsAssumption
      DEF BeginRefused, RefusedId, BeginAccepted, StaleId, SessionInv, FreshIds, TypeOK, Ids
    <2>2. client' = [client EXCEPT ![r] = IF single THEN "halfclosed" ELSE "streaming"]
      BY <1>2 DEF BeginRefused, RefusedId, BeginAccepted, Sent, P!BeginAs
    <2>3. CASE BeginRefused(r, path, single)
      BY <2>1, <2>2, <2>3 DEF BeginRefused, RefusedId, ClientHeard, OnlyRefusals, taskVars, TypeOK, P!TypeOK
    <2>4. CASE BeginAccepted(r, path, single)
      <3>1. OnlyRefusals'
        BY <2>1, <2>4 DEF BeginAccepted, ClientHeard, OnlyRefusals, TypeOK
      <3>2. \A q \in Ids : q # r => /\ client'[q] = client[q] /\ session'[q] = session[q]
                                   /\ task'[q] = task[q] /\ closer'[q] = closer[q]
        BY <2>2, <2>4 DEF BeginAccepted, TypeOK, P!TypeOK
      <3>3. client'[r] = IF single THEN "halfclosed" ELSE "streaming"
        BY <2>2 DEF TypeOK, P!TypeOK
      <3>4. session'[r] = "half" => single
        BY <2>4 DEF BeginAccepted, ClientTx, Accepted, TypeOK
      <3> QED
        BY <3>1, <3>2, <3>3, <3>4 DEF ClientHeard
    <2> QED
      BY <1>2, <2>3, <2>4
  <1>3. ASSUME NEW r \in Ids, DoneSending(r) \/ Cancel(r)
        PROVE  ClientHeard'
    <2>1. CASE DoneSending(r)
      BY <2>1
      DEF DoneSending, Sent, P!Finish, P!MaySend, ClientHeard, OnlyRefusals, taskVars, TypeOK, P!TypeOK
    <2>2. CASE Cancel(r)
      BY <2>2 DEF Cancel, Sent, P!Abort, P!MayCancel, ClientHeard, OnlyRefusals, TypeOK, P!TypeOK
    <2> QED
      BY <1>3, <2>1, <2>2
  <1>4. CASE Stop
    BY <1>4 DEF Stop, ClientHeard, OnlyRefusals
  <1>5. CASE LoopDone
    BY <1>5 DEF LoopDone, ClientHeard, OnlyRefusals, taskVars, TypeOK
  <1>6. ASSUME NEW r \in Ids, Message(r)
        PROVE  ClientHeard'
    BY <1>6 DEF Message, ClientHeard, OnlyRefusals, loopVars, taskVars
  <1>7. CASE RunLoop
    BY <1>2, <1>3, <1>4, <1>5, <1>6, <1>7, NoKill
    DEF RunLoop, Packet, BeginViolation, InboundClosed, WriterGone
  <1>8. ASSUME NEW q \in Ids, TaskStep(q) \/ CloserStep(q) \/ Writer \/ UNCHANGED vars
        PROVE  ClientHeard'
    <2>1. UNCHANGED <<session, client>>
      BY <1>8, LoopOwnsClient DEF loopVars, vars
    <2>2. \A r \in Ids : task'[r] # "unspawned" => task[r] # "unspawned"
      <3>1. CASE ReportDone(q)
        BY <3>1 DEF ReportDone, TypeOK
      <3>2. CASE ~ReportDone(q)
        BY <1>8, <3>2, QuietSteps DEF Quiet, IsLive
      <3> QED
        BY <3>1, <3>2
    <2>3. \A r \in Ids : closer'[r] # "none" => closer[r] # "none"
      <3>1. CASE ReportDone(q)
        BY <3>1 DEF ReportDone
      <3>2. CASE ~ReportDone(q)
        BY <1>8, <3>2, QuietSteps DEF Quiet
      <3> QED
        BY <3>1, <3>2
    <2> QED
      BY <2>1, <2>2, <2>3 DEF ClientHeard, OnlyRefusals
  <1>9. CASE Writer \/ UNCHANGED vars
    BY <1>9
    DEF Writer, WriterTake, WriterSend, WriterFail, WriterFinish, vars, loopVars, taskVars, ClientHeard, OnlyRefusals
  <1> QED
    BY <1>7, <1>8, <1>9 DEF Next

\* The writer ends last, and its end is that of the funnel.
LEMMA WriterWaitsStep ==
    ASSUME TypeOK, WriterWaits, [Next]_vars
    PROVE  WriterWaits'
  <1>1. CASE writer = "finished"
    <2>1. loop = "stopped" /\ \A r \in Ids : ~IsLive(r) /\ ~CloserLive(r)
      BY <1>1 DEF WriterWaits, SendersGone
    <2>2. ~RunLoop
      BY <2>1
      DEF RunLoop, Packet, BeginViolation, BeginRefused, BeginAccepted, Message, Kill, DoneSending,
          Cancel, LoopDone, InboundClosed, WriterGone
    <2>3. ASSUME NEW r \in Ids PROVE ~TaskStep(r)
      BY <2>1
      DEF TaskStep, HandlerStep, HandlerRecv, HandlerEof, HandlerDropRx, HandlerSend,
          HandlerSendDone, HandlerDropSend, HandlerReturn, HandlerPanic, Handling, ReportDone,
          TaskEnd, TaskAborted, IsLive
    <2>4. ASSUME NEW r \in Ids PROVE ~CloserStep(r)
      BY <2>1 DEF CloserStep, CloserSend, CloserEnd, CloserLive
    <2>5. ~Writer
      BY <1>1 DEF Writer, WriterTake, WriterSend, WriterFail, WriterFinish
    <2>6. UNCHANGED vars
      BY <2>2, <2>3, <2>4, <2>5 DEF Next
    <2>7. UNCHANGED <<loop, task, closer, funnel, writer>>
      BY <2>6 DEF vars, loopVars, taskVars, writerVars
    <2> QED
      BY <2>7 DEF WriterWaits, SendersGone, IsLive, CloserLive
  <1>2. CASE writer # "finished"
    <2>1. CASE Writer
      <3>1. CASE WriterTake \/ WriterSend
        BY <3>1
        DEF WriterTake, WriterSend, Receive, WriterWaits, TypeOK, Channels
      <3>2. CASE WriterFail
        BY <3>2 DEF WriterFail, ClosedChannel, WriterWaits
      <3>3. CASE WriterFinish
        <4>1. UNCHANGED <<loop, task, closer>> /\ loop = "stopped"
          BY <3>3 DEF WriterFinish, loopVars, taskVars, TypeOK
        <4> QED
          BY <3>3, <4>1
          DEF WriterFinish, ClosedChannel, WriterWaits, SendersGone, IsLive, CloserLive
      <3> QED
        BY <2>1, <3>1, <3>2, <3>3 DEF Writer
    <2>2. CASE writer' = writer /\ funnel'.open = funnel.open
      BY <1>2, <2>2 DEF WriterWaits
    <2>3. \A s, f : funnel' = Send(funnel, FunnelBuffer, s, f) => funnel'.open = funnel.open
      BY DEF Send, TypeOK, Channels
    <2>4. ASSUME NEW r \in Ids, TaskStep(r) \/ CloserStep(r)
          PROVE  writer' = writer /\ funnel'.open = funnel.open
      BY <2>3, <2>4
      DEF TaskStep, HandlerStep, HandlerRecv, HandlerEof, HandlerDropRx, HandlerSend,
          HandlerSendDone, HandlerDropSend, HandlerReturn, HandlerPanic, SendClose, ReportDone,
          TaskEnd, TaskAborted, CloserStep, CloserSend, CloserEnd, writerVars
    <2>5. CASE RunLoop \/ UNCHANGED vars
      <3>1. UNCHANGED <<funnel, writer>>
        BY <2>5
        DEF RunLoop, Packet, BeginViolation, BeginRefused, BeginAccepted, Message, Kill, DoneSending,
            Cancel, LoopDone, InboundClosed, WriterGone, Stop, writerVars, vars
      <3> QED
        BY <2>2, <3>1
    <2> QED
      BY <2>1, <2>2, <2>4, <2>5 DEF Next
  <1> QED
    BY <1>1, <1>2

-----------------------------------------------------------------------------
(* What a step does to frames.                                             *)

FramesInv == FramesOwned /\ FramesInOrder /\ Answered

\* A call that answers and is not dropped was answering before, or is among S.
NewlyAnswering(S) ==
    \A r \in Ids :
        writer' # "gone" /\ Answering(r)' /\ task'[r] # "dropped"
        => (Answering(r) /\ task[r] # "dropped") \/ r \in S

\* Nothing new is said.
LEMMA NothingSaid ==
    ASSUME Moves, FramesInv, NewlyAnswering({}),
           \A r \in Ids : Spoken(r)' => Spoken(r),
           \A r \in Ids : ClosedFor(r)' => ClosedFor(r),
           writer' # "gone" => \A r \in Ids : ClosedFor(r) => ClosedFor(r)'
    PROVE  FramesOwned' /\ Answered'
  <1>1. FramesOwned'
    BY DEF Moves, FramesInv, FramesOwned
  <1>2. Answered'
    BY DEF Moves, FramesInv, Answered, NewlyAnswering
  <1> QED
    BY <1>1, <1>2

LEMMA StillAnswers ==
    ASSUME Moves, FramesInv, NewlyAnswering({}), Pipeline' = Pipeline, wire' = wire
    PROVE  FramesInv'
  <1>1. \A r \in Ids : (Spoken(r)' <=> Spoken(r)) /\ (ClosedFor(r)' <=> ClosedFor(r))
    BY DEF Spoken, ClosedFor
  <1>2. FramesInOrder'
    BY DEF FramesInv, FramesInOrder
  <1> QED
    BY <1>1, <1>2, NothingSaid DEF FramesInv

\* A frame joins the funnel.
LEMMA FrameJoins ==
    ASSUME TypeOK, Moves, FramesInv, NEW f \in Frame,
           funnel'.queue = Append(funnel.queue, f), UNCHANGED <<held, wire, writer>>,
           ~ClosedFor(f.id),
           f.body = "headers" => HandlersDropSends \/ ~Spoken(f.id),
           task'[f.id] # "unspawned" \/ closer'[f.id] # "none",
           f.body \in Statuses => Answering(f.id)',
           HandlersDropSends \/ resp'[f.id] # "fresh" \/ sending'[f.id],
           NewlyAnswering(IF f.body \in Statuses THEN {f.id} ELSE {})
    PROVE  FramesInv'
  <1>1. Pipeline' = Append(Pipeline, f) /\ Pipeline \in Seq(Frame)
    BY PipelineType DEF Pipeline
  <1>2. /\ DOMAIN Append(Pipeline, f) = 1..(Len(Pipeline) + 1) /\ DOMAIN Pipeline = 1..Len(Pipeline)
        /\ Len(Pipeline) \in Nat
        /\ Append(Pipeline, f)[Len(Pipeline) + 1] = f
        /\ \A i \in DOMAIN Pipeline : Append(Pipeline, f)[i] = Pipeline[i]
    BY <1>1
  <1>3. ASSUME NEW r \in Ids
        PROVE  /\ Spoken(r)' => Spoken(r) \/ r = f.id
               /\ ClosedFor(r)' <=> ClosedFor(r) \/ (r = f.id /\ f.body \in Statuses)
    <2>1. Spoken(r)' => Spoken(r) \/ r = f.id
      BY <1>1, <1>2 DEF Spoken
    <2>2. ClosedFor(r)' => ClosedFor(r) \/ (r = f.id /\ f.body \in Statuses)
      BY <1>1, <1>2 DEF ClosedFor, IsClose
    <2>3. ClosedFor(r) \/ (r = f.id /\ f.body \in Statuses) => ClosedFor(r)'
      <3>1. CASE \E i \in DOMAIN wire[r] : wire[r][i] \in Statuses
        BY <3>1 DEF ClosedFor
      <3>2. ASSUME NEW i \in DOMAIN Pipeline, IsClose(Pipeline[i], r)
            PROVE  ClosedFor(r)'
        <4>1. i \in DOMAIN Append(Pipeline, f) /\ Append(Pipeline, f)[i] = Pipeline[i]
          BY <1>2
        <4> QED
          BY <1>1, <3>2, <4>1 DEF ClosedFor
      <3>3. CASE r = f.id /\ f.body \in Statuses
        <4>1. Len(Pipeline) + 1 \in DOMAIN Append(Pipeline, f)
          BY <1>2
        <4> QED
          BY <1>1, <1>2, <3>3, <4>1 DEF ClosedFor, IsClose
      <3> QED
        BY <3>1, <3>2, <3>3 DEF ClosedFor
    <2> QED
      BY <2>1, <2>2, <2>3
  <1>4. FramesOwned'
    BY <1>3 DEF Moves, FramesInv, FramesOwned
  <1>5. Answered'
    BY <1>3 DEF Moves, FramesInv, Answered, NewlyAnswering
  <1>6. InOrder(wire, Append(Pipeline, f))
    <2>1. InOrder(wire, Pipeline)
      BY DEF FramesInv, FramesInOrder, InOrder
    <2>2. ~ClosedIn(wire, Pipeline, f.id)
      BY DEF ClosedIn, ClosedFor
    <2>3. f.body = "headers" => HandlersDropSends \/ ~SpokenIn(wire, Pipeline, f.id)
      BY DEF Spoken, SpokenIn
    <2> QED
      BY <1>1, <2>1, <2>2, <2>3, PipelineType, InOrderAppend
  <1>7. FramesInOrder'
    BY <1>1, <1>6 DEF FramesInOrder, InOrder
  <1> QED
    BY <1>4, <1>5, <1>7 DEF FramesInv

\* The writer passes frames on one by one, or loses them all.
LEMMA WriterFrames ==
    ASSUME TypeOK, Moves, Len(held) <= 1, FramesInv, Writer
    PROVE  Len(held') <= 1 /\ FramesInv'
  <1>1. NewlyAnswering({})
    BY DEF Writer, WriterTake, WriterSend, WriterFail, WriterFinish, NewlyAnswering, Answering, taskVars
  <1>2. CASE WriterTake
    <2>1. Pipeline' = Pipeline
      BY <1>2, PipelineType DEF WriterTake, Receive, Pipeline
    <2>2. Len(held') <= 1 /\ wire' = wire
      BY <1>2 DEF WriterTake
    <2> QED
      BY <1>1, <2>1, <2>2, StillAnswers
  <1>3. CASE WriterSend
    <2>1. /\ held \in Seq(Frame) /\ held # <<>> /\ funnel.queue \in Seq(Frame)
          /\ held' = <<>> /\ funnel' = funnel
      BY <1>3, PipelineType DEF WriterSend
    <2>2. Pipeline # <<>> /\ Head(Pipeline) = Head(held) /\ Pipeline' = Tail(Pipeline)
      <3>1. Pipeline' = funnel.queue
        BY <2>1 DEF Pipeline
      <3> QED
        BY <2>1, <3>1, HeldFirst DEF Pipeline
    <2>3. wire' = [wire EXCEPT ![Head(Pipeline).id] = Append(@, Head(Pipeline).body)]
      BY <1>3, <2>2 DEF WriterSend
    <2>4. ASSUME NEW r \in Ids
          PROVE  (Spoken(r)' => Spoken(r)) /\ (ClosedFor(r)' <=> ClosedFor(r))
      <3>1. /\ SpokenIn(wire', Tail(Pipeline), r) => SpokenIn(wire, Pipeline, r)
            /\ ClosedIn(wire, Pipeline, r) <=> ClosedIn(wire', Tail(Pipeline), r)
        BY <2>2, <2>3, PipelineType, FramesForward
      <3>2. /\ Spoken(r)' <=> SpokenIn(wire', Tail(Pipeline), r)
            /\ ClosedFor(r)' <=> ClosedIn(wire', Tail(Pipeline), r)
        BY <2>2 DEF Spoken, SpokenIn, ClosedFor, ClosedIn
      <3>3. (Spoken(r) <=> SpokenIn(wire, Pipeline, r)) /\ (ClosedFor(r) <=> ClosedIn(wire, Pipeline, r))
        BY DEF Spoken, SpokenIn, ClosedFor, ClosedIn
      <3> QED
        BY <3>1, <3>2, <3>3
    <2>5. InOrder(wire, Pipeline)
      BY DEF FramesInv, FramesInOrder, InOrder
    <2>6. FramesInOrder'
      BY <2>2, <2>3, <2>5, PipelineType, InOrderForward DEF FramesInOrder, InOrder
    <2> QED
      BY <1>1, <2>1, <2>4, <2>6, NothingSaid DEF FramesInv
  <1>4. CASE WriterFail
    <2>1. Pipeline' = <<>> /\ held' = <<>> /\ wire' = wire /\ writer' = "gone"
      BY <1>4 DEF WriterFail, ClosedChannel, Pipeline
    <2>2. FramesInOrder'
      BY <2>1 DEF FramesInv, FramesInOrder, InOrder
    <2>3. \A r \in Ids : (Spoken(r)' => Spoken(r)) /\ (ClosedFor(r)' => ClosedFor(r))
      BY <2>1 DEF Spoken, ClosedFor
    <2> QED
      BY <1>1, <2>1, <2>2, <2>3, NothingSaid DEF FramesInv
  <1>5. CASE WriterFinish
    <2>1. Pipeline' = Pipeline /\ wire' = wire /\ held' = held
      BY <1>5 DEF WriterFinish, ClosedChannel, Pipeline
    <2> QED
      BY <1>1, <2>1, StillAnswers
  <1> QED
    BY <1>2, <1>3, <1>4, <1>5 DEF Writer

\* A handler speaks, or closes its call; a Close sender closes one that was refused.
LEMMA SenderFrames ==
    ASSUME TypeOK, SessionInv, Moves, OnlyRefusals, WriterWaits, FramesInv,
           NEW r \in Ids, TaskStep(r) \/ CloserStep(r)
    PROVE  held' = held /\ FramesInv'
  <1>1. CASE UNCHANGED <<funnel, held, wire>> /\ NewlyAnswering({})
    BY <1>1, StillAnswers DEF Pipeline
  <1>2. ASSUME NEW body \in {"headers", "message"}, HandlerSend(r, body)
        PROVE  held' = held /\ FramesInv'
    <2> DEFINE f == [id |-> r, body |-> body]
    <2>1. f \in Frame /\ body \notin Statuses
      BY FrameType DEF Statuses
    <2>2. funnel'.queue = Append(funnel.queue, f) /\ UNCHANGED <<held, wire, writer, task, closer>>
      BY <1>2 DEF HandlerSend, Send, writerVars, taskVars
    <2>3. task[r] = "handler" /\ closer[r] = "none"
      BY <1>2 DEF HandlerSend, Handling, OnlyRefusals
    <2>4. ~ClosedFor(r)
      BY <2>3 DEF FramesInv, FramesOwned, Answering
    <2>5. body = "headers" => HandlersDropSends \/ ~Spoken(r)
      BY <1>2 DEF HandlerSend, FramesInv, FramesOwned
    <2>6. resp'[r] # "fresh" \/ sending'[r]
      BY <1>2 DEF HandlerSend, Opened, TypeOK
    <2>7. NewlyAnswering({})
      BY <2>2 DEF NewlyAnswering, Answering, Moves
    <2> QED
      BY <2>1, <2>2, <2>3, <2>4, <2>5, <2>6, <2>7, FrameJoins
  <1>3. ASSUME NEW status \in Statuses, Handling(r), SendClose(r, status)
        PROVE  held' = held /\ FramesInv'
    <2> DEFINE f == [id |-> r, body |-> status]
    <2>1. f \in Frame /\ status # "headers"
      BY FrameType DEF Statuses
    <2>2. task[r] = "handler" /\ closer[r] = "none" /\ task' = [task EXCEPT ![r] = "closing"]
      BY <1>3 DEF Handling, SendClose, OnlyRefusals
    <2>3. UNCHANGED <<held, wire, writer, closer>>
      BY <1>3 DEF SendClose, writerVars
    <2>4. CASE funnel.open
      <3>1. funnel'.queue = Append(funnel.queue, f)
        BY <1>3, <2>4 DEF SendClose, Send
      <3>2. ~ClosedFor(r)
        BY <2>2 DEF FramesInv, FramesOwned, Answering
      <3>3. resp'[r] # "fresh" /\ task'[r] = "closing" /\ Answering(r)'
        BY <1>3, <2>2 DEF SendClose, DropStreams, Answering, TypeOK
      <3>4. NewlyAnswering({r})
        BY <2>2, <2>3 DEF NewlyAnswering, Answering, TypeOK
      <3> QED
        BY <2>1, <2>3, <3>1, <3>2, <3>3, <3>4, FrameJoins
    <2>5. CASE ~funnel.open
      <3>1. funnel' = funnel
        BY <1>3, <2>5 DEF SendClose, Send
      <3>2. writer = "gone"
        BY <2>2, <2>5 DEF WriterWaits, SendersGone, IsLive, TypeOK
      <3>3. NewlyAnswering({})
        BY <2>3, <3>2 DEF NewlyAnswering
      <3> QED
        BY <2>3, <3>1, <3>3, StillAnswers DEF Pipeline
    <2> QED
      BY <2>4, <2>5
  <1>4. CASE CloserSend(r)
    <2> DEFINE f == [id |-> r, body |-> closer[r]]
    <2>1. f \in Frame /\ closer[r] # "headers" /\ closer[r] \in Statuses
      BY <1>4, FrameType DEF CloserSend, Statuses
    <2>2. task[r] = "unspawned" /\ closer' = [closer EXCEPT ![r] = "flushing"]
      BY <1>4, <2>1 DEF CloserSend, OnlyRefusals, Statuses
    <2>3. UNCHANGED <<held, wire, writer, task, resp, sending>>
      BY <1>4 DEF CloserSend, writerVars, taskVars, streamVars
    <2>4. CASE funnel.open
      <3>1. funnel'.queue = Append(funnel.queue, f)
        BY <1>4, <2>4 DEF CloserSend, Send
      <3>2. ~ClosedFor(r)
        BY <2>1, <2>2 DEF FramesInv, FramesOwned, Answering, Statuses
      <3>3. closer'[r] = "flushing" /\ Answering(r)'
        BY <2>2 DEF Answering, TypeOK
      <3>4. NewlyAnswering({r})
        BY <2>2, <2>3 DEF NewlyAnswering, Answering, TypeOK
      <3>5. HandlersDropSends \/ resp'[r] # "fresh" \/ sending'[r]
        BY <2>2, <2>3 DEF FramesInv, FramesOwned
      <3> QED
        BY <2>1, <2>3, <3>1, <3>2, <3>3, <3>4, <3>5, FrameJoins
    <2>5. CASE ~funnel.open
      <3>1. funnel' = funnel
        BY <1>4, <2>5 DEF CloserSend, Send
      <3>2. writer = "gone"
        BY <2>1, <2>5 DEF WriterWaits, SendersGone, CloserLive, TypeOK
      <3>3. NewlyAnswering({})
        BY <2>3, <3>2 DEF NewlyAnswering
      <3> QED
        BY <2>3, <3>1, <3>3, StillAnswers DEF Pipeline
    <2> QED
      BY <2>4, <2>5
  <1>5. CASE CloserStep(r)
    <2>1. CASE CloserEnd(r)
      BY <1>1, <2>1 DEF CloserEnd, NewlyAnswering, Answering, taskVars, writerVars, TypeOK
    <2> QED
      BY <1>4, <1>5, <2>1, <1>1 DEF CloserStep
  <1>6. CASE TaskStep(r)
    <2>1. CASE \E body \in {"headers", "message"} : HandlerSend(r, body)
      BY <1>2, <2>1
    <2>2. CASE HandlerPanic(r) \/ \E status \in HandlerStatuses : HandlerReturn(r, status)
      BY <1>3, <2>2, ServiceAssumption DEF HandlerPanic, HandlerReturn, Statuses
    <2>3. CASE HandlerRecv(r) \/ HandlerEof(r) \/ HandlerDropRx(r) \/ HandlerSendDone(r) \/ HandlerDropSend(r)
      <3>1. UNCHANGED <<funnel, held, wire, writer, task, closer>>
        BY <2>3
        DEF HandlerRecv, HandlerEof, HandlerDropRx, HandlerSendDone, HandlerDropSend, taskVars, writerVars
      <3> QED
        BY <1>1, <3>1 DEF NewlyAnswering, Answering
    <2>4. CASE ReportDone(r) \/ TaskEnd(r) \/ TaskAborted(r)
      <3>1. UNCHANGED <<funnel, held, wire, writer, closer>>
        BY <2>4 DEF ReportDone, TaskEnd, TaskAborted, writerVars
      <3>2. NewlyAnswering({})
        <4>1. CASE ReportDone(r) \/ TaskEnd(r)
          BY <3>1, <4>1 DEF ReportDone, TaskEnd, NewlyAnswering, Answering, TypeOK
        <4>2. CASE TaskAborted(r)
          BY <3>1, <4>2 DEF TaskAborted, NewlyAnswering, Answering, TypeOK
        <4> QED
          BY <2>4, <4>1, <4>2
      <3> QED
        BY <1>1, <3>1, <3>2
    <2> QED
      BY <1>6, <2>1, <2>2, <2>3, <2>4 DEF TaskStep, HandlerStep
  <1> QED
    BY <1>5, <1>6

\* The run loop moves no frame and answers no call by itself.
LEMMA LoopFrames ==
    ASSUME TypeOK, SessionInv, Moves, OnlyRefusals', FramesInv, RunLoop
    PROVE  held' = held /\ FramesInv'
  <1>1. UNCHANGED <<funnel, held, wire, writer>>
    BY DEF RunLoop, Packet, BeginViolation, BeginRefused, BeginAccepted, Message, Kill, DoneSending,
           Cancel, LoopDone, InboundClosed, WriterGone, Stop, writerVars
  <1>2. NewlyAnswering({})
    <2>1. CASE UNCHANGED <<task, closer>>
      BY <2>1 DEF NewlyAnswering, Answering
    <2>2. ASSUME NEW q \in Ids, NEW path \in Paths, NEW single \in BOOLEAN,
                 BeginRefused(q, path, single) \/ BeginAccepted(q, path, single)
          PROVE  NewlyAnswering({})
      <3>1. Refusal(path) \notin {"flushing", "ended"}
        BY DEF Refusal
      <3>2. task[q] = "unspawned"
        BY <2>2, BoundsAssumption
        DEF BeginRefused, RefusedId, BeginAccepted, StaleId, SessionInv, FreshIds, TypeOK, Ids
      <3> QED
        BY <2>2, <3>1, <3>2 DEF BeginRefused, RefusedId, BeginAccepted, NewlyAnswering, Answering, taskVars, TypeOK
    <2> QED
      BY <2>1, <2>2, KillOwes
      DEF RunLoop, Packet, BeginViolation, Message, DoneSending, Cancel, LoopDone, InboundClosed,
          WriterGone, Stop, taskVars
  <1> QED
    BY <1>1, <1>2, StillAnswers DEF Pipeline

LEMMA AnswerStep ==
    ASSUME TypeOK, SessionInv, OnlyRefusals, OnlyRefusals', AnswerInv, [Next]_vars
    PROVE  AnswerInv'
  <1>1. Moves /\ WriterWaits'
    BY MovesStep, WriterWaitsStep DEF AnswerInv
  <1>2. FramesInv
    BY DEF AnswerInv, FramesInv
  <1>3. CASE RunLoop
    BY <1>1, <1>2, <1>3, LoopFrames DEF AnswerInv, FramesInv
  <1>4. ASSUME NEW r \in Ids, TaskStep(r) \/ CloserStep(r)
        PROVE  AnswerInv'
    BY <1>1, <1>2, <1>4, SenderFrames DEF AnswerInv, FramesInv
  <1>5. CASE Writer
    BY <1>1, <1>2, <1>5, WriterFrames DEF AnswerInv, FramesInv
  <1>6. CASE UNCHANGED vars
    <2>1. UNCHANGED <<funnel, held, wire, writer, task, closer>>
      BY <1>6 DEF vars, writerVars, taskVars
    <2>2. NewlyAnswering({})
      BY <2>1 DEF NewlyAnswering, Answering
    <2> QED
      BY <1>1, <1>2, <2>1, <2>2, StillAnswers DEF AnswerInv, FramesInv, Pipeline
  <1> QED
    BY <1>3, <1>4, <1>5, <1>6 DEF Next

\* The inductive invariants behind the theorems of this module.
LEMMA AnswerInvariant == Spec /\ []OnlyRefusals => []AnswerInv
  <1>1. Init => AnswerInv
    BY DEF Init, P!Init, AnswerInv, FramesOwned, Spoken, ClosedFor, Answering, FramesInOrder,
           InOrder, WriterWaits, Answered, Pipeline, EmptyChannel
  <1>2. TypeOK /\ SessionInv /\ OnlyRefusals /\ OnlyRefusals' /\ AnswerInv /\ [Next]_vars => AnswerInv'
    BY AnswerStep
  <1> QED
    BY <1>1, <1>2, TypeCorrect, SessionInvariant, PTL DEF Spec

LEMMA ConformingInvariant == Conforming => (Spec => [](ClientHeard /\ OnlyRefusals /\ AnswerInv))
  <1> SUFFICES ASSUME Conforming
               PROVE  Spec => [](ClientHeard /\ OnlyRefusals /\ AnswerInv)
    OBVIOUS
  <1>1. Init => ClientHeard
    BY DEF Init, P!Init, ClientHeard, OnlyRefusals
  <1>2. TypeOK /\ SessionInv /\ ClientHeard /\ [Next]_vars => ClientHeard'
    BY ClientHeardStep
  <1>3. ClientHeard => OnlyRefusals
    BY DEF ClientHeard
  <1> QED
    BY <1>1, <1>2, <1>3, TypeCorrect, SessionInvariant, AnswerInvariant, PTL DEF Spec

-----------------------------------------------------------------------------
(* The theorems.                                                           *)

\* For any client: a call that ended or was refused has exactly one Close, delivered
\* or on its way, whatever panics, is cancelled, or finds the funnel full, on one
\* thread or many, unless outbound failed; as long as the loop kills no call.
THEOREM AnsweredUnlessKilled == Spec /\ []OnlyRefusals => []AnsweredOnce
  <1>1. ASSUME TypeOK, OnlyRefusals, AnswerInv PROVE AnsweredOnce
    <2>1. AtMostOneClose
      <3> SUFFICES ASSUME NEW r \in Ids
                   PROVE  /\ \A i, j \in DOMAIN wire[r] :
                                wire[r][i] \in Statuses /\ wire[r][j] \in Statuses => i = j
                          /\ \A i, j \in DOMAIN Pipeline :
                                IsClose(Pipeline[i], r) /\ IsClose(Pipeline[j], r) => i = j
                          /\ \A i \in DOMAIN wire[r], j \in DOMAIN Pipeline :
                                ~(wire[r][i] \in Statuses /\ IsClose(Pipeline[j], r))
        BY DEF AtMostOneClose
      <3>1. \A i, j \in DOMAIN wire[r] : i < j => wire[r][i] \notin Statuses
        BY <1>1 DEF AnswerInv, FramesInOrder, InOrder, MayFollow
      <3>2. \A i, j \in DOMAIN Pipeline :
               i < j /\ IsClose(Pipeline[i], r) => ~IsClose(Pipeline[j], r)
        BY <1>1 DEF AnswerInv, FramesInOrder, InOrder, MayFollow, IsClose
      <3>3. \A i \in DOMAIN wire[r], j \in DOMAIN Pipeline :
               ~(wire[r][i] \in Statuses /\ IsClose(Pipeline[j], r))
        BY <1>1 DEF AnswerInv, FramesInOrder, InOrder, MayFollow, IsClose
      <3>4. DOMAIN wire[r] \subseteq Nat /\ DOMAIN Pipeline \subseteq Nat
        BY <1>1, PipelineType
      <3>5. \A i, j \in Nat : i = j \/ i < j \/ j < i
        OBVIOUS
      <3> QED
        BY <3>1, <3>2, <3>3, <3>4, <3>5
    <2>2. ASSUME NEW r \in Ids, writer # "gone",
                 task[r] \in {"closing", "reporting", "ended"} \/ closer[r] \in {"flushing", "ended"}
          PROVE  ClosedFor(r)
      BY <1>1, <2>2 DEF AnswerInv, Answered, Answering, OnlyRefusals
    <2> QED
      BY <2>1, <2>2 DEF AnsweredOnce
  <1> QED
    BY <1>1, TypeCorrect, AnswerInvariant, PTL

\* And a conforming client is never killed.
THEOREM ConformingCallsAnswered == Conforming => (Spec => []AnsweredOnce)
  BY ConformingInvariant, AnsweredUnlessKilled, PTL

\* What the run loop does to the history of a conforming client is what packet.proto
\* lets a client do.
LEMMA LoopProtocol ==
    ASSUME Conforming, TypeOK, RunLoop
    PROVE  [P!Next]_<<client, wire>>
  <1>1. UNCHANGED wire
    BY DEF RunLoop, Packet, BeginViolation, BeginRefused, BeginAccepted, Message, Kill, DoneSending,
           Cancel, LoopDone, InboundClosed, WriterGone, Stop, writerVars
  <1>2. ASSUME NEW r \in Ids, P!ClientStep(r) PROVE P!Next
    BY <1>2 DEF P!Next
  <1>3. ASSUME NEW r \in Ids, NEW path \in Paths, NEW single \in BOOLEAN,
               BeginRefused(r, path, single) \/ BeginAccepted(r, path, single)
        PROVE  P!ClientStep(r)
    <2>1. P!MayBegin(r) /\ P!BeginAs(r, single)
      BY <1>3 DEF BeginRefused, RefusedId, BeginAccepted, Sent
    <2> QED
      BY <1>1, <2>1 DEF P!ClientStep
  <1>4. ASSUME NEW r \in Ids, DoneSending(r) PROVE P!ClientStep(r)
    BY <1>1, <1>4 DEF DoneSending, Sent, P!ClientStep
  <1>5. ASSUME NEW r \in Ids, Cancel(r) PROVE P!ClientStep(r)
    BY <1>1, <1>5 DEF Cancel, Sent, P!ClientStep
  <1>6. ASSUME NEW r \in Ids, Message(r) \/ Kill(r) PROVE UNCHANGED client
    BY <1>6 DEF Message, Kill, loopVars
  <1>7. CASE LoopDone \/ Stop
    BY <1>1, <1>7 DEF LoopDone, Stop
  <1> QED
    BY <1>1, <1>2, <1>3, <1>4, <1>5, <1>6, <1>7
    DEF RunLoop, Packet, BeginViolation, InboundClosed, WriterGone

\* What the writer puts onto the wire is what packet.proto lets the server say next.
LEMMA MayEmitNext ==
    ASSUME TypeOK, AnswerInv, ~HandlersDropSends, WriterSend, NEW f, f = Head(held)
    PROVE  /\ f \in Frame /\ f.id \in Ids /\ f.body \in P!Bodies
           /\ wire' = [wire EXCEPT ![f.id] = Append(@, f.body)] /\ UNCHANGED client
           /\ Spoken(f.id)
           /\ P!MayEmit(wire[f.id], f.body)
  <1>1. held \in Seq(Frame) /\ held # <<>> /\ funnel.queue \in Seq(Frame)
    BY PipelineType DEF WriterSend
  <1>2. f \in Frame /\ f.id \in Ids /\ f.body \in P!Bodies
    BY <1>1, FirstFrame DEF Frame
  <1>3. Pipeline # <<>> /\ Head(Pipeline) = f
    BY <1>1, HeldFirst DEF Pipeline, AnswerInv
  <1>4. 1 \in DOMAIN Pipeline /\ Pipeline[1] = f
    BY <1>3, PipelineType, FirstFrame
  <1>5. Spoken(f.id)
    BY <1>4 DEF Spoken
  <1>6. \A i \in DOMAIN wire[f.id] : MayFollow(wire[f.id][i], f.body)
    BY <1>2, <1>4 DEF AnswerInv, FramesInOrder, InOrder
  <1>7. ~P!IsClosed(wire[f.id])
    BY <1>6 DEF P!IsClosed, MayFollow
  <1>8. f.body = "headers" => wire[f.id] = <<>>
    <2>1. wire[f.id] \in Seq(P!Bodies)
      BY <1>2, PipelineType
    <2>2. wire[f.id] # <<>> => 1 \in DOMAIN wire[f.id]
      BY <2>1
    <2> QED
      BY <1>6, <2>2 DEF MayFollow
  <1>9. wire' = [wire EXCEPT ![f.id] = Append(@, f.body)] /\ UNCHANGED client
    BY DEF WriterSend, loopVars
  <1> QED
    BY <1>2, <1>5, <1>7, <1>8, <1>9 DEF P!MayEmit

LEMMA EmitProtocol ==
    ASSUME TypeOK, ClientHeard, AnswerInv, ~HandlersDropSends, WriterSend
    PROVE  P!Next
  <1> DEFINE f == Head(held)
  <1>1. /\ f.id \in Ids /\ f.body \in P!Bodies
        /\ wire' = [wire EXCEPT ![f.id] = Append(@, f.body)] /\ UNCHANGED client
        /\ Spoken(f.id) /\ P!MayEmit(wire[f.id], f.body)
    BY MayEmitNext
  <1> HIDE DEF f
  <1>2. client[f.id] # "unused"
    BY <1>1 DEF AnswerInv, FramesOwned, ClientHeard
  <1>3. P!Emit(f.id, f.body)
    BY <1>1, <1>2 DEF P!Emit
  <1> QED
    BY <1>1, <1>3 DEF P!Next

\* The transport implements packet.proto for every service, number of calls, buffer
\* size and executor: a conforming client and handlers that await their sends see
\* Headers first, at most one Close, nothing after it, and no call they did not open.
THEOREM ProtocolImplemented ==
    Conforming /\ ~HandlersDropSends => (Spec => ImplementsProtocol)
  <1> SUFFICES ASSUME Conforming, ~HandlersDropSends
               PROVE  Spec => ImplementsProtocol
    OBVIOUS
  <1>1. Init => P!Init
    BY DEF Init
  <1>2. TypeOK /\ ClientHeard /\ AnswerInv /\ [Next]_vars => [P!Next]_<<client, wire>>
    <2> SUFFICES ASSUME TypeOK, ClientHeard, AnswerInv, [Next]_vars
                 PROVE  [P!Next]_<<client, wire>>
      OBVIOUS
    <2>1. CASE WriterSend
      BY <2>1, EmitProtocol
    <2>2. ASSUME NEW r \in Ids, TaskStep(r) \/ CloserStep(r)
          PROVE  UNCHANGED <<client, wire>>
      <3>1. UNCHANGED client
        BY <2>2, LoopOwnsClient DEF loopVars
      <3>2. UNCHANGED wire
        BY <2>2
        DEF TaskStep, HandlerStep, HandlerRecv, HandlerEof, HandlerDropRx, HandlerSend,
            HandlerSendDone, HandlerDropSend, HandlerReturn, HandlerPanic, SendClose, ReportDone,
            TaskEnd, TaskAborted, CloserStep, CloserSend, CloserEnd, writerVars
      <3> QED
        BY <3>1, <3>2
    <2>3. CASE (Writer /\ ~WriterSend) \/ UNCHANGED vars
      BY <2>3 DEF Writer, WriterTake, WriterFail, WriterFinish, vars, loopVars, writerVars
    <2> QED
      BY <2>1, <2>2, <2>3, LoopProtocol DEF Next
  <1> QED
    BY <1>1, <1>2, TypeCorrect, ConformingInvariant, PTL DEF Spec, ImplementsProtocol, P!Spec

\* On one thread a cancelled call says nothing more: its handler cannot run, and no
\* Close is owed.
THEOREM CancelSilences ==
    Conforming /\ ~MultiThreaded => (Spec => SilentAfterCancel)
  <1> SUFFICES ASSUME Conforming, ~MultiThreaded
               PROVE  Spec => SilentAfterCancel
    OBVIOUS
  <1> DEFINE Silent == \A r \in Ids : client[r] = "cancelled" /\ closer[r] = "none" => ~Enters(r)
  <1>1. TypeOK /\ SessionInv /\ NoRace /\ ClientHeard /\ [Next]_vars => Silent
    <2> SUFFICES ASSUME TypeOK, SessionInv, NoRace, ClientHeard, [Next]_vars, NEW r \in Ids,
                        client[r] = "cancelled", closer[r] = "none", Enters(r)
                 PROVE  FALSE
      OBVIOUS
    <2>1. funnel.queue \in Seq(Frame) /\ Len(funnel.queue) \in Nat
      BY PipelineType
    <2>2. ~Handling(r)
      BY DEF Handling, CanRun, NoRace, SessionInv, NoOrphanTask, Unfinished, ClientHeard
    <2>3. funnel' # funnel
      BY <2>1 DEF Enters
    <2>4. ASSUME NEW q \in Ids, NEW body, NEW s,
                 funnel' = Send(funnel, FunnelBuffer, s, [id |-> q, body |-> body])
          PROVE  r = q
      BY <2>1, <2>3, <2>4 DEF Send, Enters
    <2>5. ~RunLoop
      BY <2>3
      DEF RunLoop, Packet, BeginViolation, BeginRefused, BeginAccepted, Message, Kill, DoneSending,
          Cancel, LoopDone, InboundClosed, WriterGone, Stop
    <2>6. ASSUME NEW q \in Ids, TaskStep(q)
          PROVE  FALSE
      BY <2>2, <2>3, <2>4, <2>6
      DEF TaskStep, HandlerStep, HandlerRecv, HandlerEof, HandlerDropRx, HandlerSend,
          HandlerSendDone, HandlerDropSend, HandlerReturn, HandlerPanic, SendClose, ReportDone,
          TaskEnd, TaskAborted
    <2>7. ASSUME NEW q \in Ids, CloserStep(q)
          PROVE  FALSE
      BY <2>3, <2>4, <2>7 DEF CloserStep, CloserSend, CloserEnd, Statuses
    <2>8. ~Writer
      <3>1. ~WriterTake
        <4>1. WriterTake => funnel.queue # <<>> /\ funnel'.queue = Tail(funnel.queue)
          BY DEF WriterTake, Receive, TypeOK, Channels
        <4>2. funnel.queue # <<>> => Len(Tail(funnel.queue)) = Len(funnel.queue) - 1
          BY <2>1, HeadTailProperties
        <4>3. WriterTake => Len(funnel'.queue) = Len(funnel.queue) - 1
          BY <4>1, <4>2, Zenon
        <4>4. \A m, n \in Nat : m = n - 1 => ~(m > n)
          OBVIOUS
        <4>5. WriterTake => Len(funnel'.queue) \in Nat
          BY <2>1, <4>1, HeadTailProperties, LenProperties, Zenon
        <4> QED
          BY <2>1, <4>3, <4>4, <4>5, Zenon DEF Enters
      <3>2. ~WriterFail /\ ~WriterFinish
        BY <2>1 DEF WriterFail, WriterFinish, ClosedChannel, Enters
      <3> QED
        BY <2>3, <3>1, <3>2 DEF Writer, WriterSend
    <2> QED
      BY <2>3, <2>5, <2>6, <2>7, <2>8 DEF Next, vars
  <1>2. TypeOK /\ SessionInv /\ NoRace /\ ClientHeard /\ [Next]_vars => [Silent]_vars
    BY <1>1
  <1> QED
    BY <1>2, TypeCorrect, SessionInvariant, OrderInvariant, ConformingInvariant, PTL
    DEF Spec, SilentAfterCancel

\* On one thread the end of a request stream is the client's DoneSending, never its
\* Cancel nor the end of the connection.
THEOREM EofIsDoneSending ==
    Conforming /\ ~MultiThreaded => (Spec => EofMeansDoneSending)
  <1> SUFFICES ASSUME Conforming, ~MultiThreaded
               PROVE  Spec => EofMeansDoneSending
    OBVIOUS
  <1> DEFINE True == \A r \in Ids : rx[r] = "open" /\ rx'[r] = "ended" => client[r] = "halfclosed"
  <1>1. TypeOK /\ SessionInv /\ NoRace /\ ClientHeard /\ [Next]_vars => True
    <2> SUFFICES ASSUME TypeOK, SessionInv, NoRace, ClientHeard, [Next]_vars, NEW r \in Ids,
                        rx[r] = "open", rx'[r] = "ended"
                 PROVE  client[r] = "halfclosed"
      OBVIOUS
    <2>1. rx' # rx
      OBVIOUS
    <2>2. ~RunLoop
      <3>1. ASSUME NEW q \in Ids, NEW path \in Paths, NEW single \in BOOLEAN,
                   BeginAccepted(q, path, single)
            PROVE  FALSE
        <4>1. rx' = [rx EXCEPT ![q] = IF Descriptor(path).client_streaming THEN "open" ELSE "none"]
          BY <3>1 DEF BeginAccepted
        <4> QED
          BY <2>1, <4>1 DEF TypeOK
      <3> QED
        BY <2>1, <3>1
        DEF RunLoop, Packet, BeginViolation, BeginRefused, Message, Kill, DoneSending, Cancel,
            LoopDone, InboundClosed, WriterGone, Stop, streamVars
    <2>3. ASSUME NEW q \in Ids, TaskStep(q)
          PROVE  HandlerEof(r)
      <3>1. ASSUME DropStreams(q) PROVE FALSE
        BY <3>1 DEF DropStreams, TypeOK
      <3>2. CASE HandlerEof(q)
        BY <3>2 DEF HandlerEof, TypeOK
      <3> QED
        BY <2>1, <2>3, <3>1, <3>2
        DEF TaskStep, HandlerStep, HandlerRecv, HandlerDropRx, HandlerSend, HandlerSendDone,
            HandlerDropSend, HandlerReturn, HandlerPanic, SendClose, ReportDone, TaskEnd,
            TaskAborted, streamVars, TypeOK
    <2>4. ASSUME NEW q \in Ids, CloserStep(q)
          PROVE  FALSE
      BY <2>1, <2>4 DEF CloserStep, CloserSend, CloserEnd, streamVars
    <2>5. ~Writer
      BY <2>1 DEF Writer, WriterTake, WriterSend, WriterFail, WriterFinish, streamVars
    <2>6. HandlerEof(r)
      BY <2>1, <2>2, <2>3, <2>4, <2>5 DEF Next, vars, streamVars
    <2>7. session[r] = "half"
      BY <2>6
      DEF HandlerEof, Handling, CanRun, NoRace, SessionInv, NoOrphanTask, Unfinished, TypeOK
    <2> QED
      BY <2>7 DEF ClientHeard
  <1>2. TypeOK /\ SessionInv /\ NoRace /\ ClientHeard /\ [Next]_vars => [True]_vars
    BY <1>1
  <1> QED
    BY <1>2, TypeCorrect, SessionInvariant, OrderInvariant, ConformingInvariant, PTL
    DEF Spec, EofMeansDoneSending
=============================================================================
