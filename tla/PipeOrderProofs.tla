-------------------------- MODULE PipeOrderProofs --------------------------
(***************************************************************************)
(* NothingFollowsClose, on one thread, for any client: what is sent is     *)
(* sent by a handler, and a Close is sent or owed only when the handler of *)
(* its call can never run again.                                           *)
(***************************************************************************)
EXTENDS PipeTransportProofs, SequenceTheorems

-----------------------------------------------------------------------------
(* NothingFollowsClose as a relation of what was sent and what is on its   *)
(* way.                                                                    *)

ClosedIn(w, pl, r) ==
    \/ \E i \in DOMAIN w[r] : w[r][i] \in Statuses
    \/ \E i \in DOMAIN pl : IsClose(pl[i], r)

Trails(w, pl) ==
    \A r \in Ids :
        /\ \A i, j \in DOMAIN w[r] : i < j /\ w[r][i] \in Statuses => w[r][j] \in Statuses
        /\ \A i, j \in DOMAIN pl : i < j /\ IsClose(pl[i], r) => MayTrail(pl[j], r)
        /\ \A i \in DOMAIN w[r], j \in DOMAIN pl : w[r][i] \in Statuses => MayTrail(pl[j], r)

\* A frame may join at the end when it is a Close, or when its call has none.
LEMMA TrailsAppend ==
    ASSUME NEW w, NEW pl \in Seq(Frame), NEW f \in Frame, Trails(w, pl),
           f.body \in Statuses \/ ~ClosedIn(w, pl, f.id)
    PROVE  Trails(w, Append(pl, f))
  <1> DEFINE n == Len(pl) + 1
  <1>1. /\ DOMAIN Append(pl, f) = 1..n /\ DOMAIN pl = 1..Len(pl) /\ Len(pl) \in Nat
        /\ Append(pl, f)[n] = f
        /\ \A i \in DOMAIN pl : Append(pl, f)[i] = pl[i]
    OBVIOUS
  <1> SUFFICES ASSUME NEW r \in Ids
               PROVE  /\ \A i, j \in 1..n : i < j /\ IsClose(Append(pl, f)[i], r)
                                            => MayTrail(Append(pl, f)[j], r)
                      /\ \A i \in DOMAIN w[r], j \in 1..n :
                            w[r][i] \in Statuses => MayTrail(Append(pl, f)[j], r)
    BY <1>1 DEF Trails
  <1>2. ASSUME ClosedIn(w, pl, r) PROVE MayTrail(f, r)
    BY <1>2 DEF MayTrail
  <1>3. ASSUME NEW i \in 1..n, NEW j \in 1..n, i < j, IsClose(Append(pl, f)[i], r)
        PROVE  MayTrail(Append(pl, f)[j], r)
    <2>1. i \in DOMAIN pl /\ IsClose(pl[i], r)
      BY <1>1, <1>3
    <2>2. CASE j = n
      BY <1>1, <1>2, <2>1, <2>2 DEF ClosedIn
    <2>3. CASE j \in DOMAIN pl
      BY <1>1, <1>3, <2>1, <2>3 DEF Trails
    <2> QED
      BY <1>1, <2>2, <2>3
  <1>4. ASSUME NEW i \in DOMAIN w[r], NEW j \in 1..n, w[r][i] \in Statuses
        PROVE  MayTrail(Append(pl, f)[j], r)
    <2>1. CASE j = n
      BY <1>1, <1>2, <1>4, <2>1 DEF ClosedIn
    <2>2. CASE j \in DOMAIN pl
      BY <1>1, <1>4, <2>2 DEF Trails
    <2> QED
      BY <1>1, <2>1, <2>2
  <1> QED
    BY <1>3, <1>4

LEMMA FirstFrame ==
    ASSUME NEW pl \in Seq(Frame), pl # <<>>
    PROVE  Head(pl) \in Frame /\ Head(pl).id \in Ids /\ Head(pl) = pl[1] /\ 1 \in DOMAIN pl
  <1>1. 1 \in DOMAIN pl
    OBVIOUS
  <1>2. Head(pl) = pl[1]
    OBVIOUS
  <1>3. pl[1] \in Frame
    BY <1>1
  <1> QED
    BY <1>1, <1>2, <1>3 DEF Frame

\* The first frame on its way is the next on the wire.
LEMMA TrailsForward ==
    ASSUME NEW w \in [Ids -> Seq(P!Bodies)], NEW pl \in Seq(Frame), pl # <<>>, Trails(w, pl)
    PROVE  Trails([w EXCEPT ![Head(pl).id] = Append(@, Head(pl).body)], Tail(pl))
  <1> DEFINE f == Head(pl)
             rest == Tail(pl)
             v == [w EXCEPT ![f.id] = Append(@, f.body)]
  <1>1. f \in Frame /\ f.id \in Ids /\ f = pl[1] /\ 1 \in DOMAIN pl
    BY FirstFrame
  <1>2. \A i \in DOMAIN rest : i + 1 \in DOMAIN pl /\ rest[i] = pl[i + 1] /\ i \in Nat \ {0}
    OBVIOUS
  <1>3. \A r \in Ids : r # f.id => v[r] = w[r]
    OBVIOUS
  <1>4. /\ v[f.id] = Append(w[f.id], f.body)
        /\ w[f.id] \in Seq(P!Bodies)
    BY <1>1
  <1> HIDE DEF rest, v
  <1>5. /\ DOMAIN v[f.id] = 1..Len(w[f.id]) + 1
        /\ DOMAIN w[f.id] = 1..Len(w[f.id]) /\ Len(w[f.id]) \in Nat
        /\ v[f.id][Len(w[f.id]) + 1] = f.body
        /\ \A i \in DOMAIN w[f.id] : v[f.id][i] = w[f.id][i]
    BY <1>4
  <1>6. ASSUME NEW r \in Ids, NEW i \in DOMAIN rest, NEW j \in DOMAIN rest, i < j, IsClose(rest[i], r)
        PROVE  MayTrail(rest[j], r)
    BY <1>2, <1>6 DEF Trails
  <1>7. ASSUME NEW r \in Ids, r # f.id PROVE
             /\ \A i, j \in DOMAIN v[r] : i < j /\ v[r][i] \in Statuses => v[r][j] \in Statuses
             /\ \A i \in DOMAIN v[r], j \in DOMAIN rest : v[r][i] \in Statuses => MayTrail(rest[j], r)
    BY <1>2, <1>3, <1>7 DEF Trails
  <1>8. ASSUME NEW i \in DOMAIN v[f.id], NEW j \in DOMAIN v[f.id], i < j, v[f.id][i] \in Statuses
        PROVE  v[f.id][j] \in Statuses
    <2>1. i \in DOMAIN w[f.id] /\ w[f.id][i] \in Statuses
      BY <1>5, <1>8
    <2>2. CASE j = Len(w[f.id]) + 1
      BY <1>1, <1>5, <2>1, <2>2 DEF Trails, MayTrail
    <2>3. CASE j \in DOMAIN w[f.id]
      BY <1>1, <1>5, <1>8, <2>1, <2>3 DEF Trails
    <2> QED
      BY <1>5, <2>2, <2>3
  <1>9. ASSUME NEW i \in DOMAIN v[f.id], NEW j \in DOMAIN rest, v[f.id][i] \in Statuses
        PROVE  MayTrail(rest[j], f.id)
    <2>1. CASE i = Len(w[f.id]) + 1
      <3>1. IsClose(pl[1], f.id)
        BY <1>1, <1>5, <1>9, <2>1 DEF IsClose
      <3>2. j + 1 \in DOMAIN pl /\ 1 < j + 1 /\ rest[j] = pl[j + 1]
        BY <1>2
      <3> QED
        BY <1>1, <3>1, <3>2 DEF Trails
    <2>2. CASE i \in DOMAIN w[f.id]
      BY <1>1, <1>2, <1>5, <1>9, <2>2 DEF Trails
    <2> QED
      BY <1>5, <2>1, <2>2
  <1>10. ASSUME NEW r \in Ids
         PROVE  /\ \A i, j \in DOMAIN v[r] : i < j /\ v[r][i] \in Statuses => v[r][j] \in Statuses
                /\ \A i, j \in DOMAIN rest : i < j /\ IsClose(rest[i], r) => MayTrail(rest[j], r)
                /\ \A i \in DOMAIN v[r], j \in DOMAIN rest :
                      v[r][i] \in Statuses => MayTrail(rest[j], r)
    <2>1. CASE r = f.id
      BY <1>6, <1>8, <1>9, <2>1
    <2>2. CASE r # f.id
      BY <1>6, <1>7, <2>2
    <2> QED
      BY <2>1, <2>2
  <1>11. Trails(v, rest)
    BY <1>10 DEF Trails
  <1> QED
    BY <1>11 DEF v, rest

\* Sending the first frame closes no call that was not closed before.
LEMMA ClosedForward ==
    ASSUME NEW w \in [Ids -> Seq(P!Bodies)], NEW pl \in Seq(Frame), pl # <<>>, NEW r \in Ids,
           ClosedIn([w EXCEPT ![Head(pl).id] = Append(@, Head(pl).body)], Tail(pl), r)
    PROVE  ClosedIn(w, pl, r)
  <1> DEFINE f == Head(pl)
             v == [w EXCEPT ![f.id] = Append(@, f.body)]
  <1>1. f \in Frame /\ f.id \in Ids /\ f = pl[1] /\ 1 \in DOMAIN pl
    BY FirstFrame
  <1>2. CASE \E i \in DOMAIN Tail(pl) : IsClose(Tail(pl)[i], r)
    <2>1. PICK i \in DOMAIN Tail(pl) : IsClose(Tail(pl)[i], r)
      BY <1>2
    <2>2. i + 1 \in DOMAIN pl /\ Tail(pl)[i] = pl[i + 1]
      OBVIOUS
    <2> QED
      BY <2>1, <2>2 DEF ClosedIn
  <1>3. CASE \E i \in DOMAIN v[r] : v[r][i] \in Statuses
    <2>1. PICK i \in DOMAIN v[r] : v[r][i] \in Statuses
      BY <1>3
    <2>2. CASE r # f.id
      BY <2>1, <2>2 DEF ClosedIn
    <2>3. CASE r = f.id
      <3>1. v[r] = Append(w[r], f.body) /\ w[r] \in Seq(P!Bodies)
        BY <1>1, <2>3
      <3>2. CASE i \in DOMAIN w[r]
        BY <2>1, <3>1, <3>2 DEF ClosedIn
      <3>3. CASE i = Len(w[r]) + 1
        BY <1>1, <2>1, <2>3, <3>1, <3>3 DEF ClosedIn, IsClose
      <3> QED
        BY <2>1, <3>1, <3>2, <3>3
    <2> QED
      BY <2>2, <2>3
  <1> QED
    BY <1>2, <1>3 DEF ClosedIn

-----------------------------------------------------------------------------
(* What a step does to the end of a call.                                  *)

\* A call that is over stays over: ids are not used again, and no handle is
\* ever unset.
LEMMA OverStays ==
    ASSUME TypeOK, [Next]_vars, NEW r \in Ids, Over(r)
    PROVE  Over(r)'
  <1>1. CASE Quiet
    BY <1>1 DEF Quiet, Over
  <1>3. ASSUME NEW q \in Ids, ReportDone(q) PROVE Over(r)'
    BY <1>3 DEF ReportDone, Over, loopVars, TypeOK
  <1>4. ASSUME Stop PROVE Over(r)'
    <2>1. abort'[r] # "none" \/ abort'[r] = abort[r]
      BY <1>4, AbortEffect DEF Stop, LiveSessions
    <2> QED
      BY <1>4, <2>1 DEF Stop, Over
  <1>5. ASSUME NEW q \in Ids, Kill(q) \/ Cancel(q) PROVE Over(r)'
    <2>1. abort'[r] # "none" \/ abort'[r] = abort[r]
      BY <1>5, AbortEffect DEF Kill, Cancel, LiveSessions
    <2> QED
      BY <1>5, <2>1 DEF Kill, Cancel, Over
  <1>6. ASSUME NEW q \in Ids, NEW path \in Paths, NEW single \in BOOLEAN,
               BeginRefused(q, path, single) \/ BeginAccepted(q, path, single)
        PROVE  Over(r)'
    <2>1. r <= highest /\ r # q /\ highest < q /\ highest' = q
      BY <1>6, BoundsAssumption DEF BeginRefused, RefusedId, BeginAccepted, StaleId, Over, TypeOK, Ids
    <2>2. r <= highest'
      BY <2>1, BoundsAssumption DEF TypeOK, Ids
    <2>3. task'[r] = task[r] /\ abort' = abort
      BY <1>6, <2>1 DEF BeginRefused, RefusedId, BeginAccepted, TypeOK, taskVars
    <2> QED
      BY <2>2, <2>3 DEF Over
  <1>7. ASSUME NEW q \in Ids, DoneSending(q) PROVE Over(r)'
    BY <1>7 DEF DoneSending, Over, taskVars
  <1>8. CASE LoopDone
    BY <1>8 DEF LoopDone, Over, taskVars
  <1>2. ASSUME NEW q \in Ids, Message(q) PROVE Over(r)'
    <2>1. Quiet
      BY <1>2, QuietSteps
    <2> QED
      BY <1>1, <2>1
  <1>9. CASE RunLoop
    BY <1>2, <1>4, <1>5, <1>6, <1>7, <1>8, <1>9
    DEF RunLoop, Packet, InboundClosed, WriterGone, BeginViolation
  <1>10. ASSUME NEW q \in Ids, TaskStep(q) \/ CloserStep(q) PROVE Over(r)'
    <2>1. CASE ReportDone(q)
      BY <1>3, <2>1
    <2>2. CASE ~ReportDone(q)
      <3>1. Quiet
        BY <1>10, <2>2, QuietSteps
      <3> QED
        BY <1>1, <3>1
    <2> QED
      BY <2>1, <2>2
  <1>11. CASE Writer \/ UNCHANGED vars
    BY <1>1, <1>11, QuietSteps
  <1> QED
    BY <1>9, <1>10, <1>11 DEF Next

\* The loop owes a Close only to a call without a handler that can run.
LEMMA OwedWhenOver ==
    ASSUME TypeOK, SessionInv, [Next]_vars, NEW r \in Ids, closer'[r] # "none", closer[r] = "none"
    PROVE  Over(r)'
  <1>1. CASE Quiet
    BY <1>1 DEF Quiet
  <1>2. ASSUME NEW q \in Ids, NEW path \in Paths, NEW single \in BOOLEAN, BeginRefused(q, path, single)
        PROVE  Over(r)'
    <2>1. r = q
      BY <1>2 DEF BeginRefused, RefusedId, TypeOK
    <2>2. highest' = r /\ task'[r] = "unspawned"
      BY <1>2, <2>1 DEF BeginRefused, RefusedId, StaleId, SessionInv, FreshIds, taskVars, TypeOK, Ids
    <2> QED
      BY <2>2 DEF Over, Ids
  <1>3. ASSUME NEW q \in Ids, Kill(q) PROVE Over(r)'
    <2>1. r = q /\ session[r] = "half"
      BY <1>3 DEF Kill, TypeOK
    <2>2. r <= highest
      BY <2>1 DEF SessionInv, FreshIds, TypeOK, Ids
    <2>3. abort'[r] # "none" /\ highest' = highest
      BY <1>3, <2>1, AbortEffect DEF Kill
    <2> QED
      BY <2>2, <2>3 DEF Over
  <1>4. ASSUME NEW q \in Ids, ReportDone(q) PROVE Over(r)'
    BY <1>4 DEF ReportDone
  <1>5. CASE RunLoop
    BY <1>1, <1>2, <1>3, <1>5, QuietSteps
    DEF RunLoop, Packet, InboundClosed, WriterGone, BeginViolation, BeginAccepted, DoneSending, Cancel,
        LoopDone, Stop
  <1>6. ASSUME NEW q \in Ids, TaskStep(q) \/ CloserStep(q) PROVE Over(r)'
    BY <1>1, <1>4, <1>6, QuietSteps
  <1>7. CASE Writer \/ UNCHANGED vars
    BY <1>1, <1>7, QuietSteps
  <1> QED
    BY <1>5, <1>6, <1>7 DEF Next

-----------------------------------------------------------------------------
(* The steps that move frames.                                             *)

LEMMA PipelineType ==
    ASSUME TypeOK
    PROVE  /\ funnel.queue \in Seq(Frame) /\ held \in Seq(Frame) /\ Pipeline \in Seq(Frame)
           /\ wire \in [Ids -> Seq(P!Bodies)]
  BY DEF TypeOK, Channels, Pipeline, P!TypeOK

\* What can be said when no frame moves.
LEMMA StillFrames ==
    ASSUME TypeOK, SessionInv, OrderInv, [Next]_vars,
           Pipeline' = Pipeline, wire' = wire, Len(held') <= 1
    PROVE  OrderInv'
  <1>1. \A r \in Ids : ClosedFor(r)' => ClosedFor(r)
    BY DEF ClosedFor
  <1>2. CloseEndsCall'
    BY <1>1, OverStays, OwedWhenOver DEF OrderInv, CloseEndsCall
  <1>3. NothingFollowsClose'
    BY DEF OrderInv, NothingFollowsClose
  <1> QED
    BY <1>2, <1>3 DEF OrderInv

\* A frame joins the funnel: a Close of a call that is over by then, or a frame
\* of a call that has no Close.
LEMMA JoiningFrame ==
    ASSUME TypeOK, SessionInv, OrderInv, [Next]_vars, NEW f \in Frame,
           funnel'.queue = Append(funnel.queue, f), UNCHANGED <<held, wire>>,
           \/ f.body \in Statuses /\ Over(f.id)'
           \/ f.body \notin Statuses /\ ~ClosedFor(f.id)
    PROVE  OrderInv'
  <1>1. Pipeline' = Append(Pipeline, f) /\ Pipeline \in Seq(Frame)
    BY PipelineType DEF Pipeline
  <1>2. ASSUME NEW r \in Ids, ClosedFor(r)' PROVE ClosedFor(r) \/ (f.id = r /\ f.body \in Statuses)
    <2>1. CASE \E i \in DOMAIN wire[r] : wire[r][i] \in Statuses
      BY <2>1 DEF ClosedFor
    <2>2. CASE \E i \in DOMAIN Append(Pipeline, f) : IsClose(Append(Pipeline, f)[i], r)
      <3>1. PICK i \in DOMAIN Append(Pipeline, f) : IsClose(Append(Pipeline, f)[i], r)
        BY <2>2
      <3>2. CASE i \in DOMAIN Pipeline
        BY <1>1, <3>1, <3>2 DEF ClosedFor
      <3>3. CASE i = Len(Pipeline) + 1
        BY <1>1, <3>1, <3>3 DEF IsClose
      <3> QED
        BY <1>1, <3>2, <3>3
    <2> QED
      BY <1>1, <1>2, <2>1, <2>2 DEF ClosedFor
  <1>3. CloseEndsCall'
    BY <1>2, OverStays, OwedWhenOver DEF OrderInv, CloseEndsCall
  <1>4. Trails(wire, Append(Pipeline, f))
    <2>1. Trails(wire, Pipeline)
      BY DEF OrderInv, NothingFollowsClose, Trails
    <2>2. f.body \in Statuses \/ ~ClosedIn(wire, Pipeline, f.id)
      BY DEF ClosedIn, ClosedFor
    <2> QED
      BY <1>1, <2>1, <2>2, TrailsAppend
  <1>5. NothingFollowsClose'
    BY <1>1, <1>4 DEF NothingFollowsClose, Trails
  <1> QED
    BY <1>3, <1>5 DEF OrderInv

\* No poll is left to race with an abort when there is one thread.
NoRace == \A r \in Ids : abort[r] # "racing"

LEMMA NoRaceStep ==
    ASSUME ~MultiThreaded, TypeOK, NoRace, [Next]_vars
    PROVE  NoRace'
  <1>1. ASSUME NEW S \in SUBSET Ids, AbortTasks(S) PROVE NoRace'
    BY <1>1 DEF AbortTasks, NoRace
  <1>2. CASE abort' = abort
    BY <1>2 DEF NoRace
  <1>3. CASE Stop
    BY <1>1, <1>3 DEF Stop, LiveSessions
  <1>4. CASE RunLoop
    <2>1. ASSUME NEW r \in Ids, Kill(r) \/ Cancel(r) PROVE NoRace'
      BY <1>1, <2>1 DEF Kill, Cancel, LiveSessions
    <2> QED
      BY <1>2, <1>3, <1>4, <2>1
      DEF RunLoop, Packet, BeginViolation, InboundClosed, WriterGone, LoopDone, BeginRefused,
          BeginAccepted, Message, DoneSending, taskVars
  <1>5. ASSUME NEW r \in Ids, TaskStep(r) \/ CloserStep(r) PROVE NoRace'
    <2>1. CASE ReportDone(r)
      BY <1>2, <2>1 DEF ReportDone
    <2> QED
      BY <1>2, <1>5, <2>1, QuietSteps DEF Quiet
  <1>6. CASE Writer \/ UNCHANGED vars
    BY <1>2, <1>6
    DEF Writer, WriterTake, WriterSend, WriterFail, WriterFinish, vars, taskVars
  <1> QED
    BY <1>4, <1>5, <1>6 DEF Next

\* A send on the funnel appends to it, or does nothing once it is closed.
LEMMA SentFrame ==
    ASSUME TypeOK, SessionInv, OrderInv, [Next]_vars, NEW f \in Frame, NEW s \in Senders,
           funnel' = Send(funnel, FunnelBuffer, s, f), UNCHANGED <<held, wire>>,
           \/ f.body \in Statuses /\ Over(f.id)'
           \/ f.body \notin Statuses /\ ~ClosedFor(f.id)
    PROVE  OrderInv'
  <1>1. CASE funnel.open
    BY <1>1, JoiningFrame DEF Send
  <1>2. CASE ~funnel.open
    BY <1>2, StillFrames DEF Send, Pipeline, OrderInv
  <1> QED
    BY <1>1, <1>2

\* A handler that can run belongs to a call that is not over.
LEMMA RunningHandler ==
    ASSUME SessionInv, NoRace, NEW r \in Ids, Handling(r)
    PROVE  ~Over(r)
  BY DEF Handling, CanRun, NoRace, Over

\* The steps of a handler, of its task and of a Close sender.
LEMMA SenderOrder ==
    ASSUME TypeOK, SessionInv, NoRace, OrderInv, [Next]_vars, NEW r \in Ids,
           TaskStep(r) \/ CloserStep(r)
    PROVE  OrderInv'
  <1>1. CASE UNCHANGED <<funnel, held, wire>>
    BY <1>1, StillFrames DEF Pipeline, OrderInv
  <1>2. ASSUME NEW body \in {"headers", "message"}, HandlerSend(r, body)
        PROVE  OrderInv'
    <2>1. ~ClosedFor(r)
      BY <1>2, RunningHandler DEF HandlerSend, OrderInv, CloseEndsCall
    <2>2. body \notin Statuses
      BY DEF Statuses
    <2> QED
      BY <1>2, <2>1, <2>2, FrameType, SentFrame DEF HandlerSend, writerVars, Frame, Senders
  <1>3. ASSUME NEW status \in Statuses, Handling(r), SendClose(r, status)
        PROVE  OrderInv'
    <2>1. r <= highest
      BY <1>3 DEF Handling, SessionInv, FreshIds, TypeOK, Ids
    <2>2. Over(r)'
      BY <1>3, <2>1 DEF SendClose, Over, loopVars, TypeOK
    <2> QED
      BY <1>3, <2>2, FrameType, SentFrame DEF SendClose, writerVars, Frame, Senders
  <1>4. CASE CloserSend(r)
    <2>1. closer[r] \in Statuses /\ closer[r] # "none"
      BY <1>4 DEF CloserSend, Statuses
    <2>2. Over(r)'
      BY <2>1, OverStays DEF OrderInv, CloseEndsCall
    <2> QED
      BY <1>4, <2>1, <2>2, FrameType, SentFrame
      DEF CloserSend, CloserSender, writerVars, Frame, Senders
  <1>5. CASE CloserStep(r)
    BY <1>1, <1>4, <1>5 DEF CloserStep, CloserEnd, writerVars
  <1>6. CASE TaskStep(r)
    <2>1. CASE \E body \in {"headers", "message"} : HandlerSend(r, body)
      BY <1>2, <2>1
    <2>2. CASE HandlerPanic(r) \/ \E status \in HandlerStatuses : HandlerReturn(r, status)
      BY <1>3, <2>2, ServiceAssumption DEF HandlerPanic, HandlerReturn, Statuses
    <2> QED
      BY <1>1, <1>6, <2>1, <2>2
      DEF TaskStep, HandlerStep, HandlerRecv, HandlerEof, HandlerDropRx, HandlerSendDone,
          HandlerDropSend, ReportDone, TaskEnd, TaskAborted, writerVars
  <1> QED
    BY <1>5, <1>6

\* The one frame in hand is the first of those on their way.
LEMMA HeldFirst ==
    ASSUME NEW S, NEW h \in Seq(S), NEW q \in Seq(S), h # <<>>, Len(h) <= 1
    PROVE  h \o q # <<>> /\ Head(h \o q) = Head(h) /\ Tail(h \o q) = q
  <1>1. Len(h) = 1 /\ Len(q) \in Nat
    <2>1. Len(h) \in Nat \ {0}
      BY EmptySeq
    <2>2. Len(q) \in Nat
      BY LenProperties
    <2>3. \A n \in Nat \ {0} : n <= 1 => n = 1
      OBVIOUS
    <2> QED
      BY <2>1, <2>2, <2>3, Zenon
  <1>2. /\ h \o q \in Seq(S) /\ Len(h \o q) = Len(q) + 1 /\ (h \o q)[1] = h[1]
        /\ \A i \in 1..Len(q) : (h \o q)[i + 1] = q[i]
    BY <1>1, ConcatProperties
  <1>3. h \o q # <<>>
    BY <1>1, <1>2, EmptySeq
  <1>4. Tail(h \o q) = q
    <2>1. /\ Tail(h \o q) \in Seq(S) /\ Len(Tail(h \o q)) = Len(q)
          /\ \A i \in 1..Len(q) : Tail(h \o q)[i] = q[i]
      BY <1>1, <1>2, <1>3, HeadTailProperties
    <2> QED
      BY <2>1, SeqEqual
  <1> QED
    BY <1>1, <1>2, <1>3, <1>4

\* The steps of the writer: what it takes, accepts or loses comes off the front.
LEMMA WriterOrder ==
    ASSUME TypeOK, SessionInv, OrderInv, [Next]_vars, Writer
    PROVE  OrderInv'
  <1>1. CASE WriterTake
    <2>1. Pipeline' = Pipeline
      BY <1>1, PipelineType DEF WriterTake, Receive, Pipeline
    <2>2. Len(held') <= 1
      BY <1>1 DEF WriterTake
    <2> QED
      BY <1>1, <2>1, <2>2, StillFrames DEF WriterTake
  <1>2. CASE WriterSend
    <2>1. /\ held \in Seq(Frame) /\ held # <<>> /\ Len(held) <= 1 /\ funnel.queue \in Seq(Frame)
          /\ held' = <<>> /\ funnel' = funnel
      BY <1>2, PipelineType DEF WriterSend, OrderInv
    <2>2. Pipeline # <<>> /\ Head(Pipeline) = Head(held) /\ Pipeline' = Tail(Pipeline)
      <3>1. Pipeline' = funnel.queue
        BY <2>1 DEF Pipeline
      <3> QED
        BY <2>1, <3>1, HeldFirst DEF Pipeline
    <2>3. wire' = [wire EXCEPT ![Head(Pipeline).id] = Append(@, Head(Pipeline).body)]
      BY <1>2, <2>2 DEF WriterSend
    <2>4. Trails(wire, Pipeline)
      BY DEF OrderInv, NothingFollowsClose, Trails
    <2>5. NothingFollowsClose'
      BY <2>2, <2>3, <2>4, PipelineType, TrailsForward DEF NothingFollowsClose, Trails
    <2>6. ASSUME NEW r \in Ids, ClosedFor(r)' PROVE ClosedFor(r)
      BY <2>2, <2>3, <2>6, PipelineType, ClosedForward DEF ClosedFor, ClosedIn
    <2>7. CloseEndsCall'
      BY <2>6, OverStays, OwedWhenOver DEF OrderInv, CloseEndsCall
    <2> QED
      BY <2>1, <2>5, <2>7 DEF OrderInv
  <1>3. CASE WriterFail
    <2>1. Pipeline' = <<>> /\ held' = <<>> /\ wire' = wire
      BY <1>3 DEF WriterFail, ClosedChannel, Pipeline
    <2>2. NothingFollowsClose'
      BY <2>1 DEF OrderInv, NothingFollowsClose
    <2>3. \A r \in Ids : ClosedFor(r)' => ClosedFor(r)
      BY <2>1 DEF ClosedFor
    <2>4. CloseEndsCall'
      BY <2>3, OverStays, OwedWhenOver DEF OrderInv, CloseEndsCall
    <2> QED
      BY <2>1, <2>2, <2>4 DEF OrderInv
  <1>4. CASE WriterFinish
    <2>1. Pipeline' = Pipeline
      BY <1>4 DEF WriterFinish, ClosedChannel, Pipeline
    <2> QED
      BY <1>4, <2>1, StillFrames DEF WriterFinish, OrderInv
  <1> QED
    BY <1>1, <1>2, <1>3, <1>4 DEF Writer

LEMMA OrderStep ==
    ASSUME TypeOK, SessionInv, NoRace, OrderInv, [Next]_vars
    PROVE  OrderInv'
  <1>1. CASE RunLoop \/ UNCHANGED vars
    <2>1. UNCHANGED <<funnel, held, wire>>
      BY <1>1, ForwardPackets
      DEF RunLoop, Packet, BeginViolation, BeginRefused, BeginAccepted, Message, Kill, DoneSending,
          Cancel, LoopDone, InboundClosed, WriterGone, Stop, writerVars, vars
    <2> QED
      BY <2>1, StillFrames DEF Pipeline, OrderInv
  <1> QED
    BY <1>1, SenderOrder, WriterOrder DEF Next

\* The type and session invariants say that ids are fresh and completions late;
\* NoRace that an abort is final.
LEMMA OrderInvariant == ~MultiThreaded => (Spec => [](NoRace /\ OrderInv))
  <1> SUFFICES ASSUME ~MultiThreaded
               PROVE  Spec => [](NoRace /\ OrderInv)
    OBVIOUS
  <1>1. Init => NoRace /\ OrderInv
    BY DEF Init, P!Init, NoRace, OrderInv, CloseEndsCall, ClosedFor, NothingFollowsClose, Pipeline,
           EmptyChannel
  <1>2. TypeOK /\ SessionInv /\ NoRace /\ OrderInv /\ [Next]_vars => NoRace' /\ OrderInv'
    BY NoRaceStep, OrderStep
  <1> QED
    BY <1>1, <1>2, TypeCorrect, SessionInvariant, PTL DEF Spec

\* On one thread nothing but a Close ever follows a Close, neither on the wire
\* nor on its way there, whatever the client sends and however many calls,
\* handlers and Close senders share the funnel.
THEOREM NothingAfterClose == ~MultiThreaded => (Spec => []NothingFollowsClose)
  <1>1. OrderInv => NothingFollowsClose
    BY DEF OrderInv
  <1> QED
    BY <1>1, OrderInvariant, PTL
=============================================================================
