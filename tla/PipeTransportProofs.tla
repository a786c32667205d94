------------------------ MODULE PipeTransportProofs ------------------------
(***************************************************************************)
(* Theorems about PipeTransport, for every service, every number of calls, *)
(* every buffer size, with one or many threads, and for any client.        *)
(***************************************************************************)
EXTENDS PipeTransportProperties, TLAPS

-----------------------------------------------------------------------------
(* The channel keeps its type.                                             *)

\* Send stays within the channels of its message and sender types.
LEMMA SendType ==
    ASSUME NEW M, NEW S, NEW buffer, NEW ch \in Channels(M, S), NEW s \in S, NEW m \in M
    PROVE  Send(ch, buffer, s, m) \in Channels(M, S)
  <1>1. ch.queue \in Seq(M) /\ ch.parked \in Seq(S)
    BY DEF Channels
  <1>2. Append(ch.queue, m) \in Seq(M) /\ Append(ch.parked, s) \in Seq(S)
    BY <1>1
  <1> DEFINE parked == IF Len(ch.queue) >= buffer THEN Append(ch.parked, s) ELSE ch.parked
  <1>3. parked \in Seq(S)
    BY <1>1, <1>2
  <1>4. [ch EXCEPT !.queue = Append(ch.queue, m), !.parked = parked] \in Channels(M, S)
    <2> HIDE DEF parked
    <2> QED BY <1>2, <1>3 DEF Channels
  <1> QED
    BY <1>4 DEF Send

\* Receive stays within the channels of its message and sender types.
LEMMA ReceiveType ==
    ASSUME NEW M, NEW S, NEW ch \in Channels(M, S), ch.queue # <<>>
    PROVE  Receive(ch) \in Channels(M, S)
  <1>1. ch.queue \in Seq(M) /\ ch.parked \in Seq(S)
    BY DEF Channels
  <1>2. Tail(ch.queue) \in Seq(M)
    BY <1>1
  <1> DEFINE parked == IF ch.parked = <<>> THEN ch.parked ELSE Tail(ch.parked)
  <1>3. parked \in Seq(S)
    BY <1>1
  <1>4. [ch EXCEPT !.queue = Tail(ch.queue), !.parked = parked] \in Channels(M, S)
    <2> HIDE DEF parked
    <2> QED BY <1>2, <1>3 DEF Channels
  <1> QED
    BY <1>4 DEF Receive

\* The two constant channels have every channel type.
LEMMA ConstantChannels ==
    ASSUME NEW M, NEW S
    PROVE  EmptyChannel \in Channels(M, S) /\ ClosedChannel \in Channels(M, S)
  BY DEF Channels, EmptyChannel, ClosedChannel

-----------------------------------------------------------------------------
(* Type correctness.                                                       *)

\* Aborting writes abort handles and nothing else.
LEMMA AbortType ==
    ASSUME TypeOK, NEW S \in SUBSET Ids, AbortTasks(S)
    PROVE  abort' \in [Ids -> {"none", "set", "racing"}]
  BY DEF TypeOK, AbortTasks

\* The end of the run loop keeps the types.
LEMMA StopType ==
    ASSUME TypeOK, Stop
    PROVE  TypeOK'
  <1>1. LiveSessions \in SUBSET Ids
    BY DEF LiveSessions
  <1>2. abort' \in [Ids -> {"none", "set", "racing"}]
    BY <1>1, AbortType DEF Stop
  <1> QED
    BY <1>2, ConstantChannels
    DEF TypeOK, Stop, streamVars, writerVars, P!TypeOK

\* What the end of a handler drops leaves its streams in range.
LEMMA DropStreamsType ==
    ASSUME TypeOK, NEW r \in Ids, DropStreams(r)
    PROVE  /\ rx' \in [Ids -> {"none", "open", "ended"}]
           /\ inbox' \in [Ids -> 0..MaxQueued]
           /\ resp' \in [Ids -> {"none", "fresh", "opened"}]
           /\ sending' \in [Ids -> BOOLEAN]
  BY BoundsAssumption DEF TypeOK, DropStreams

\* What the client sends keeps its history in range.
LEMMA ClientType ==
    ASSUME TypeOK, NEW r \in Ids, NEW single \in BOOLEAN,
           \/ Sent(P!BeginAs(r, single))
           \/ Sent(P!Finish(r))
           \/ Sent(P!Abort(r))
    PROVE  client' \in [Ids -> P!ClientStates]
  <1>1. client \in [Ids -> P!ClientStates]
    BY DEF TypeOK, P!TypeOK
  <1>2. CASE Sent(P!BeginAs(r, single))
    <2>1. (IF single THEN "halfclosed" ELSE "streaming") \in P!ClientStates
      BY DEF P!ClientStates
    <2> QED
      BY <1>1, <1>2, <2>1 DEF Sent, P!BeginAs
  <1>3. CASE Sent(P!Finish(r))
    BY <1>1, <1>3 DEF Sent, P!Finish, P!ClientStates
  <1>4. CASE Sent(P!Abort(r))
    BY <1>1, <1>4 DEF Sent, P!Abort, P!ClientStates
  <1> QED
    BY <1>2, <1>3, <1>4

\* handle_packet keeps the types, outcome by outcome.
LEMMA PacketType ==
    ASSUME TypeOK, Packet
    PROVE  TypeOK'
  <1>1. ASSUME NEW r \in 0..MaxId, BeginViolation(r)
        PROVE  TypeOK'
    BY <1>1, StopType DEF BeginViolation
  <1>2. ASSUME NEW r \in Ids, NEW path \in Paths, NEW single \in BOOLEAN,
               BeginRefused(r, path, single)
        PROVE  TypeOK'
    <2>1. client' \in [Ids -> P!ClientStates]
      BY <1>2, ClientType DEF BeginRefused, RefusedId
    <2> QED
      BY <1>2, <2>1, BoundsAssumption
      DEF TypeOK, P!TypeOK, BeginRefused, RefusedId, Refusal, Statuses, Ids, taskVars, streamVars, writerVars
  <1>3. ASSUME NEW r \in Ids, NEW path \in Paths, NEW single \in BOOLEAN,
               BeginAccepted(r, path, single)
        PROVE  TypeOK'
    <2>1. client' \in [Ids -> P!ClientStates]
      BY <1>3, ClientType DEF BeginAccepted, ClientTx
    <2> QED
      BY <1>3, <2>1, BoundsAssumption
      DEF TypeOK, P!TypeOK, BeginAccepted, ClientTx, Ids, taskVars, streamVars, writerVars
  <1>4. ASSUME NEW r \in Ids, Message(r)
        PROVE  TypeOK'
    BY <1>4, BoundsAssumption
    DEF TypeOK, P!TypeOK, Message, loopVars, taskVars, writerVars
  <1>5. ASSUME NEW r \in Ids, Kill(r)
        PROVE  TypeOK'
    <2>1. abort' \in [Ids -> {"none", "set", "racing"}]
      BY <1>5, AbortType DEF Kill
    <2> QED
      BY <1>5, <2>1 DEF TypeOK, P!TypeOK, Kill, Statuses, streamVars, writerVars
  <1>6. ASSUME NEW r \in Ids, DoneSending(r)
        PROVE  TypeOK'
    <2>1. client' \in [Ids -> P!ClientStates]
      BY <1>6, ClientType DEF DoneSending
    <2> QED
      BY <1>6, <2>1 DEF TypeOK, P!TypeOK, DoneSending, taskVars, streamVars, writerVars
  <1>7. ASSUME NEW r \in Ids, Cancel(r)
        PROVE  TypeOK'
    <2>1. client' \in [Ids -> P!ClientStates]
      BY <1>7, ClientType DEF Cancel
    <2>2. abort' \in [Ids -> {"none", "set", "racing"}]
      BY <1>7, AbortType DEF Cancel
    <2> QED
      BY <1>7, <2>1, <2>2 DEF TypeOK, P!TypeOK, Cancel, taskVars, streamVars, writerVars
  <1> QED
    BY <1>1, <1>2, <1>3, <1>4, <1>5, <1>6, <1>7 DEF Packet

\* The frames the transport makes, and the senders it makes them with.
LEMMA FrameType ==
    ASSUME NEW r \in Ids, NEW body \in {"headers", "message"} \cup Statuses
    PROVE  /\ [id |-> r, body |-> body] \in Frame
           /\ \A kind \in {"sink", "close", "closer"} : <<r, kind>> \in Senders
  BY DEF Frame, Senders, P!Bodies

\* A frame sent into the funnel keeps the funnel's type.
LEMMA FunnelSendType ==
    ASSUME TypeOK, NEW r \in Ids, NEW body \in {"headers", "message"} \cup Statuses,
           NEW kind \in {"sink", "close", "closer"},
           funnel' = Send(funnel, FunnelBuffer, <<r, kind>>, [id |-> r, body |-> body])
    PROVE  funnel' \in Channels(Frame, Senders)
  <1>1. funnel \in Channels(Frame, Senders)
    BY DEF TypeOK
  <1> QED
    BY <1>1, FrameType, SendType

\* A step of a handler task keeps the types.
LEMMA TaskType ==
    ASSUME TypeOK, NEW r \in Ids, TaskStep(r)
    PROVE  TypeOK'
  <1>1. CASE HandlerRecv(r)
    BY <1>1, BoundsAssumption
    DEF TypeOK, P!TypeOK, HandlerRecv, loopVars, taskVars, writerVars
  <1>2. CASE HandlerEof(r)
    BY <1>2 DEF TypeOK, P!TypeOK, HandlerEof, loopVars, taskVars, writerVars
  <1>3. CASE HandlerDropRx(r)
    BY <1>3, BoundsAssumption
    DEF TypeOK, P!TypeOK, HandlerDropRx, loopVars, taskVars, writerVars
  <1>4. ASSUME NEW body \in {"headers", "message"}, HandlerSend(r, body)
        PROVE  TypeOK'
    <2>1. funnel' \in Channels(Frame, Senders)
      BY <1>4, FunnelSendType DEF HandlerSend, Opened
    <2>2. sending' \in [Ids -> BOOLEAN]
      BY <1>4 DEF TypeOK, HandlerSend, Opened, IsParked
    <2>3. resp' \in [Ids -> {"none", "fresh", "opened"}]
      BY <1>4 DEF TypeOK, HandlerSend, Opened
    <2> QED
      BY <1>4, <2>1, <2>2, <2>3
      DEF TypeOK, P!TypeOK, HandlerSend, Opened, loopVars, taskVars, writerVars
  <1>5. CASE HandlerSendDone(r)
    BY <1>5 DEF TypeOK, P!TypeOK, HandlerSendDone, Opened, loopVars, taskVars, writerVars
  <1>6. CASE HandlerDropSend(r)
    BY <1>6 DEF TypeOK, P!TypeOK, HandlerDropSend, loopVars, taskVars, writerVars
  <1>7. ASSUME NEW status \in Statuses, SendClose(r, status)
        PROVE  TypeOK'
    <2>1. funnel' \in Channels(Frame, Senders)
      BY <1>7, FunnelSendType DEF SendClose
    <2>2. DropStreams(r)
      BY <1>7 DEF SendClose
    <2> QED
      BY <1>7, <2>1, <2>2, DropStreamsType
      DEF TypeOK, P!TypeOK, SendClose, loopVars, writerVars
  <1>8. ASSUME NEW status \in HandlerStatuses, HandlerReturn(r, status)
        PROVE  TypeOK'
    BY <1>7, <1>8, ServiceAssumption DEF HandlerReturn
  <1>9. CASE HandlerPanic(r)
    BY <1>7, <1>9 DEF HandlerPanic, Statuses
  <1>10. CASE ReportDone(r)
    <2>1. done' \in Channels(Ids, Ids)
      BY <1>10, SendType DEF TypeOK, ReportDone, Report
    <2> QED
      BY <1>10, <2>1 DEF TypeOK, P!TypeOK, ReportDone, Report, loopVars, streamVars, writerVars
  <1>11. CASE TaskEnd(r)
    BY <1>11 DEF TypeOK, P!TypeOK, TaskEnd, loopVars, streamVars, writerVars
  <1>12. CASE TaskAborted(r)
    <2>1. DropStreams(r)
      BY <1>12 DEF TaskAborted
    <2> QED
      BY <1>12, <2>1, DropStreamsType
      DEF TypeOK, P!TypeOK, TaskAborted, loopVars, writerVars
  <1> QED
    BY <1>1, <1>2, <1>3, <1>4, <1>5, <1>6, <1>8, <1>9, <1>10, <1>11, <1>12
    DEF TaskStep, HandlerStep

\* A step of a Close sender keeps the types.
LEMMA CloserType ==
    ASSUME TypeOK, NEW r \in Ids, CloserStep(r)
    PROVE  TypeOK'
  <1>1. CASE CloserSend(r)
    <2>1. funnel' \in Channels(Frame, Senders)
      BY <1>1, FunnelSendType DEF CloserSend, CloserSender
    <2> QED
      BY <1>1, <2>1 DEF TypeOK, P!TypeOK, CloserSend, CloserSender, loopVars, taskVars, streamVars, writerVars
  <1>2. CASE CloserEnd(r)
    BY <1>2 DEF TypeOK, P!TypeOK, CloserEnd, CloserSender, loopVars, taskVars, streamVars, writerVars
  <1> QED
    BY <1>1, <1>2 DEF CloserStep

\* A step of the writer task keeps the types.
LEMMA WriterType ==
    ASSUME TypeOK, Writer
    PROVE  TypeOK'
  <1>1. CASE WriterTake
    <2>1. funnel' \in Channels(Frame, Senders)
      BY <1>1, ReceiveType DEF TypeOK, WriterTake
    <2>2. Head(funnel.queue) \in Frame
      BY <1>1 DEF TypeOK, WriterTake, Channels
    <2>3. held' \in Seq(Frame)
      BY <1>1, <2>2 DEF WriterTake
    <2> QED
      BY <1>1, <2>1, <2>3 DEF TypeOK, P!TypeOK, WriterTake, loopVars, taskVars, streamVars
  <1>2. CASE WriterSend
    <2>1. Head(held) \in Frame
      BY <1>2 DEF TypeOK, WriterSend
    <2>2. Head(held).id \in Ids /\ Head(held).body \in P!Bodies
      BY <2>1 DEF Frame
    <2>3. wire' \in [Ids -> Seq(P!Bodies)]
      BY <1>2, <2>2 DEF TypeOK, P!TypeOK, WriterSend
    <2>4. held' \in Seq(Frame)
      BY <1>2 DEF WriterSend
    <2> QED
      BY <1>2, <2>3, <2>4 DEF TypeOK, P!TypeOK, WriterSend, loopVars, taskVars, streamVars
  <1>3. CASE WriterFail
    <2>1. held' \in Seq(Frame)
      BY <1>3 DEF WriterFail
    <2> QED
      BY <1>3, <2>1, ConstantChannels
      DEF TypeOK, P!TypeOK, WriterFail, loopVars, taskVars, streamVars
  <1>4. CASE WriterFinish
    BY <1>4, ConstantChannels
    DEF TypeOK, P!TypeOK, WriterFinish, loopVars, taskVars, streamVars
  <1> QED
    BY <1>1, <1>2, <1>3, <1>4 DEF Writer

\* Every step of the connection keeps TypeOK.
LEMMA TypeStep ==
    ASSUME TypeOK, [Next]_vars
    PROVE  TypeOK'
  <1>1. CASE RunLoop
    <2>1. CASE LoopDone
      <3>1. done' \in Channels(Ids, Ids)
        BY <2>1, ReceiveType DEF TypeOK, LoopDone
      <3> QED
        BY <2>1, <3>1 DEF TypeOK, P!TypeOK, LoopDone, taskVars, streamVars, writerVars
    <2> QED
      BY <1>1, <2>1, PacketType, StopType DEF RunLoop, InboundClosed, WriterGone
  <1>2. CASE UNCHANGED vars
    BY <1>2 DEF TypeOK, P!TypeOK, vars, loopVars, taskVars, streamVars, writerVars
  <1> QED
    BY <1>1, <1>2, TaskType, CloserType, WriterType DEF Next

\* Every reachable state is a state of the types the code declares.
THEOREM TypeCorrect == Spec => []TypeOK
  <1>1. Init => TypeOK
    BY BoundsAssumption, ConstantChannels DEF Init, TypeOK, P!Init, P!TypeOK, P!ClientStates
  <1>2. TypeOK /\ [Next]_vars => TypeOK'
    BY TypeStep
  <1> QED
    BY <1>1, <1>2, PTL DEF Spec

-----------------------------------------------------------------------------
(* The session table.  A step of a handler, a Close sender or the writer   *)
(* that reports no completion is quiet: it moves tasks forward only.       *)

Quiet ==
    /\ UNCHANGED <<loop, highest, session, abort, done>>
    /\ \A r \in Ids :
        /\ \/ task'[r] = task[r]
           \/ task[r] = "handler" /\ task'[r] = "closing"
           \/ task[r] = "reporting" /\ task'[r] = "ended"
           \/ IsLive(r) /\ abort[r] # "none" /\ task'[r] = "dropped"
        /\ closer'[r] = closer[r] \/ closer[r] # "none"

\* A quiet step keeps the session invariant.
LEMMA QuietStep ==
    ASSUME TypeOK, SessionInv, Quiet
    PROVE  SessionInv'
  <1>1. NoOrphanTask'
    BY DEF Quiet, SessionInv, NoOrphanTask, Unfinished, TypeOK
  <1>2. NoLeakedSession'
    BY DEF Quiet, SessionInv, NoLeakedSession, Unfinished, LiveSessions, IsLive
  <1>3. FreshIds'
    BY DEF Quiet, SessionInv, FreshIds, IsLive
  <1>4. DoneReported'
    <2>1. \A i \in DOMAIN done.queue : done.queue[i] \in Ids
      BY DEF TypeOK, Channels
    <2> QED
      BY <2>1 DEF Quiet, SessionInv, DoneReported
  <1>5. LoopOwnsSessions'
    BY DEF Quiet, SessionInv, LoopOwnsSessions, LiveSessions
  <1> QED
    BY <1>1, <1>2, <1>3, <1>4, <1>5 DEF SessionInv

\* Every step of a task, of a Close sender or of the writer is quiet, but ReportDone.
LEMMA QuietSteps ==
    ASSUME TypeOK, NEW r \in Ids,
           (TaskStep(r) /\ ~ReportDone(r)) \/ CloserStep(r) \/ Writer \/ Message(r) \/ UNCHANGED vars
    PROVE  Quiet
  <1>1. CASE HandlerRecv(r) \/ HandlerEof(r) \/ HandlerDropRx(r)
    BY <1>1 DEF Quiet, HandlerRecv, HandlerEof, HandlerDropRx, loopVars, taskVars
  <1>2. CASE \E body \in {"headers", "message"} : HandlerSend(r, body)
    BY <1>2 DEF Quiet, HandlerSend, Opened, loopVars, taskVars
  <1>3. CASE HandlerSendDone(r) \/ HandlerDropSend(r)
    BY <1>3 DEF Quiet, HandlerSendDone, HandlerDropSend, loopVars, taskVars
  <1>4. CASE HandlerPanic(r) \/ \E status \in HandlerStatuses : HandlerReturn(r, status)
    BY <1>4 DEF Quiet, HandlerPanic, HandlerReturn, Handling, SendClose, loopVars, TypeOK
  <1>5. CASE TaskEnd(r)
    BY <1>5 DEF Quiet, TaskEnd, loopVars, TypeOK
  <1>6. CASE TaskAborted(r)
    BY <1>6 DEF Quiet, TaskAborted, loopVars, TypeOK
  <1>7. CASE CloserStep(r)
    BY <1>7 DEF Quiet, CloserStep, CloserSend, CloserSender, CloserEnd, Statuses, loopVars, taskVars, TypeOK
  <1>8. CASE Writer
    BY <1>8
    DEF Quiet, Writer, WriterTake, WriterSend, WriterFail, WriterFinish, loopVars, taskVars
  <1>9. CASE Message(r)
    BY <1>9 DEF Quiet, Message, loopVars, taskVars
  <1>10. CASE UNCHANGED vars
    BY <1>10 DEF Quiet, vars, loopVars, taskVars
  <1> QED
    BY <1>1, <1>2, <1>3, <1>4, <1>5, <1>6, <1>7, <1>8, <1>9, <1>10 DEF TaskStep, HandlerStep

\* Every handle of S is set, and no other.
LEMMA AbortEffect ==
    ASSUME TypeOK, NEW S \in SUBSET Ids, AbortTasks(S), NEW r \in Ids
    PROVE  IF r \in S THEN abort'[r] # "none" ELSE abort'[r] = abort[r]
  BY DEF AbortTasks

\* The end of the run loop empties the table and aborts what was in it.
LEMMA StopSessions ==
    ASSUME TypeOK, SessionInv, Stop
    PROVE  SessionInv'
  <1>1. LiveSessions \in SUBSET Ids
    BY DEF LiveSessions
  <1>2. \A r \in Ids : IF r \in LiveSessions THEN abort'[r] # "none" ELSE abort'[r] = abort[r]
    BY <1>1, AbortEffect DEF Stop
  <1>3. \A r \in Ids : session'[r] = "absent"
    BY DEF Stop
  <1>4. UNCHANGED <<highest, task, closer>> /\ loop' = "stopped" /\ done' = ClosedChannel
    BY DEF Stop
  <1>5. NoOrphanTask'
    BY <1>2, <1>4 DEF SessionInv, NoOrphanTask, Unfinished, LiveSessions
  <1>6. NoLeakedSession'
    BY <1>3 DEF NoLeakedSession, LiveSessions
  <1>7. FreshIds'
    BY <1>2, <1>3, <1>4 DEF SessionInv, FreshIds, LiveSessions
  <1>8. DoneReported'
    BY <1>4 DEF DoneReported, ClosedChannel
  <1>9. LoopOwnsSessions'
    BY <1>3, <1>4 DEF LoopOwnsSessions, ClosedChannel, LiveSessions
  <1> QED
    BY <1>5, <1>6, <1>7, <1>8, <1>9 DEF SessionInv

\* Taking a session out of the table and aborting its task, as Cancel and Kill
\* do.  The reason why `remove` and `abort` belong together.
LEMMA RemoveSession ==
    ASSUME TypeOK, SessionInv, NEW r \in Ids, loop = "running",
           session' = [session EXCEPT ![r] = "absent"],
           AbortTasks({r} \cap LiveSessions),
           UNCHANGED <<loop, highest, task, done>>,
           \A q \in Ids : closer'[q] = closer[q] \/ (q = r /\ session[r] # "absent")
    PROVE  SessionInv'
  <1>1. \A q \in Ids : IF q = r /\ session[r] # "absent" THEN abort'[q] # "none"
                                                        ELSE abort'[q] = abort[q]
    BY AbortEffect DEF LiveSessions
  <1>2. NoOrphanTask'
    BY <1>1 DEF SessionInv, NoOrphanTask, Unfinished, TypeOK
  <1>3. NoLeakedSession'
    BY <1>1 DEF SessionInv, NoLeakedSession, Unfinished, LiveSessions, TypeOK
  <1>4. FreshIds'
    BY <1>1 DEF SessionInv, FreshIds, TypeOK
  <1>5. DoneReported' /\ LoopOwnsSessions'
    BY DEF SessionInv, DoneReported, LoopOwnsSessions
  <1> QED
    BY <1>2, <1>3, <1>4, <1>5 DEF SessionInv

\* handle_packet keeps the session invariant, outcome by outcome.
LEMMA PacketSessions ==
    ASSUME TypeOK, SessionInv, Packet
    PROVE  SessionInv'
  <1>1. ASSUME NEW r \in 0..MaxId, BeginViolation(r)
        PROVE  SessionInv'
    BY <1>1, StopSessions DEF BeginViolation
  <1>2. ASSUME NEW r \in Ids, NEW path \in Paths, NEW single \in BOOLEAN,
               BeginRefused(r, path, single)
        PROVE  SessionInv'
    <2>1. UNCHANGED <<loop, session, task, abort, done>> /\ highest' = r /\ highest < r
      BY <1>2, BoundsAssumption DEF BeginRefused, RefusedId, StaleId, taskVars, TypeOK, Ids
    <2>2. \A q \in Ids : q # r => closer'[q] = closer[q]
      BY <1>2 DEF BeginRefused, RefusedId, TypeOK
    <2>3. FreshIds'
      BY <2>1, <2>2, BoundsAssumption DEF SessionInv, FreshIds, Ids, TypeOK
    <2> QED
      BY <2>1, <2>3
      DEF SessionInv, NoOrphanTask, Unfinished, NoLeakedSession, LiveSessions,
          DoneReported, LoopOwnsSessions
  <1>3. ASSUME NEW r \in Ids, NEW path \in Paths, NEW single \in BOOLEAN,
               BeginAccepted(r, path, single)
        PROVE  SessionInv'
    <2>1. /\ UNCHANGED <<loop, abort, done, closer>> /\ highest' = r /\ highest < r
          /\ loop = "running"
          /\ task' = [task EXCEPT ![r] = "handler"]
      BY <1>3, BoundsAssumption DEF BeginAccepted, ClientTx, StaleId, TypeOK, Ids
    <2>2. session'[r] # "absent" /\ \A q \in Ids : q # r => session'[q] = session[q]
      BY <1>3 DEF BeginAccepted, ClientTx, TypeOK
    <2>3. task'[r] = "handler" /\ \A q \in Ids : q # r => task'[q] = task[q]
      BY <2>1 DEF TypeOK
    <2>4. task[r] = "unspawned" /\ abort[r] = "none"
      BY <2>1 DEF SessionInv, FreshIds
    <2>5. FreshIds'
      BY <2>1, <2>2, <2>3, BoundsAssumption DEF SessionInv, FreshIds, Ids, TypeOK
    <2>6. NoOrphanTask'
      BY <2>1, <2>2, <2>3 DEF SessionInv, NoOrphanTask, Unfinished
    <2>7. NoLeakedSession'
      BY <2>1, <2>2, <2>3, <2>4
      DEF SessionInv, NoLeakedSession, Unfinished, LiveSessions
    <2>8. DoneReported'
      <3>1. \A i \in DOMAIN done.queue : done.queue[i] \in Ids
        BY DEF TypeOK, Channels
      <3> QED
        BY <2>1, <2>3, <2>4, <3>1 DEF SessionInv, DoneReported
    <2>9. LoopOwnsSessions'
      BY <2>1 DEF SessionInv, LoopOwnsSessions
    <2> QED
      BY <2>5, <2>6, <2>7, <2>8, <2>9 DEF SessionInv
  <1>4. ASSUME NEW r \in Ids, Message(r)
        PROVE  SessionInv'
    BY <1>4, QuietSteps, QuietStep
  <1>5. ASSUME NEW r \in Ids, Kill(r)
        PROVE  SessionInv'
    <2>1. {r} \cap LiveSessions = {r}
      BY <1>5 DEF Kill, LiveSessions
    <2>2. \A q \in Ids : closer'[q] = closer[q] \/ (q = r /\ session[r] # "absent")
      BY <1>5 DEF Kill, TypeOK
    <2> QED
      BY <1>5, <2>1, <2>2, RemoveSession DEF Kill
  <1>6. ASSUME NEW r \in Ids, DoneSending(r)
        PROVE  SessionInv'
    <2>1. \A q \in Ids : session'[q] = "absent" <=> session[q] = "absent"
      BY <1>6 DEF DoneSending, TypeOK
    <2>2. UNCHANGED <<loop, highest, task, abort, closer, done>>
      BY <1>6 DEF DoneSending, taskVars
    <2> QED
      BY <2>1, <2>2
      DEF SessionInv, NoOrphanTask, Unfinished, NoLeakedSession, LiveSessions, FreshIds,
          DoneReported, LoopOwnsSessions
  <1>7. ASSUME NEW r \in Ids, Cancel(r)
        PROVE  SessionInv'
    BY <1>7, RemoveSession DEF Cancel
  <1> QED
    BY <1>1, <1>2, <1>3, <1>4, <1>5, <1>6, <1>7 DEF Packet

\* Event::Done: the session it removes belongs to a finished handler.
LEMMA LoopDoneSessions ==
    ASSUME TypeOK, SessionInv, LoopDone
    PROVE  SessionInv'
  <1> DEFINE q == done.queue
             d == Head(q)
  <1>1. q \in Seq(Ids) /\ q # <<>>
    BY DEF LoopDone, TypeOK, Channels
  <1>2. d \in Ids /\ d = q[1] /\ 1 \in DOMAIN q
    BY <1>1
  <1>3. ~Unfinished(d) /\ task[d] # "unspawned"
    BY <1>2 DEF SessionInv, DoneReported, Unfinished
  <1>4. session' = [session EXCEPT ![d] = "absent"]
    BY DEF LoopDone
  <1>5. done'.queue = Tail(q) /\ done'.open = done.open
    BY DEF LoopDone, Receive, TypeOK, Channels
  <1>6. UNCHANGED <<loop, highest, task, abort, closer>> /\ loop = "running"
    BY DEF LoopDone, taskVars
  <1>7. \A i \in DOMAIN Tail(q) : i + 1 \in DOMAIN q /\ Tail(q)[i] = q[i + 1]
    BY <1>1
  <1>8. NoOrphanTask'
    BY <1>3, <1>4, <1>6 DEF SessionInv, NoOrphanTask, Unfinished, TypeOK
  <1>9. NoLeakedSession'
    <2> SUFFICES ASSUME NEW r \in Ids, session'[r] # "absent"
                 PROVE  abort'[r] = "none"
                        /\ (Unfinished(r)' \/ \E i \in DOMAIN done'.queue : done'.queue[i] = r)
      BY DEF NoLeakedSession, LiveSessions
    <2>1. r # d /\ session[r] # "absent"
      BY <1>4 DEF TypeOK
    <2>2. abort[r] = "none" /\ (Unfinished(r) \/ \E i \in DOMAIN q : q[i] = r)
      BY <2>1 DEF SessionInv, NoLeakedSession, LiveSessions
    <2>3. ASSUME NEW i \in DOMAIN q, q[i] = r
          PROVE  i - 1 \in DOMAIN Tail(q) /\ Tail(q)[i - 1] = r
      BY <1>1, <1>2, <2>1, <2>3
    <2> QED
      BY <1>5, <1>6, <2>2, <2>3 DEF Unfinished
  <1>10. FreshIds'
    BY <1>4, <1>6 DEF SessionInv, FreshIds, TypeOK
  <1>11. DoneReported'
    BY <1>5, <1>6, <1>7 DEF SessionInv, DoneReported
  <1>12. LoopOwnsSessions'
    BY <1>5, <1>6 DEF SessionInv, LoopOwnsSessions
  <1> QED
    BY <1>8, <1>9, <1>10, <1>11, <1>12 DEF SessionInv

\* The task's done_tx.send: from here on the done channel vouches for the session.
LEMMA ReportDoneSessions ==
    ASSUME TypeOK, SessionInv, NEW r \in Ids, ReportDone(r)
    PROVE  SessionInv'
  <1>1. UNCHANGED <<loop, highest, session, abort, closer>>
    BY DEF ReportDone, Report, loopVars
  <1>2. task[r] = "closing" /\ task'[r] = "reporting"
        /\ \A p \in Ids : p # r => task'[p] = task[p]
    BY DEF ReportDone, Report, TypeOK
  <1>3. done.queue \in Seq(Ids)
    BY DEF TypeOK, Channels
  <1>4. CASE ~done.open
    <2>1. done' = done /\ LiveSessions = {}
      BY <1>4 DEF ReportDone, Report, Send, SessionInv, LoopOwnsSessions, TypeOK
    <2>2. \A i \in DOMAIN done.queue : done.queue[i] \in Ids
      BY <1>3
    <2> QED
      BY <1>1, <1>2, <2>1, <2>2
      DEF SessionInv, NoOrphanTask, Unfinished, NoLeakedSession, LiveSessions, FreshIds,
          DoneReported, LoopOwnsSessions
  <1>5. CASE done.open
    <2>1. done'.queue = Append(done.queue, r) /\ done'.open = done.open
      BY <1>5 DEF ReportDone, Report, Send, TypeOK, Channels
    <2>2. \A i \in DOMAIN done'.queue : done'.queue[i] \in Ids
              /\ (done'.queue[i] = r \/ (i \in DOMAIN done.queue /\ done'.queue[i] = done.queue[i]))
      BY <1>3, <2>1
    <2>3. \A i \in DOMAIN done.queue : i \in DOMAIN done'.queue /\ done'.queue[i] = done.queue[i]
      BY <1>3, <2>1
    <2>4. \E i \in DOMAIN done'.queue : done'.queue[i] = r
      <3>1. Len(done.queue) + 1 \in DOMAIN done'.queue /\ done'.queue[Len(done.queue) + 1] = r
        BY <1>3, <2>1
      <3> QED
        BY <3>1
    <2>5. NoOrphanTask'
      BY <1>1, <1>2 DEF SessionInv, NoOrphanTask, Unfinished
    <2>6. NoLeakedSession'
      BY <1>1, <1>2, <2>3, <2>4 DEF SessionInv, NoLeakedSession, Unfinished, LiveSessions
    <2>7. FreshIds'
      BY <1>1, <1>2 DEF SessionInv, FreshIds
    <2>8. DoneReported'
      BY <1>2, <2>2 DEF SessionInv, DoneReported
    <2>9. LoopOwnsSessions'
      BY <1>1, <2>1 DEF SessionInv, LoopOwnsSessions, LiveSessions
    <2> QED
      BY <2>5, <2>6, <2>7, <2>8, <2>9 DEF SessionInv
  <1> QED
    BY <1>4, <1>5

\* Every step of the connection keeps the session invariant.
LEMMA SessionStep ==
    ASSUME TypeOK, SessionInv, [Next]_vars
    PROVE  SessionInv'
  <1>1. CASE RunLoop
    BY <1>1, PacketSessions, LoopDoneSessions, StopSessions DEF RunLoop, InboundClosed, WriterGone
  <1>2. ASSUME NEW r \in Ids, TaskStep(r) \/ CloserStep(r)
        PROVE  SessionInv'
    BY <1>2, ReportDoneSessions, QuietSteps, QuietStep
  <1>3. CASE Writer \/ UNCHANGED vars
    <2>1. Quiet
      BY <1>3
      DEF Quiet, Writer, WriterTake, WriterSend, WriterFail, WriterFinish,
          vars, loopVars, taskVars
    <2> QED
      BY <2>1, QuietStep
  <1> QED
    BY <1>1, <1>2, <1>3 DEF Next

\* The inductive invariant behind the session theorems.
LEMMA SessionInvariant == Spec => []SessionInv
  <1>1. Init => SessionInv
    BY DEF Init, SessionInv, NoOrphanTask, Unfinished, NoLeakedSession, LiveSessions, FreshIds,
           DoneReported, LoopOwnsSessions, EmptyChannel
  <1>2. TypeOK /\ SessionInv /\ [Next]_vars => SessionInv'
    BY SessionStep
  <1> QED
    BY <1>1, <1>2, TypeCorrect, PTL DEF Spec

\* No handler outlives its session unaborted, and no session outlives its call:
\* with threads, with any client, for any number of calls.
THEOREM SessionTableSound == Spec => []SessionTable
  <1>1. SessionInv => SessionTable
    BY DEF SessionInv, SessionTable
  <1> QED
    BY <1>1, SessionInvariant, PTL

\* No call id is ever begun twice: neither one that was served nor one that was
\* refused, nor one below.
THEOREM NoReuse == Spec => IdsNeverReused
  <1> DEFINE Kept == \A q, r \in Ids : Begun(q) /\ r <= q => ~Begins(r)
  <1>1. ASSUME TypeOK, SessionInv, [Next]_vars
        PROVE  Kept
    <2> DEFINE Idle == \A r \in Ids : ~Begins(r)
    <2>1. Idle => Kept
      OBVIOUS
    <2>2. CASE \A r \in Ids : /\ session'[r] \in {"absent", session[r]}
                              /\ task'[r] # "handler" \/ task[r] = "handler"
                              /\ closer'[r] \in Statuses => closer'[r] = closer[r]
      BY <2>1, <2>2 DEF Begins
    <2>3. CASE Stop
      BY <2>2, <2>3 DEF Stop
    <2>4. ASSUME NEW b \in Ids, NEW path \in Paths, NEW single \in BOOLEAN,
                 BeginRefused(b, path, single) \/ BeginAccepted(b, path, single)
          PROVE  Kept
      <3> SUFFICES ASSUME NEW q \in Ids, NEW r \in Ids, Begun(q), r <= q
                   PROVE  ~Begins(r)
        OBVIOUS
      <3>1. q <= highest
        <4>1. ~(q > highest)
          BY <1>1 DEF SessionInv, FreshIds, Begun
        <4> QED
          BY <1>1, <4>1, BoundsAssumption DEF TypeOK, Ids
      <3>2. highest < b
        BY <1>1, <2>4, BoundsAssumption DEF BeginRefused, BeginAccepted, StaleId, TypeOK, Ids
      <3>3. r # b
        BY <1>1, <3>1, <3>2, BoundsAssumption DEF TypeOK, Ids
      <3> QED
        BY <1>1, <2>4, <3>3 DEF Begins, BeginRefused, BeginAccepted, TypeOK, taskVars
    <2>5. ASSUME NEW b \in Ids, DoneSending(b) \/ Cancel(b)
          PROVE  Kept
      <3>1. \A r \in Ids : session[r] = "absent" => session'[r] = "absent"
        BY <1>1, <2>5 DEF DoneSending, Cancel, TypeOK
      <3> QED
        BY <2>1, <2>5, <3>1 DEF Begins, DoneSending, Cancel, taskVars
    <2>6. ASSUME NEW b \in Ids, Kill(b)
          PROVE  Kept
      <3>1. \A r \in Ids : /\ session[r] = "absent" => session'[r] = "absent" /\ r # b
                           /\ r # b => closer'[r] = closer[r]
        BY <1>1, <2>6 DEF Kill, TypeOK
      <3> QED
        BY <2>1, <2>6, <3>1 DEF Begins, Kill
    <2>7. CASE LoopDone
      <3>1. \A r \in Ids : session[r] = "absent" => session'[r] = "absent"
        BY <1>1, <2>7 DEF LoopDone, TypeOK
      <3> QED
        BY <2>1, <2>7, <3>1 DEF Begins, LoopDone, taskVars
    <2>8. ASSUME NEW b \in Ids, ReportDone(b)
          PROVE  Kept
      BY <1>1, <2>2, <2>8 DEF ReportDone, TypeOK, loopVars
    <2>9. CASE Writer \/ UNCHANGED vars
      BY <2>2, <2>9
      DEF Writer, WriterTake, WriterSend, WriterFail, WriterFinish, vars, loopVars, taskVars
    <2>10. ASSUME NEW b \in Ids, CloserStep(b)
           PROVE  Kept
      BY <1>1, <2>2, <2>10
      DEF CloserStep, CloserSend, CloserEnd, Statuses, TypeOK, loopVars, taskVars
    <2>11. ASSUME NEW b \in Ids, TaskStep(b)
           PROVE  Kept
      <3>1. UNCHANGED closer
        BY <2>11
        DEF TaskStep, HandlerStep, HandlerRecv, HandlerEof, HandlerDropRx, HandlerSend, HandlerSendDone,
            HandlerDropSend, HandlerReturn, HandlerPanic, SendClose, ReportDone, TaskEnd, TaskAborted
      <3>2. ReportDone(b) \/ Quiet
        BY <1>1, <2>11, QuietSteps
      <3> QED
        BY <2>2, <2>8, <3>1, <3>2 DEF Quiet, IsLive
    <2>12. ASSUME NEW b \in Ids, Message(b)
           PROVE  Kept
      BY <2>2, <2>12 DEF Message, loopVars, taskVars
    <2>13. CASE Packet
      BY <2>3, <2>4, <2>5, <2>6, <2>12, <2>13 DEF Packet, BeginViolation
    <2> HIDE DEF Kept
    <2> QED
      BY <1>1, <2>3, <2>7, <2>9, <2>10, <2>11, <2>13 DEF Next, RunLoop, InboundClosed, WriterGone
  <1>2. TypeOK /\ SessionInv /\ [Next]_vars => [Kept]_vars
    BY <1>1
  <1> QED
    BY <1>2, TypeCorrect, SessionInvariant, PTL DEF Spec, IdsNeverReused

-----------------------------------------------------------------------------
(* The funnel.                                                             *)

\* A send of a sender that is not parked keeps the funnel in shape and parks
\* nobody but that sender.
LEMMA SendFunnel ==
    ASSUME TypeOK, FunnelShape, ParkedOnce, ParkedForFrame, NEW f \in Frame,
           NEW s \in Senders, s \in SendersOf(f),
           ~IsParked(funnel, s), funnel' = Send(funnel, FunnelBuffer, s, f)
    PROVE  /\ FunnelShape' /\ ParkedOnce' /\ ParkedForFrame'
           /\ \A t \in Senders : t # s /\ IsParked(funnel, t)' => IsParked(funnel, t)
  <1> DEFINE q == funnel.queue
             w == funnel.parked
  <1>1. q \in Seq(Frame) /\ w \in Seq(Senders)
    BY DEF TypeOK, Channels
  <1>2. CASE funnel' = funnel
    BY <1>2 DEF FunnelShape, ParkedOnce, ParkedForFrame, IsParked
  <1>3. CASE funnel.open /\ Len(q) >= FunnelBuffer
    <2>1. funnel'.queue = Append(q, f) /\ funnel'.parked = Append(w, s)
      BY <1>3 DEF Send, TypeOK, Channels
    <2>2. Len(funnel'.queue) = Len(q) + 1 /\ Len(funnel'.parked) = Len(w) + 1
      BY <1>1, <2>1
    <2>3. FunnelShape'
      <3>1. funnel'.parked # <<>>
        BY <1>1, <2>1
      <3>2. Len(q) = FunnelBuffer + Len(w)
        BY <1>1, <1>3, BoundsAssumption DEF FunnelShape
      <3> QED
        BY <1>1, <2>2, <3>1, <3>2, BoundsAssumption DEF FunnelShape
    <2>4. \A i \in DOMAIN w : w[i] # s
      BY DEF IsParked
    <2>5. \A i \in DOMAIN Append(w, s) :
            \/ i \in DOMAIN w /\ Append(w, s)[i] = w[i]
            \/ i = Len(w) + 1 /\ Append(w, s)[i] = s
      BY <1>1
    <2> DEFINE v == Append(w, s)
    <2>6. funnel'.parked = v /\ \A i \in DOMAIN v : (i \in DOMAIN w /\ v[i] = w[i])
                                                  \/ (i = Len(w) + 1 /\ v[i] = s)
      BY <2>1, <2>5
    <2> HIDE DEF v
    <2>7. ParkedOnce'
      BY <2>4, <2>6 DEF ParkedOnce
    <2>8. \A t \in Senders : t # s /\ IsParked(funnel, t)' => IsParked(funnel, t)
      BY <2>6 DEF IsParked
    <2>9. ParkedForFrame'
      <3>1. Len(q) = FunnelBuffer + Len(w) /\ Len(q) \in Nat /\ Len(w) \in Nat
        BY <1>1, <1>3, BoundsAssumption DEF FunnelShape
      <3> SUFFICES ASSUME NEW i \in DOMAIN v
                   PROVE  v[i] \in SendersOf(Append(q, f)[FunnelBuffer + i])
        BY <2>1, <2>6 DEF ParkedForFrame
      <3>2. CASE i \in DOMAIN w /\ v[i] = w[i]
        <4>1. i \in 1..Len(w)
          BY <1>1, <3>2
        <4>2. FunnelBuffer + i \in 1..Len(q)
          BY <3>1, <4>1, BoundsAssumption
        <4>3. Append(q, f)[FunnelBuffer + i] = q[FunnelBuffer + i]
          BY <1>1, <4>2
        <4> QED
          BY <3>2, <4>3 DEF ParkedForFrame
      <3>3. CASE i = Len(w) + 1 /\ v[i] = s
        <4>1. FunnelBuffer + i = Len(q) + 1
          BY <3>1, <3>3, BoundsAssumption
        <4>2. Append(q, f)[FunnelBuffer + i] = f
          BY <1>1, <4>1
        <4> QED
          BY <3>3, <4>2
      <3> QED
        BY <2>6, <3>2, <3>3
    <2> QED
      BY <2>3, <2>7, <2>8, <2>9
  <1>4. CASE funnel.open /\ ~(Len(q) >= FunnelBuffer)
    <2>1. funnel'.queue = Append(q, f) /\ funnel'.parked = w
      BY <1>4 DEF Send, TypeOK, Channels
    <2>2. FunnelShape'
      BY <1>1, <1>4, <2>1, BoundsAssumption DEF FunnelShape
    <2>3. w = <<>>
      BY <1>1, <1>4, BoundsAssumption DEF FunnelShape
    <2> QED
      BY <2>1, <2>2, <2>3 DEF ParkedOnce, ParkedForFrame, IsParked
  <1> QED
    BY <1>2, <1>3, <1>4 DEF Send

\* A receive keeps the funnel in shape and parks nobody.
LEMMA ReceiveFunnel ==
    ASSUME TypeOK, FunnelShape, ParkedOnce, ParkedForFrame,
           funnel.queue # <<>>, funnel' = Receive(funnel)
    PROVE  /\ FunnelShape' /\ ParkedOnce' /\ ParkedForFrame'
           /\ \A t \in Senders : IsParked(funnel, t)' => IsParked(funnel, t)
  <1> DEFINE q == funnel.queue
             w == funnel.parked
  <1>1. q \in Seq(Frame) /\ w \in Seq(Senders)
    BY DEF TypeOK, Channels
  <1>2. funnel'.queue = Tail(q) /\ Len(Tail(q)) = Len(q) - 1
    BY <1>1 DEF Receive, TypeOK, Channels
  <1>3. CASE w = <<>>
    <2>1. funnel'.parked = w
      BY <1>3 DEF Receive, TypeOK, Channels
    <2> QED
      BY <1>1, <1>2, <1>3, <2>1, BoundsAssumption
      DEF FunnelShape, ParkedOnce, ParkedForFrame, IsParked
  <1>4. CASE w # <<>>
    <2>1. funnel'.parked = Tail(w)
      BY <1>4 DEF Receive, TypeOK, Channels
    <2>2. \A i \in DOMAIN Tail(w) : i + 1 \in DOMAIN w /\ Tail(w)[i] = w[i + 1]
      BY <1>1, <1>4
    <2>3. Tail(w) \in Seq(Senders) /\ Len(Tail(w)) = Len(w) - 1
      BY <1>1, <1>4
    <2>4. FunnelShape'
      <3>1. Len(q) = FunnelBuffer + Len(w)
        BY <1>4 DEF FunnelShape
      <3>2. Len(funnel'.queue) = FunnelBuffer + Len(Tail(w))
        BY <1>1, <1>2, <2>3, <3>1, BoundsAssumption
      <3> DEFINE v == Tail(w)
      <3>3. funnel'.parked = v /\ Len(funnel'.queue) = FunnelBuffer + Len(v)
        BY <2>1, <3>2
      <3> HIDE DEF v
      <3>4. CASE v = <<>>
        <4>1. Len(v) = 0
          BY <3>4
        <4> QED
          BY <3>3, <3>4, <4>1, BoundsAssumption DEF FunnelShape
      <3>5. CASE v # <<>>
        BY <3>3, <3>5 DEF FunnelShape
      <3> QED
        BY <3>4, <3>5
    <2>5. DOMAIN Tail(w) \subseteq Nat
      BY <1>1, <1>4
    <2>6. ParkedOnce'
      BY <2>1, <2>2, <2>5 DEF ParkedOnce
    <2>7. \A t \in Senders : IsParked(funnel, t)' => IsParked(funnel, t)
      BY <2>1, <2>2 DEF IsParked
    <2>8. ParkedForFrame'
      <3>1. Len(q) = FunnelBuffer + Len(w) /\ Len(q) \in Nat /\ Len(w) \in Nat
        BY <1>1, <1>4 DEF FunnelShape
      <3> SUFFICES ASSUME NEW i \in DOMAIN Tail(w)
                   PROVE  Tail(w)[i] \in SendersOf(Tail(q)[FunnelBuffer + i])
        BY <1>2, <2>1 DEF ParkedForFrame
      <3>2. i \in 1..(Len(w) - 1)
        BY <2>3
      <3>3. FunnelBuffer + i \in 1..(Len(q) - 1) /\ FunnelBuffer + i + 1 = FunnelBuffer + (i + 1)
        BY <3>1, <3>2, BoundsAssumption
      <3>4. Tail(q)[FunnelBuffer + i] = q[FunnelBuffer + (i + 1)]
        BY <1>1, <3>3
      <3> QED
        BY <2>2, <3>4 DEF ParkedForFrame
    <2> QED
      BY <2>4, <2>6, <2>7, <2>8
  <1> QED
    BY <1>3, <1>4

\* A Close that was sent is never owed again, and the loop owes one only to a
\* call without a session.
Forward ==
    \A r \in Ids :
        /\ task'[r] \in {"unspawned", "handler"} => task[r] \in {"unspawned", "handler"}
        /\ closer'[r] \in {"none"} \cup Statuses => closer[r] \in {"none"} \cup Statuses
        /\ closer'[r] # "none" => session'[r] = "absent"

\* handle_packet sends nothing itself, and owes a Close only to a call without a
\* session: a refused one, whose id is new, or a killed one.
LEMMA ForwardPackets ==
    ASSUME TypeOK, SessionInv, FunnelInv, Packet
    PROVE  Forward /\ UNCHANGED funnel
  <1>1. \A r \in Ids : closer[r] # "none" => session[r] = "absent"
    BY DEF FunnelInv, CloseSendersFresh
  <1>2. ASSUME Stop
        PROVE  Forward /\ UNCHANGED funnel
    BY <1>2 DEF Forward, Stop
  <1>3. ASSUME NEW r \in Ids, NEW path \in Paths, NEW single \in BOOLEAN,
               BeginRefused(r, path, single) \/ BeginAccepted(r, path, single)
        PROVE  Forward /\ UNCHANGED funnel
    <2>1. r > highest
      BY <1>3, BoundsAssumption DEF BeginRefused, RefusedId, BeginAccepted, ClientTx, StaleId, TypeOK, Ids
    <2>2. session[r] = "absent" /\ task[r] = "unspawned" /\ closer[r] = "none"
      BY <2>1 DEF SessionInv, FreshIds
    <2> QED
      BY <1>1, <1>3, <2>2 DEF Forward, BeginRefused, RefusedId, BeginAccepted, ClientTx, TypeOK, taskVars
  <1>4. ASSUME NEW r \in Ids, Message(r)
        PROVE  Forward /\ UNCHANGED funnel
    BY <1>1, <1>4 DEF Forward, Message, loopVars, taskVars
  <1>5. ASSUME NEW r \in Ids, Kill(r)
        PROVE  Forward /\ UNCHANGED funnel
    <2>1. closer[r] = "none" /\ session'[r] = "absent"
      BY <1>1, <1>5 DEF Kill, TypeOK
    <2> QED
      BY <1>1, <1>5, <2>1 DEF Forward, Kill, TypeOK
  <1>6. ASSUME NEW r \in Ids, DoneSending(r) \/ Cancel(r)
        PROVE  Forward /\ UNCHANGED funnel
    BY <1>1, <1>6 DEF Forward, DoneSending, Cancel, TypeOK, taskVars
  <1> QED
    BY <1>2, <1>3, <1>4, <1>5, <1>6 DEF Packet, BeginViolation

\* Every step of the connection goes forward.
LEMMA ForwardStep ==
    ASSUME TypeOK, SessionInv, FunnelInv, [Next]_vars
    PROVE  Forward
  <1>1. \A r \in Ids : closer[r] # "none" => session[r] = "absent"
    BY DEF FunnelInv, CloseSendersFresh
  <1>2. CASE LoopDone
    BY <1>1, <1>2 DEF Forward, LoopDone, TypeOK, taskVars
  <1>3. CASE Stop
    BY <1>3 DEF Forward, Stop
  <1>4. ASSUME NEW r \in Ids, ReportDone(r)
        PROVE  Forward
    BY <1>1, <1>4 DEF Forward, ReportDone, Report, TypeOK, loopVars
  <1>5. ASSUME NEW r \in Ids, TaskStep(r), ~ReportDone(r)
        PROVE  Forward
    <2>1. Quiet
      BY <1>5, QuietSteps
    <2>2. UNCHANGED closer
      BY <1>5
      DEF TaskStep, HandlerStep, HandlerRecv, HandlerEof, HandlerDropRx, HandlerSend, Opened,
          HandlerSendDone, HandlerDropSend, HandlerReturn, HandlerPanic, SendClose, TaskEnd,
          TaskAborted
    <2> QED
      BY <1>1, <2>1, <2>2 DEF Forward, Quiet, IsLive
  <1>6. ASSUME NEW r \in Ids, CloserStep(r)
        PROVE  Forward
    BY <1>1, <1>6
    DEF Forward, CloserStep, CloserSend, CloserSender, CloserEnd, Statuses, TypeOK, loopVars, taskVars
  <1>7. CASE Writer \/ UNCHANGED vars
    BY <1>1, <1>7
    DEF Forward, Writer, WriterTake, WriterSend, WriterFail, WriterFinish, vars, loopVars, taskVars
  <1> QED
    BY <1>2, <1>3, <1>4, <1>5, <1>6, <1>7, ForwardPackets
    DEF Next, RunLoop, InboundClosed, WriterGone

\* A step that parks nobody new keeps the funnel invariant.
LEMMA FunnelKept ==
    ASSUME FunnelInv, Forward, FunnelShape', ParkedOnce', ParkedForFrame',
           \A t \in Senders : IsParked(funnel, t)' => IsParked(funnel, t)
    PROVE  FunnelInv'
  <1>1. \A r \in Ids, kind \in {"sink", "close", "closer"} : <<r, kind>> \in Senders
    BY DEF Senders
  <1>2. CloseSendersFresh'
    BY <1>1 DEF FunnelInv, Forward, CloseSendersFresh
  <1> QED
    BY <1>2 DEF FunnelInv

\* A step that sends for a call keeps it, when the sender was not parked and a
\* Close sender is not fresh any more.
LEMMA FunnelSent ==
    ASSUME TypeOK, FunnelInv, Forward, NEW r \in Ids, NEW kind \in {"sink", "close", "closer"},
           NEW body \in {"headers", "message"} \cup Statuses,
           kind = "sink" <=> body \notin Statuses,
           ~IsParked(funnel, <<r, kind>>),
           funnel' = Send(funnel, FunnelBuffer, <<r, kind>>, [id |-> r, body |-> body]),
           kind = "close" => task'[r] \notin {"unspawned", "handler"},
           kind = "closer" => closer'[r] \notin {"none"} \cup Statuses
    PROVE  FunnelInv'
  <1>1. /\ FunnelShape' /\ ParkedOnce' /\ ParkedForFrame'
        /\ \A t \in Senders : t # <<r, kind>> /\ IsParked(funnel, t)' => IsParked(funnel, t)
    <2>1. <<r, kind>> \in SendersOf([id |-> r, body |-> body])
      BY DEF SendersOf
    <2> QED
      BY <2>1, FrameType, SendFunnel DEF FunnelInv
  <1>2. \A q \in Ids, k \in {"sink", "close", "closer"} : <<q, k>> \in Senders
    BY DEF Senders
  <1>3. CloseSendersFresh'
    <2> SUFFICES ASSUME NEW q \in Ids
                 PROVE  /\ task'[q] \in {"unspawned", "handler"} => ~IsParked(funnel, <<q, "close">>)'
                        /\ closer'[q] \in {"none"} \cup Statuses => ~IsParked(funnel, <<q, "closer">>)'
                        /\ closer'[q] # "none" => session'[q] = "absent"
      BY DEF CloseSendersFresh
    <2>1. ASSUME task'[q] \in {"unspawned", "handler"}
          PROVE  ~IsParked(funnel, <<q, "close">>)'
      <3>1. <<q, "close">> # <<r, kind>>
        BY <2>1
      <3> QED
        BY <1>1, <1>2, <2>1, <3>1 DEF FunnelInv, Forward, CloseSendersFresh
    <2>2. ASSUME closer'[q] \in {"none"} \cup Statuses
          PROVE  ~IsParked(funnel, <<q, "closer">>)'
      <3>1. <<q, "closer">> # <<r, kind>>
        BY <2>2
      <3> QED
        BY <1>1, <1>2, <2>2, <3>1 DEF FunnelInv, Forward, CloseSendersFresh
    <2> QED
      BY <2>1, <2>2 DEF Forward
  <1> QED
    BY <1>1, <1>3 DEF FunnelInv

\* Every step of the connection keeps the funnel invariant.
LEMMA FunnelStep ==
    ASSUME TypeOK, SessionInv, FunnelInv, [Next]_vars
    PROVE  FunnelInv'
  <1>1. Forward
    BY ForwardStep
  <1>2. CASE UNCHANGED funnel
    BY <1>1, <1>2, FunnelKept DEF FunnelInv, FunnelShape, ParkedOnce, ParkedForFrame, IsParked
  <1>3. CASE funnel' = ClosedChannel
    <2>1. FunnelShape' /\ ParkedOnce' /\ ParkedForFrame' /\ \A t \in Senders : ~IsParked(funnel, t)'
      BY <1>3, BoundsAssumption
      DEF FunnelShape, ParkedOnce, ParkedForFrame, IsParked, ClosedChannel
    <2> QED
      BY <1>1, <2>1, FunnelKept
  <1>4. CASE WriterTake
    <2>1. /\ FunnelShape' /\ ParkedOnce' /\ ParkedForFrame'
          /\ \A t \in Senders : IsParked(funnel, t)' => IsParked(funnel, t)
      BY <1>4, ReceiveFunnel DEF WriterTake, FunnelInv
    <2> QED
      BY <1>1, <2>1, FunnelKept
  <1>5. ASSUME NEW r \in Ids, NEW body \in {"headers", "message"}, HandlerSend(r, body)
        PROVE  FunnelInv'
    BY <1>1, <1>5, FunnelSent DEF HandlerSend, SinkReady, Opened, Statuses
  <1>6. ASSUME NEW r \in Ids, NEW status \in Statuses, Handling(r), SendClose(r, status)
        PROVE  FunnelInv'
    <2>1. ~IsParked(funnel, <<r, "close">>)
      BY <1>6 DEF Handling, FunnelInv, CloseSendersFresh
    <2>2. task'[r] = "closing"
      BY <1>6 DEF SendClose, TypeOK
    <2> QED
      BY <1>1, <1>6, <2>1, <2>2, FunnelSent DEF SendClose
  <1>7. ASSUME NEW r \in Ids, CloserSend(r)
        PROVE  FunnelInv'
    <2>1. ~IsParked(funnel, <<r, "closer">>) /\ closer[r] \in Statuses
      BY <1>7 DEF CloserSend, CloserSender, FunnelInv, CloseSendersFresh
    <2>2. closer'[r] = "flushing"
      BY <1>7 DEF CloserSend, CloserSender, TypeOK
    <2> QED
      BY <1>1, <1>7, <2>1, <2>2, FunnelSent DEF CloserSend, CloserSender, Statuses
  <1>8. ASSUME NEW r \in Ids, TaskStep(r)
        PROVE  FunnelInv'
    <2>1. CASE \E body \in {"headers", "message"} : HandlerSend(r, body)
      BY <1>5, <2>1
    <2>2. CASE HandlerPanic(r) \/ \E status \in HandlerStatuses : HandlerReturn(r, status)
      BY <1>6, <2>2, ServiceAssumption DEF HandlerPanic, HandlerReturn, Statuses
    <2>3. CASE UNCHANGED funnel
      BY <1>2, <2>3
    <2> QED
      BY <1>8, <2>1, <2>2, <2>3
      DEF TaskStep, HandlerStep, HandlerRecv, HandlerEof, HandlerDropRx, HandlerSendDone,
          HandlerDropSend, ReportDone, Report, TaskEnd, TaskAborted
  <1>9. CASE RunLoop
    <2>1. UNCHANGED funnel
      BY <1>9, ForwardPackets DEF RunLoop, LoopDone, InboundClosed, WriterGone, Stop
    <2> QED
      BY <1>2, <2>1
  <1>10. ASSUME NEW r \in Ids, CloserStep(r)
         PROVE  FunnelInv'
    BY <1>2, <1>7, <1>10 DEF CloserStep, CloserEnd
  <1>11. CASE Writer
    BY <1>2, <1>3, <1>4, <1>11 DEF Writer, WriterSend, WriterFail, WriterFinish
  <1>12. CASE UNCHANGED vars
    BY <1>2, <1>12 DEF vars
  <1> QED
    BY <1>8, <1>9, <1>10, <1>11, <1>12 DEF Next

\* The inductive invariant behind the funnel theorems; it needs the session one,
\* because a kill must not reuse a Close sender that already sent.
LEMMA FunnelInvariant == Spec => []FunnelInv
  <1>1. Init => FunnelInv
    BY BoundsAssumption
    DEF Init, FunnelInv, FunnelShape, ParkedOnce, ParkedForFrame, CloseSendersFresh, IsParked,
        EmptyChannel
  <1>2. TypeOK /\ SessionInv /\ FunnelInv /\ [Next]_vars => FunnelInv'
    BY FunnelStep
  <1> QED
    BY <1>1, <1>2, TypeCorrect, SessionInvariant, PTL DEF Spec

\* Past the buffer the funnel holds at most one frame of each call's handler and two
\* Closes, for every buffer size, however much the handler has to say.
THEOREM FunnelBounded == Spec => []FunnelBound
  <1>1. ASSUME TypeOK, FunnelInv, NEW r \in Ids
        PROVE  /\ \A i, j \in Excess(r, {"headers", "message"}) : i = j
               /\ \A i, j, k \in Excess(r, Statuses) : i = j \/ j = k \/ i = k
    <2> DEFINE q == funnel.queue
               w == funnel.parked
    <2>1. q \in Seq(Frame) /\ w \in Seq(Senders)
      BY <1>1 DEF TypeOK, Channels
    <2>2. ASSUME NEW i \in DOMAIN q, i > FunnelBuffer
          PROVE  i - FunnelBuffer \in DOMAIN w /\ w[i - FunnelBuffer] \in SendersOf(q[i])
      <3>1. i \in 1..Len(q) /\ Len(q) \in Nat /\ Len(w) \in Nat
        BY <2>1, <2>2
      <3>2. i <= Len(q) /\ FunnelBuffer < Len(q)
        BY <2>2, <3>1, BoundsAssumption
      <3>3. Len(q) = FunnelBuffer + Len(w)
        BY <1>1, <3>1, <3>2, BoundsAssumption DEF FunnelInv, FunnelShape
      <3>4. i - FunnelBuffer \in 1..Len(w) /\ FunnelBuffer + (i - FunnelBuffer) = i
        BY <2>2, <3>1, <3>3, BoundsAssumption
      <3>5. i - FunnelBuffer \in DOMAIN w
        BY <2>1, <3>4
      <3> QED
        BY <1>1, <3>4, <3>5 DEF FunnelInv, ParkedForFrame
    <2>3. ASSUME NEW i \in DOMAIN q, NEW j \in DOMAIN q, i > FunnelBuffer, j > FunnelBuffer,
                 w[i - FunnelBuffer] = w[j - FunnelBuffer]
          PROVE  i = j
      <3>1. i - FunnelBuffer = j - FunnelBuffer
        BY <1>1, <2>2, <2>3 DEF FunnelInv, ParkedOnce
      <3>2. i \in Nat /\ j \in Nat
        BY <2>1
      <3> QED
        BY <3>1, <3>2, BoundsAssumption
    <2>4. ASSUME NEW i \in Excess(r, {"headers", "message"})
          PROVE  i \in DOMAIN q /\ i > FunnelBuffer /\ w[i - FunnelBuffer] = <<r, "sink">>
      BY <2>2, <2>4 DEF Excess, SendersOf, Statuses
    <2>5. ASSUME NEW i \in Excess(r, Statuses)
          PROVE  /\ i \in DOMAIN q /\ i > FunnelBuffer
                 /\ w[i - FunnelBuffer] \in {<<r, "close">>, <<r, "closer">>}
      BY <2>2, <2>5 DEF Excess, SendersOf
    <2>6. ASSUME NEW i \in Excess(r, {"headers", "message"}),
                 NEW j \in Excess(r, {"headers", "message"})
          PROVE  i = j
      BY <2>3, <2>4
    <2>7. ASSUME NEW i \in Excess(r, Statuses), NEW j \in Excess(r, Statuses),
                 NEW k \in Excess(r, Statuses)
          PROVE  i = j \/ j = k \/ i = k
      BY <2>3, <2>5
    <2> QED
      BY <2>6, <2>7
  <1>2. TypeOK /\ FunnelInv => FunnelBound
    BY <1>1 DEF FunnelBound
  <1> QED
    BY <1>2, TypeCorrect, FunnelInvariant, PTL
=============================================================================
