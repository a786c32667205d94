---------------------- MODULE PipeTransportProperties ----------------------
(***************************************************************************)
(* What PipeTransport must guarantee, and the fairness its executor,       *)
(* handlers and pipe provide.                                              *)
(***************************************************************************)
EXTENDS PipeTransport

-----------------------------------------------------------------------------
(* Safety.                                                                 *)

Unfinished(r) == task[r] \in {"handler", "closing"}

\* Nobody runs unwatched: a handler that is not aborted still has its session,
\* so that Cancel, kill or the end of the connection can reach it.
\* (`task` and `sessions.insert` in handle_packet, Event::Done, Drop.)
NoOrphanTask == \A r \in Ids : Unfinished(r) /\ abort[r] = "none" => session[r] # "absent"

\* The table does not leak: a session belongs to a call that is not aborted and
\* is still running or has its completion waiting in the done channel.
\* (Event::Done, Cancel, kill, and the task's done_tx.send.)
NoLeakedSession ==
    \A r \in LiveSessions :
        /\ abort[r] = "none"
        /\ Unfinished(r) \/ \E i \in DOMAIN done.queue : done.queue[i] = r

SessionTable == NoOrphanTask /\ NoLeakedSession

\* The frames on their way, in their order.
Pipeline == held \o funnel.queue

IsClose(frame, r) == frame.id = r /\ frame.body \in Statuses

ClosedFor(r) ==
    \/ \E i \in DOMAIN wire[r] : wire[r][i] \in Statuses
    \/ \E i \in DOMAIN Pipeline : IsClose(Pipeline[i], r)

\* packet.proto, ResponsePacket.close: at most one Close per call.
AtMostOneClose ==
    \A r \in Ids :
        /\ \A i, j \in DOMAIN wire[r] :
              wire[r][i] \in Statuses /\ wire[r][j] \in Statuses => i = j
        /\ \A i, j \in DOMAIN Pipeline :
              IsClose(Pipeline[i], r) /\ IsClose(Pipeline[j], r) => i = j
        /\ \A i \in DOMAIN wire[r], j \in DOMAIN Pipeline :
              ~(wire[r][i] \in Statuses /\ IsClose(Pipeline[j], r))

\* A call that ended by itself, or was refused, has exactly one Close on its way
\* or delivered, unless outbound failed; no call ever has two.  (The task's
\* close_tx.send, catch_unwind, send_close, and the order of the funnel.)
AnsweredOnce ==
    /\ AtMostOneClose
    /\ \A r \in Ids :
        writer # "gone"
        /\ (task[r] \in {"closing", "reporting", "ended"} \/ closer[r] \in {"flushing", "ended"})
        => ClosedFor(r)

MayTrail(frame, r) == frame.id = r => frame.body \in Statuses

\* Nothing but another Close follows a Close, whoever sent the first: a handler
\* that is killed has said its last before the Close of `kill` goes out, for any
\* client.  On one thread.  (kill: abort, then send_close.)
NothingFollowsClose ==
    \A r \in Ids :
        /\ \A i, j \in DOMAIN wire[r] :
              i < j /\ wire[r][i] \in Statuses => wire[r][j] \in Statuses
        /\ \A i, j \in DOMAIN Pipeline : i < j /\ IsClose(Pipeline[i], r) => MayTrail(Pipeline[j], r)
        /\ \A i \in DOMAIN wire[r], j \in DOMAIN Pipeline :
              wire[r][i] \in Statuses => MayTrail(Pipeline[j], r)

ParkedOnce ==
    \A i, j \in DOMAIN funnel.parked : funnel.parked[i] = funnel.parked[j] => i = j

\* The places past the buffer that frames of call r with such a body hold.
Excess(r, bodies) ==
    {i \in DOMAIN funnel.queue :
        i > FunnelBuffer /\ funnel.queue[i].id = r /\ funnel.queue[i].body \in bodies}

\* Backpressure holds for each call, however long outbound stalls and whatever the
\* handler does with its sends: past the buffer the funnel keeps at most one frame
\* of a call's handler and two Closes (its task's and the loop's), even when the
\* handler drops a pending send and sends again, and for a call that is cancelled
\* or killed meanwhile.  (Comment on FUNNEL_BUFFER in serve; the funnel_tx clones
\* of a call; poll_ready before start_send.)
FunnelBound ==
    \A r \in Ids :
        /\ \A i, j \in Excess(r, {"headers", "message"}) : i = j
        /\ \A i, j, k \in Excess(r, Statuses) : i = j \/ j = k \/ i = k

-----------------------------------------------------------------------------
(* Inductive strengthenings of the safety properties; PipeTransportProofs, *)
(* PipeOrderProofs and PipeProtocolProofs prove them.                      *)

\* Ids above highest_id are untouched.
FreshIds ==
    \A r \in Ids : r > highest =>
        session[r] = "absent" /\ task[r] = "unspawned" /\ abort[r] = "none" /\ closer[r] = "none"

\* A completion in the done channel is that of a finished handler.
DoneReported ==
    \A i \in DOMAIN done.queue : task[done.queue[i]] \in {"reporting", "ended", "dropped"}

\* The run loop owns done_rx and the session table: both end with it.
LoopOwnsSessions ==
    /\ done.open <=> loop = "running"
    /\ loop = "stopped" => LiveSessions = {}

SessionInv == NoOrphanTask /\ NoLeakedSession /\ FreshIds /\ DoneReported /\ LoopOwnsSessions

\* Somebody is parked exactly when the queue is past its buffer, one sender for
\* each frame too many.
FunnelShape ==
    \/ funnel.parked = <<>> /\ Len(funnel.queue) <= FunnelBuffer
    \/ funnel.parked # <<>> /\ Len(funnel.queue) = FunnelBuffer + Len(funnel.parked)

\* The clones made for a Close send once: while the Close is still owed they
\* are not parked, and only a call without a session gets a Close from the loop.
CloseSendersFresh ==
    \A r \in Ids :
        /\ task[r] \in {"unspawned", "handler"} => ~IsParked(funnel, <<r, "close">>)
        /\ closer[r] \in {"none"} \cup Statuses => ~IsParked(funnel, <<r, "closer">>)
        /\ closer[r] # "none" => session[r] = "absent"

\* The senders that a frame may have come from.
SendersOf(frame) ==
    {<<frame.id, kind>> : kind \in IF frame.body \in Statuses THEN {"close", "closer"} ELSE {"sink"}}

\* The senders that wait are those of the frames past the buffer, in their order.
ParkedForFrame ==
    \A i \in DOMAIN funnel.parked :
        funnel.parked[i] \in SendersOf(funnel.queue[FunnelBuffer + i])

FunnelInv == FunnelShape /\ ParkedOnce /\ ParkedForFrame /\ CloseSendersFresh

\* No handler of the call will ever run again.
Over(r) == r <= highest /\ ~(task[r] = "handler" /\ abort[r] = "none")

\* A Close is on its way, or owed by the loop, only for a call that is over.
CloseEndsCall == \A r \in Ids : ClosedFor(r) \/ closer[r] # "none" => Over(r)

OrderInv == Len(held) <= 1 /\ CloseEndsCall /\ NothingFollowsClose

\* The loop owes a Close to the calls it has refused, and to no others: none was
\* killed.
OnlyRefusals == \A r \in Ids : closer[r] # "none" => task[r] = "unspawned"

\* What a conforming client has said of the calls the loop knows; hence it is never
\* killed.
ClientHeard ==
    /\ OnlyRefusals
    /\ \A r \in Ids :
        /\ session[r] = "half" => client[r] = "halfclosed"
        /\ client[r] = "cancelled" => session[r] = "absent"
        /\ task[r] # "unspawned" \/ closer[r] # "none" => client[r] # "unused"

Spoken(r) == wire[r] # <<>> \/ \E i \in DOMAIN Pipeline : Pipeline[i].id = r

Answering(r) ==
    task[r] \in {"closing", "reporting", "ended", "dropped"} \/ closer[r] \in {"flushing", "ended"}

\* Whoever has a frame out has been at work, and knows it.
FramesOwned ==
    \A r \in Ids :
        /\ Spoken(r) => task[r] # "unspawned" \/ closer[r] # "none"
        /\ ClosedFor(r) => Answering(r)
        /\ resp[r] # "none" => task[r] # "unspawned"
        /\ ~HandlersDropSends /\ resp[r] = "fresh" /\ ~sending[r] => ~Spoken(r)

\* What may come after what.
MayFollow(before, after) ==
    before \notin Statuses /\ (after = "headers" => HandlersDropSends)

\* Frames w delivered and then pl on their way, in that order.
InOrder(w, pl) ==
    \A r \in Ids :
        /\ \A i, j \in DOMAIN w[r] : i < j => MayFollow(w[r][i], w[r][j])
        /\ \A i, j \in DOMAIN pl :
              i < j /\ pl[i].id = r /\ pl[j].id = r => MayFollow(pl[i].body, pl[j].body)
        /\ \A i \in DOMAIN w[r], j \in DOMAIN pl : pl[j].id = r => MayFollow(w[r][i], pl[j].body)

FramesInOrder == InOrder(wire, Pipeline)

\* The writer finishes when nobody is left to send, and the funnel is open until it
\* ends.
WriterWaits ==
    /\ funnel.open <=> writer = "running"
    /\ writer = "finished" => loop = "stopped" /\ SendersGone

Answered ==
    \A r \in Ids :
        writer # "gone" /\ Answering(r) /\ task[r] # "dropped" => ClosedFor(r)

\* Holds as long as OnlyRefusals does, of any client.
AnswerInv == Len(held) <= 1 /\ FramesOwned /\ FramesInOrder /\ WriterWaits /\ Answered

-----------------------------------------------------------------------------
(* What a step may never do.                                               *)

\* The call was begun: it got a handler, or a Close of the loop's.
Begun(r) == task[r] # "unspawned" \/ closer[r] # "none"

\* The step begins the call: a session, a handler, or a refusal where there was none
\* (a Close the loop owes to a call with a session is that of a kill).
Begins(r) ==
    \/ session[r] = "absent" /\ session'[r] # "absent"
    \/ task[r] # "handler" /\ task'[r] = "handler"
    \/ session[r] = "absent" /\ closer'[r] \in Statuses /\ closer'[r] # closer[r]

\* No call is begun under an id that was begun before, or below one that was,
\* whether the earlier call was served or refused.  (highest_id in handle_packet.)
IdsNeverReused == [][\A q, r \in Ids : Begun(q) /\ r <= q => ~Begins(r)]_vars

\* The handler sees the end of its request stream only when the client has sent
\* DoneSending.  (DoneSending and Cancel in handle_packet: both drop client_tx.)
EofMeansDoneSending ==
    [][\A r \in Ids : rx[r] = "open" /\ rx'[r] = "ended" => client[r] = "halfclosed"]_vars

\* The step puts a frame of the call into the funnel.
Enters(r) ==
    /\ Len(funnel'.queue) > Len(funnel.queue)
    /\ funnel'.queue[Len(funnel'.queue)].id = r

\* Once the loop has handled Cancel, no frame of the call enters the funnel
\* unless a Close was owed before (a refused call).  (Cancel, Abortable.)
SilentAfterCancel ==
    [][\A r \in Ids : client[r] = "cancelled" /\ closer[r] = "none" => ~Enters(r)]_vars

\* transport.rs, Cancel: "No Close is sent after Cancel."  Only calls that got a
\* handler: a refused call's Close may be pending already.
NoCloseAfterCancel ==
    [][\A r \in Ids : client[r] = "cancelled" /\ task[r] # "unspawned"
                      => Closes(r)' \subseteq Closes(r)]_vars

\* response.rs, SendHeadersError: "headers must be the first frame".
HeadersFirst ==
    \A r \in Ids : \A i \in DOMAIN Emitted(r) : Emitted(r)[i] = "headers" => i = 1

\* What comes out of the pipe is what packet.proto allows: optional Headers
\* first, Messages, at most one Close, nothing after it, for ids the client
\* opened; and the client history is one of a conforming client.
ImplementsProtocol == P!Spec

-----------------------------------------------------------------------------
(* Fairness.                                                               *)

\* The executor polls every task that can make progress, and the run loop's
\* stream::select takes turns, so inbound cannot starve done_rx or
\* writer_gone_rx.
ExecutorFairness ==
    /\ WF_vars(LoopDone) /\ WF_vars(WriterGone)
    /\ WF_vars(WriterTake) /\ WF_vars(WriterFinish)
    /\ \A r \in Ids :
        /\ WF_vars(HandlerSendDone(r))
        /\ WF_vars(ReportDone(r)) /\ WF_vars(TaskEnd(r)) /\ WF_vars(TaskAborted(r))
        /\ WF_vars(CloserStep(r))

\* The pipe accepts, sooner or later, what the writer offers it (or fails).
PipeDrains == WF_vars(WriterSend)

DrainingSpec == Spec /\ ExecutorFairness /\ PipeDrains

-----------------------------------------------------------------------------
(* Liveness.                                                               *)

\* A finished or refused call gets its Close onto the wire, whatever else the
\* client or the loop does, unless outbound fails.  (Under DrainingSpec.)
FinishedCallIsAnswered ==
    \A r \in Ids : task[r] = "closing" \/ closer[r] \in Statuses
                   ~> P!IsClosed(wire[r]) \/ writer = "gone"

\* A finished call gives its session back.  (ReportDone, Event::Done; under
\* DrainingSpec.)
SessionsReclaimed == \A r \in Ids : task[r] = "closing" ~> session[r] = "absent"

\* After the connection is over no task is left behind: the writer ends, the
\* handlers are dropped, the Close senders finish.  (Drop; under DrainingSpec.)
TeardownCompletes ==
    loop # "running"
    ~> writer # "running" /\ \A r \in Ids : ~IsLive(r) /\ ~CloserLive(r)

\* A handler never waits forever to send: what it was made to wait for comes,
\* whoever else is parked, whatever tasks are dropped while they wait, unless it
\* is aborted.  (SinkExt::send in send_headers and send_message; the funnel's
\* parked senders; under DrainingSpec.)
SendsComplete == \A r \in Ids : sending[r] ~> ~sending[r]
=============================================================================
