--------------------------- MODULE PipeTransport ---------------------------
(***************************************************************************)
(* One connection of `PipeServer::serve` (proto-service-pipe/transport.rs):*)
(* the run loop with its session table, the spawned handler tasks, the     *)
(* spawned Close senders, the response funnel, the done channel and the    *)
(* writer task that owns `outbound`.                                       *)
(*                                                                         *)
(* Atomicity.  The run loop handles one event per step: handle_packet has  *)
(* no await.  A task runs from one await to the next; each such piece is   *)
(* an action.  AbortHandle::abort only sets a flag that Abortable reads    *)
(* when it polls: an aborted task does nothing more, except that on a      *)
(* multi-threaded executor a poll already under way runs on until its next *)
(* Pending ("racing").                                                     *)
(***************************************************************************)
EXTENDS Mpsc, FiniteSets

CONSTANTS
    MaxId,              \* bound: call ids 1..MaxId (u64 in the code)
    Routes,             \* ServiceRouter: service -> method -> descriptor
    Paths,              \* Begin.method values; <<>> is one that does not parse
    FunnelBuffer,       \* FUNNEL_BUFFER
    MaxQueued,          \* bound: request messages queued for one handler
    MaxFrames,          \* bound: response frames the calls emit, beside the Closes
    HandlerStatuses,    \* statuses a handler may return
    MultiThreaded,      \* may a task be inside poll while the run loop runs?
    Conforming,         \* does the client keep to packet.proto?
    HandlersDropSends   \* may a handler drop a send future that is pending?

Ids == 1..MaxId

Statuses == {"ok", "invalid_argument", "unimplemented", "internal"}

Descriptors == [client_streaming : BOOLEAN, server_streaming : BOOLEAN]

ASSUME BoundsAssumption ==
    /\ MaxId \in Nat /\ MaxQueued \in Nat /\ MaxFrames \in Nat
    /\ FunnelBuffer \in Nat

ASSUME ServiceAssumption ==
    /\ HandlerStatuses \subseteq Statuses
    /\ \A p \in Paths : p = <<>> \/ Len(p) = 2
    /\ \A s \in DOMAIN Routes : \A m \in DOMAIN Routes[s] : Routes[s][m] \in Descriptors

ASSUME ModeAssumption ==
    MultiThreaded \in BOOLEAN /\ Conforming \in BOOLEAN /\ HandlersDropSends \in BOOLEAN

VARIABLES
    loop,       \* Connection::run: running or stopped
    highest,    \* Connection.highest_id
    session,    \* Connection.sessions: absent, or client_tx Some (open) / None (half)
    task,       \* the spawned handler task
    abort,      \* its AbortHandle
    rx,         \* the handler's request stream
    inbox,      \* messages in the unbounded client channel
    resp,       \* StreamingResponse: none, or `opened` false (fresh) / true (opened)
    sending,    \* a send_headers/send_message future is pending in its flush
    closer,     \* the task send_close spawned: the status it will send, then its flush
    funnel,     \* funnel_tx/funnel_rx
    done,       \* done_tx/done_rx
    writer,     \* the writer task
    held,       \* the frame the writer has taken from the funnel
    client,     \* history: what a conforming client has sent for each call
    wire        \* history: what `outbound` accepted for each call

loopVars == <<loop, highest, session, client>>
taskVars == <<task, abort>>
streamVars == <<rx, inbox, resp, sending>>
writerVars == <<writer, held, wire>>
vars == <<loopVars, taskVars, streamVars, closer, funnel, done, writerVars>>

P == INSTANCE CallProtocol
     WITH Ids <- Ids, Statuses <- Statuses, client <- client, wire <- wire

Frame == [id : Ids, body : P!Bodies]
Senders == Ids \X {"sink", "close", "closer"}

TypeOK ==
    /\ loop \in {"running", "stopped"}
    /\ highest \in 0..MaxId
    /\ session \in [Ids -> {"absent", "open", "half"}]
    /\ task \in [Ids -> {"unspawned", "handler", "closing", "reporting", "ended", "dropped"}]
    /\ abort \in [Ids -> {"none", "set", "racing"}]
    /\ rx \in [Ids -> {"none", "open", "ended"}]
    /\ inbox \in [Ids -> 0..MaxQueued]
    /\ resp \in [Ids -> {"none", "fresh", "opened"}]
    /\ sending \in [Ids -> BOOLEAN]
    /\ closer \in [Ids -> {"none", "flushing", "ended"} \cup Statuses]
    /\ funnel \in Channels(Frame, Senders)
    /\ done \in Channels(Ids, Ids)
    /\ writer \in {"running", "gone", "finished"}
    /\ held \in Seq(Frame)
    /\ P!TypeOK

Init ==
    /\ loop = "running"
    /\ highest = 0
    /\ session = [r \in Ids |-> "absent"]
    /\ task = [r \in Ids |-> "unspawned"]
    /\ abort = [r \in Ids |-> "none"]
    /\ rx = [r \in Ids |-> "none"]
    /\ inbox = [r \in Ids |-> 0]
    /\ resp = [r \in Ids |-> "none"]
    /\ sending = [r \in Ids |-> FALSE]
    /\ closer = [r \in Ids |-> "none"]
    /\ funnel = EmptyChannel
    /\ done = EmptyChannel
    /\ writer = "running"
    /\ held = <<>>
    /\ P!Init

-----------------------------------------------------------------------------
(* Dispatch: parse_method, ServiceRouter::resolve, describe_method.        *)

Resolves(path) ==
    path # <<>> /\ path[1] \in DOMAIN Routes /\ path[2] \in DOMAIN Routes[path[1]]

Descriptor(path) == Routes[path[1]][path[2]]

\* A Begin that gets past every early return of handle_packet.
Accepted(path, single) == Resolves(path) /\ (Descriptor(path).client_streaming \/ single)

\* A slip Refusal could make: a code that is not the transport's.
NotFound(path) == "not_found"

\* The status a Begin is refused with otherwise.
Refusal(path) == IF path # <<>> /\ ~Resolves(path) THEN "unimplemented"
                 ELSE "invalid_argument"

-----------------------------------------------------------------------------
(* Aborting and ending.                                                    *)

IsLive(r) == task[r] \in {"handler", "closing", "reporting"}

\* A slip AbortTasks could make: the handles are dropped, never aborted.
AbortNone(S) == UNCHANGED abort

\* Abort the tasks in S; those in the middle of a poll still finish it.
AbortTasks(S) ==
    \E late \in SUBSET {r \in S : MultiThreaded /\ IsLive(r)} :
        abort' = [r \in Ids |-> IF r \in late THEN "racing"
                                ELSE IF r \in S THEN "set" ELSE abort[r]]

LiveSessions == {r \in Ids : session[r] # "absent"}

\* `run` returns (or the serve future is dropped): done_rx is dropped, then
\* Connection::drop aborts every session's handler.
Stop ==
    /\ loop' = "stopped"
    /\ session' = [r \in Ids |-> "absent"]
    /\ AbortTasks(LiveSessions)
    /\ done' = ClosedChannel
    /\ UNCHANGED <<highest, task, streamVars, closer, funnel, writerVars, client>>

-----------------------------------------------------------------------------
(* handle_packet, one action per outcome.  Packets without a frame, and    *)
(* messages and cancels for an id without a session, change no state.      *)

\* Zero, a live id, a closed id.
StaleId(r) == r <= highest

\* A slip RefusedId could make: only the calls that get a handler are remembered.
ForgottenId(r) == highest

\* highest_id after a Begin that is refused: it is set before the early returns.
RefusedId(r) == r

\* The history of what was sent is kept for a conforming client only.
Sent(packet) == IF Conforming THEN packet ELSE UNCHANGED client

BeginViolation(r) ==
    /\ loop = "running"
    /\ ~Conforming
    /\ StaleId(r)
    /\ Stop

BeginRefused(r, path, single) ==
    /\ loop = "running"
    /\ ~StaleId(r)
    /\ Conforming => P!MayBegin(r) /\ ~Resolves(path)
    /\ ~Accepted(path, single)
    /\ highest' = RefusedId(r)
    /\ closer' = [closer EXCEPT ![r] = Refusal(path)]
    /\ Sent(P!BeginAs(r, single))
    /\ UNCHANGED <<loop, session, taskVars, streamVars, funnel, done, writerVars>>

\* A slip ClientTx could make: the wrong flag of the descriptor.
SwappedTx(desc) == IF desc.server_streaming THEN "open" ELSE "half"

\* The session's client_tx: Some for a request stream.
ClientTx(desc) == IF desc.client_streaming THEN "open" ELSE "half"

BeginAccepted(r, path, single) ==
    /\ loop = "running"
    /\ ~StaleId(r)
    /\ Accepted(path, single)
    /\ Conforming => P!MayBegin(r) /\ single = ~Descriptor(path).client_streaming
    /\ LET desc == Descriptor(path) IN
       /\ session' = [session EXCEPT ![r] = ClientTx(desc)]
       /\ rx' = [rx EXCEPT ![r] = IF desc.client_streaming THEN "open" ELSE "none"]
       /\ resp' = [resp EXCEPT ![r] = IF desc.server_streaming THEN "fresh" ELSE "none"]
    /\ highest' = r
    /\ task' = [task EXCEPT ![r] = "handler"]
    /\ Sent(P!BeginAs(r, single))
    /\ UNCHANGED <<loop, abort, inbox, sending, closer, funnel, done, writerVars>>

\* A message for a call that may still stream.  Nothing changes when the
\* handler has dropped its receiver.
Message(r) ==
    /\ loop = "running"
    /\ Conforming => P!MaySend(r)
    /\ session[r] = "open"
    /\ rx[r] = "open"
    /\ inbox[r] < MaxQueued
    /\ inbox' = [inbox EXCEPT ![r] = @ + 1]
    /\ UNCHANGED <<loopVars, taskVars, rx, resp, sending, closer, funnel, done, writerVars>>

\* A message for a live call that accepts none: `kill`.
Kill(r) ==
    /\ loop = "running"
    /\ Conforming => P!MaySend(r)
    /\ session[r] = "half"
    /\ session' = [session EXCEPT ![r] = "absent"]
    /\ AbortTasks({r})
    /\ closer' = [closer EXCEPT ![r] = "invalid_argument"]
    /\ UNCHANGED <<loop, highest, client, task, streamVars, funnel, done, writerVars>>

DoneSending(r) ==
    /\ loop = "running"
    /\ Conforming => P!MaySend(r)
    /\ session' = [session EXCEPT ![r] = IF @ = "absent" THEN @ ELSE "half"]
    /\ Sent(P!Finish(r))
    /\ UNCHANGED <<loop, highest, taskVars, streamVars, closer, funnel, done, writerVars>>

Cancel(r) ==
    /\ loop = "running"
    /\ Conforming => P!MayCancel(r)
    /\ session' = [session EXCEPT ![r] = "absent"]
    /\ AbortTasks({r} \cap LiveSessions)
    /\ Sent(P!Abort(r))
    /\ UNCHANGED <<loop, highest, task, streamVars, closer, funnel, done, writerVars>>

-----------------------------------------------------------------------------
(* The other events of `run`.  Dropping the `serve` future has the effect  *)
(* of InboundClosed.                                                       *)

\* Event::Done.  A Cancel may have removed the session already.
LoopDone ==
    /\ loop = "running"
    /\ done.queue # <<>>
    /\ session' = [session EXCEPT ![Head(done.queue)] = "absent"]
    /\ done' = Receive(done)
    /\ UNCHANGED <<loop, highest, client, taskVars, streamVars, closer, funnel, writerVars>>

InboundClosed == loop = "running" /\ Stop

WriterGone == loop = "running" /\ writer = "gone" /\ Stop

-----------------------------------------------------------------------------
(* The handler task.                                                       *)

CanRun(r) == abort[r] \in {"none", "racing"}

Handling(r) == task[r] = "handler" /\ CanRun(r)

HandlerRecv(r) ==
    /\ Handling(r)
    /\ rx[r] = "open"
    /\ inbox[r] > 0
    /\ inbox' = [inbox EXCEPT ![r] = @ - 1]
    /\ UNCHANGED <<loopVars, taskVars, rx, resp, sending, closer, funnel, done, writerVars>>

\* The request stream yields None: client_tx is gone and the queue is empty.
HandlerEof(r) ==
    /\ Handling(r)
    /\ rx[r] = "open"
    /\ inbox[r] = 0
    /\ session[r] # "open"
    /\ rx' = [rx EXCEPT ![r] = "ended"]
    /\ UNCHANGED <<loopVars, taskVars, inbox, resp, sending, closer, funnel, done, writerVars>>

HandlerDropRx(r) ==
    /\ Handling(r)
    /\ rx[r] # "none"
    /\ rx' = [rx EXCEPT ![r] = "none"]
    /\ inbox' = [inbox EXCEPT ![r] = 0]
    /\ UNCHANGED <<loopVars, taskVars, resp, sending, closer, funnel, done, writerVars>>

OfCall(r, frames) == SelectSeq(frames, LAMBDA f : f.id = r)

\* The frames of call r that have not left the process.
InFlight(r) == OfCall(r, held \o funnel.queue)

\* All that was emitted for call r, on the wire or on its way.
Emitted(r) == wire[r] \o [i \in DOMAIN InFlight(r) |-> InFlight(r)[i].body]

Closes(r) == {i \in DOMAIN Emitted(r) : Emitted(r)[i] \in Statuses}

\* The headers and messages among them, of all calls.
Frames == UNION {{r} \X (DOMAIN Emitted(r) \ Closes(r)) : r \in Ids}

\* A slip SinkReady could make: a fresh funnel_tx clone for each frame, never parked.
ClonePerFrame(r) == TRUE

\* poll_ready of the call's sink: its one sender has been unparked.
SinkReady(r) == ~IsParked(funnel, <<r, "sink">>)

\* A slip Opened could make: the flag is left as it was.
Unmarked(r) == resp[r]

\* `self.opened = true`
Opened(r) == "opened"

\* send_headers or send_message up to the flush of the funnel sender; `opened`
\* is set once the flush is over.
HandlerSend(r, body) ==
    /\ Handling(r)
    /\ resp[r] # "none"
    /\ body = "headers" => resp[r] = "fresh"
    /\ ~sending[r]
    /\ funnel.open
    /\ SinkReady(r)
    /\ Cardinality(Frames) < MaxFrames
    /\ funnel' = Send(funnel, FunnelBuffer, <<r, "sink">>, [id |-> r, body |-> body])
    /\ sending' = [sending EXCEPT ![r] = IsParked(funnel', <<r, "sink">>)]
    /\ resp' = [resp EXCEPT ![r] = IF sending'[r] THEN @ ELSE Opened(r)]
    /\ UNCHANGED <<loopVars, taskVars, rx, inbox, closer, done, writerVars>>

HandlerSendDone(r) ==
    /\ Handling(r)
    /\ sending[r]
    /\ ~IsParked(funnel, <<r, "sink">>)
    /\ sending' = [sending EXCEPT ![r] = FALSE]
    /\ resp' = [resp EXCEPT ![r] = Opened(r)]
    /\ UNCHANGED <<loopVars, taskVars, rx, inbox, closer, funnel, done, writerVars>>

\* The handler drops a pending send (a select, a timeout): the frame is out.
HandlerDropSend(r) ==
    /\ HandlersDropSends
    /\ Handling(r)
    /\ sending[r]
    /\ sending' = [sending EXCEPT ![r] = FALSE]
    /\ UNCHANGED <<loopVars, taskVars, rx, inbox, resp, closer, funnel, done, writerVars>>

\* What the end of the handler future drops: its request stream, its response.
\* Assumes that a handler keeps them to itself: both are owned and 'static, and
\* one moved to a task of the handler's own would outlive it.
DropStreams(r) ==
    /\ rx' = [rx EXCEPT ![r] = "none"]
    /\ inbox' = [inbox EXCEPT ![r] = 0]
    /\ resp' = [resp EXCEPT ![r] = "none"]
    /\ sending' = [sending EXCEPT ![r] = FALSE]

\* The handler is over: its Close enters the funnel, then the task flushes it.
SendClose(r, status) ==
    /\ task' = [task EXCEPT ![r] = "closing"]
    /\ funnel' = Send(funnel, FunnelBuffer, <<r, "close">>, [id |-> r, body |-> status])
    /\ DropStreams(r)
    /\ UNCHANGED <<loopVars, abort, closer, done, writerVars>>

HandlerReturn(r, status) ==
    /\ Handling(r)
    /\ ~sending[r]
    /\ SendClose(r, status)

\* catch_unwind: a panicking handler closes its call like any other.
HandlerPanic(r) ==
    /\ Handling(r)
    /\ ~sending[r]
    /\ SendClose(r, "internal")

\* A slip Report could make: the completion is not sent.
NoReport(r) == done

Report(r) == Send(done, FunnelBuffer, r, r)

\* The Close is flushed; the task tells the run loop.
ReportDone(r) ==
    /\ task[r] = "closing"
    /\ CanRun(r)
    /\ ~IsParked(funnel, <<r, "close">>)
    /\ task' = [task EXCEPT ![r] = "reporting"]
    /\ done' = Report(r)
    /\ UNCHANGED <<loopVars, abort, streamVars, closer, funnel, writerVars>>

TaskEnd(r) ==
    /\ task[r] = "reporting"
    /\ CanRun(r)
    /\ ~IsParked(done, r)
    /\ task' = [task EXCEPT ![r] = "ended"]
    /\ UNCHANGED <<loopVars, abort, streamVars, closer, funnel, done, writerVars>>

\* Abortable sees the flag: the task, and all it holds, is dropped.
TaskAborted(r) ==
    /\ IsLive(r)
    /\ abort[r] # "none"
    /\ task' = [task EXCEPT ![r] = "dropped"]
    /\ DropStreams(r)
    /\ UNCHANGED <<loopVars, abort, closer, funnel, done, writerVars>>

-----------------------------------------------------------------------------
(* The task spawned by send_close.                                         *)

\* self.funnel_tx.clone()
CloserSender(r) == <<r, "closer">>

CloserSend(r) ==
    /\ closer[r] \in Statuses
    /\ funnel' = Send(funnel, FunnelBuffer, CloserSender(r), [id |-> r, body |-> closer[r]])
    /\ closer' = [closer EXCEPT ![r] = "flushing"]
    /\ UNCHANGED <<loopVars, taskVars, streamVars, done, writerVars>>

CloserEnd(r) ==
    /\ closer[r] = "flushing"
    /\ ~IsParked(funnel, CloserSender(r))
    /\ closer' = [closer EXCEPT ![r] = "ended"]
    /\ UNCHANGED <<loopVars, taskVars, streamVars, funnel, done, writerVars>>

-----------------------------------------------------------------------------
(* The writer task: `funnel_rx.forward(outbound)`.                         *)

\* A slip WriterTake could make: all that is queued at once, in the place of one.
WriterTakesAll ==
    /\ writer = "running"
    /\ held = <<>>
    /\ funnel.queue # <<>>
    /\ held' = <<Head(funnel.queue)>>
    /\ funnel' = [Receive(funnel) EXCEPT !.queue = <<>>]
    /\ UNCHANGED <<loopVars, taskVars, streamVars, closer, done, writer, wire>>

WriterTake ==
    /\ writer = "running"
    /\ held = <<>>
    /\ funnel.queue # <<>>
    /\ held' = <<Head(funnel.queue)>>
    /\ funnel' = Receive(funnel)
    /\ UNCHANGED <<loopVars, taskVars, streamVars, closer, done, writer, wire>>

WriterSend ==
    /\ writer = "running"
    /\ held # <<>>
    /\ wire' = [wire EXCEPT ![Head(held).id] = Append(@, Head(held).body)]
    /\ held' = <<>>
    /\ UNCHANGED <<loopVars, taskVars, streamVars, closer, funnel, done, writer>>

\* outbound returns an error: everything not yet accepted is lost.
WriterFail ==
    /\ writer = "running"
    /\ writer' = "gone"
    /\ held' = <<>>
    /\ funnel' = ClosedChannel
    /\ UNCHANGED <<loopVars, taskVars, streamVars, closer, done, wire>>

CloserLive(r) == closer[r] \in Statuses \cup {"flushing"}

\* A slip SendersGone could make: the Close senders are forgotten.
HandlersGone == \A r \in Ids : ~IsLive(r)

SendersGone == \A r \in Ids : ~IsLive(r) /\ ~CloserLive(r)

\* Every funnel sender is gone and the queue is drained: outbound is closed.
WriterFinish ==
    /\ writer = "running"
    /\ held = <<>>
    /\ funnel.queue = <<>>
    /\ loop # "running"
    /\ SendersGone
    /\ writer' = "finished"
    /\ funnel' = ClosedChannel
    /\ UNCHANGED <<loopVars, taskVars, streamVars, closer, done, held, wire>>

-----------------------------------------------------------------------------
Packet ==
    \/ \E r \in 0..MaxId : BeginViolation(r)
    \/ \E r \in Ids :
        \/ \E path \in Paths, single \in BOOLEAN :
              BeginRefused(r, path, single) \/ BeginAccepted(r, path, single)
        \/ Message(r)
        \/ Kill(r)
        \/ DoneSending(r)
        \/ Cancel(r)

RunLoop == Packet \/ LoopDone \/ InboundClosed \/ WriterGone

HandlerStep(r) ==
    \/ HandlerRecv(r)
    \/ HandlerEof(r)
    \/ HandlerDropRx(r)
    \/ \E body \in {"headers", "message"} : HandlerSend(r, body)
    \/ HandlerSendDone(r)
    \/ HandlerDropSend(r)
    \/ \E status \in HandlerStatuses : HandlerReturn(r, status)
    \/ HandlerPanic(r)

TaskStep(r) == HandlerStep(r) \/ ReportDone(r) \/ TaskEnd(r) \/ TaskAborted(r)

CloserStep(r) == CloserSend(r) \/ CloserEnd(r)

Writer == WriterTake \/ WriterSend \/ WriterFail \/ WriterFinish

Next ==
    \/ RunLoop
    \/ \E r \in Ids : TaskStep(r) \/ CloserStep(r)
    \/ Writer

Spec == Init /\ [][Next]_vars
=============================================================================
