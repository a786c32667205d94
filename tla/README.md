# proto-service-rs: TLA+ models and proofs

proto-service-rs generates protobuf service servers in Rust and carries calls to
them over any bidirectional pipe of packets. The hard part of it is one function,
`PipeServer::serve` in `proto-service-pipe/src/transport.rs`: a run loop, a writer
task, one task per call and one task per early Close share three channels and a
session table, and any of them may be cancelled, aborted, panic or find its peer
gone. These modules model that part in full and the dispatch and metadata code
around it.

All paths below are relative to `src/`.

## 1. Inventory

| Component | State it keeps | Operations | Where it is hard |
|---|---|---|---|
| Pipe connection (`proto-service-pipe/src/transport.rs`, `Connection`) | `sessions`, `highest_id` | `handle_packet` (Begin, Message, DoneSending, Cancel), `kill`, `send_close`, `run`, `Drop` | events of three channels in any order; packets for calls that are over |
| Response funnel, done channel (`serve`, futures `mpsc`) | queue, parked senders, open/closed | send = enqueue and then wait to be unparked; receive; drop | full channel, dropped senders that stay parked, dropped receiver |
| Writer task (`serve`) | the frame it holds | `forward`: take, send, fail, finish | `outbound` stalls, fails, or ends while Closes are still owed |
| Handler task (`handle_packet`) | its future, `close_tx`, `done_tx`, an `AbortHandle` | run, return, panic, Close, report, be aborted | abort against return; poll in progress on another thread |
| Close sender (`send_close`) | its status | send, flush | outlives the run loop |
| `StreamingRequest`, `StreamingResponse` (`proto-service/src/request.rs`, `response.rs`) | the stream; `opened` | receive, end of stream; `send_headers`, `send_message` | a send future dropped between its frame and its flag |
| `Spawner` (`spawner.rs`) | none | `spawn` | it is the interleaving itself |
| Wire protocol (`proto/proto_pipe/v1/packet.proto`) | per call: what was sent in each direction | RequestPacket, ResponsePacket | what either side may send when |
| `ServiceRouter` (`proto-service/src/router.rs`) | services by name | `register`, `resolve` | a name registered twice |
| `Service`, `Call`, `CallEnd` and the generated server (`proto-service/src/service.rs`, `proto-service-build/src/server_impl.rs`) | the call | `describe_method`, `handle` | two independent matches that must agree |
| `MetadataMap` (`proto-service/src/metadata.rs`) | values by lower-case key | `insert`, `append`, `remove`, `clear`, lookups, conversion to packets | case, order and emptiness over the wire |
| `Status`, `Code` (`proto-service/src/status.rs`) | immutable | conversions | an i32 that is no code |
| `Extensions` (`proto-service/src/extensions.rs`) | a map by type | `insert`, `get`, `get_mut`, `remove`, `clear`, `len` | a wrong key loses a value without a trace |
| Generator (`proto-service-build`: `generator.rs`, `server_trait.rs`, `server_impl.rs`, `util.rs`) | none | a trait and a `Service` impl out of descriptors | three matches over the same two flags |

How they interact. `serve` spawns the writer, which owns `outbound` and the receiving
end of the funnel. The run loop selects over inbound packets, the done channel and
the writer-gone channel. A Begin resolves its service in the router, asks
`describe_method` for the shape, builds a `Call` (request stream, response sink) and
spawns the handler task, whose abort handle goes into the session table. The task
pushes response frames into the funnel, then its Close, then its id into the done
channel; the loop drops the session on that id. A refused or killed call gets its
Close from a task of its own, because the loop must never wait for the funnel. Cancel,
kill and the end of the connection abort handlers through the session table.

What makes each correct, in a line:

* connection: no handler runs that the table cannot reach, no session outlives its
  call, no id is served twice, and Cancel works however slow `outbound` is;
* funnel: past its buffer it holds little of any one call, however long `outbound` stalls;
* tasks and writer: every call gets exactly one Close, after all of its frames, unless
  it was cancelled or `outbound` failed; nothing is left behind at the end;
* streams: end of stream means DoneSending; headers come first;
* event loop: no ready event is passed over twice, so that a busy client starves nothing;
* dispatch: what `describe_method` says is what `handle` wants; a Close has the shape of its
  method, and no refusal, failure of `handle` or error looks like a success;
* metadata: the map the peer rebuilds is the map that was sent; a key is found in any case;
* extensions: one register for each type.

The list of what is hard to test, at its lines, is under `hazards` in PROJECT.json.

## 2. Modules

    Mpsc                        the bounded futures channel (external; no variables)
    CallProtocol                abstract: what packet.proto lets each side say of a call
    PipeTransport               one connection; EXTENDS Mpsc, refines CallProtocol (INSTANCE P)
      PipeTransportProperties   its properties, inductive invariants and fairness
        PipeTransportProofs     types, session table, ids, funnel
          PipeOrderProofs       the order of frames, for any client
            PipeProtocolProofs  the protocol, for a conforming client
        MCPipeTransport         small instances
        PipeSystem              with a client and two bounded pipes; refines CallProtocol (INSTANCE C)
          PipeSystemProofs, MCPipeSystem
    EventLoop                   abstract: three live sources of events
      EventSelect               the nested stream::select of run; refines EventLoop (INSTANCE Loop)
        EventSelectProofs
    Generator, StatusCodes      what is generated of a service; codes and statuses (no variables)
      ServiceDispatch           router, Begin's checks, generated server, a method, CallEnd
        ServiceDispatchProofs, MCServiceDispatch
    MetadataMap                 the multimap and its wire form
    TypedRegisters              abstract: a register for each type
    Extensions                  the map by TypeId; refines TypedRegisters (INSTANCE Registers)
      ExtensionsProofs
    Attachments                 both, as a Call carries them
      AttachmentsProofs         metadata, its wire, and the extensions beside it
      MCAttachments

In the definition of a module, an operator whose comment begins "A slip" is not part of
the model: it is the definition after it with one plausible mistake, kept to show which
property notices that mistake (`mutants` in PROJECT.json).

### Mpsc

`futures_channel::mpsc::channel(buffer)`, from how the transport uses it. A channel is
`[queue, parked, open]`. `Send` always enqueues, since every `Sender` clone owns a slot
of its own, and parks the sender when the queue was at or past the buffer; `Receive`
pops and unparks the sender parked longest. `SinkExt::send` is `poll_ready`,
`start_send`, flush, and both waits end when the sender is not parked. Two details the
models keep because they bite: a `Sender` that is dropped while parked leaves its entry
in the parked queue, so that a later receive may wake nobody; and a flush on a channel
whose receiver is gone returns at once.

### CallProtocol

The abstract specification. `client[r]` is what the client has sent for call `r`
(`unused`, `streaming`, `halfclosed`, `cancelled`), `wire[r]` the response frames that
came out of the pipe. Ids increase; a single-request Begin is already half closed; one
DoneSending; Cancel at any time. Response frames: Headers first if at all, Messages, at
most one Close, nothing after it, only for calls the client opened. Its guards
`MayBegin`, `MaySend`, `MayCancel` are also what makes a client conforming in
PipeTransport and PipeSystem.

### PipeTransport

| Variable | Code |
|---|---|
| `loop`, `highest`, `session` | `Connection::run` going or returned; `highest_id`; `sessions`: `absent`, `open` (`client_tx` is `Some`), `half` (`None`) |
| `task`, `abort` | the spawned task: in the handler, flushing its Close (`closing`), flushing its id (`reporting`), `ended`, or `dropped` by `Abortable`; its abort flag |
| `rx`, `inbox` | the handler's request stream, and the messages queued in it |
| `resp`, `sending` | its `StreamingResponse` with `opened` (`fresh`/`opened`), and whether a send future is pending in its flush |
| `closer` | the task of `send_close`: the status it has yet to send, flushing, ended |
| `funnel`, `done` | the two bounded channels |
| `writer`, `held` | the writer task and the frame it has taken |
| `client`, `wire` | history, as in CallProtocol |

| Action | Code |
|---|---|
| `BeginViolation`, `BeginRefused`, `BeginAccepted` | the Begin arm: id not above `highest_id`; each early return with its status; the spawn and the insert |
| `Message`, `Kill`, `DoneSending`, `Cancel` | the other arms; `Kill` is a message to a call that accepts none, with `kill` and `send_close` |
| `LoopDone`, `InboundClosed`, `WriterGone` | the other events of `run`; the last two, and `BeginViolation`, end in `Stop`: `run` returns, `done_rx` goes, `Drop` aborts |
| `HandlerRecv`, `HandlerEof`, `HandlerDropRx` | the handler reads its stream, sees its end, drops it |
| `HandlerSend`, `HandlerSendDone`, `HandlerDropSend` | `send_headers`/`send_message` up to the flush; after it (`opened = true`); the pending future dropped by the handler |
| `HandlerReturn`, `HandlerPanic`, `ReportDone`, `TaskEnd`, `TaskAborted` | the task after the handler: Close, done, end; or dropped by `Abortable` |
| `CloserSend`, `CloserEnd` | the task of `send_close` |
| `WriterTake`, `WriterSend`, `WriterFail`, `WriterFinish` | `funnel_rx.forward(outbound)`: take one, have it accepted; an error; all senders gone and the queue empty |

Decisions on atomicity and abstraction:

* The run loop handles one event per action: `handle_packet` has no await. A task runs
  from one await to the next; each such piece is an action. Since tasks share only
  channels and the abort flag, nothing in between can be observed, with one exception:
* `AbortHandle::abort` only sets a flag, read by `Abortable` when it polls. On one thread
  nobody is inside a poll while the loop runs (`set`: the task does nothing more). With
  `MultiThreaded` a live task may be inside its poll at that moment (`racing`): it may
  take further steps until it is dropped. This is the one difference between executors.
* In the Begin arm the spawn comes before the insert; the model takes both in one step, so
  that it does not show the window between them. A task that is faster than the insert
  reads nothing of the table, and the loop takes its completion only after the arm is
  over, so its steps in the window can be taken just after it.
* `highest_id` is set before the early returns of the Begin arm (`RefusedId`), so a refused
  call uses its id up as well.
* A call has one sender for its frames, `StreamingResponse`'s own, and `poll_ready` keeps it
  waiting while it is parked (`SinkReady`); its Close, and a Close of `send_close`, go through
  clones that send once.
* The handler keeps its `StreamingRequest` and `StreamingResponse` to itself: they are gone when
  it returns, panics or is dropped (`DropStreams`). Both are owned and `'static`, so a handler
  may move them to a task of its own that outlives it; that is not modelled.
* A packet without a frame, and a Message or Cancel for an id without a session, change
  no state and are not separate actions; a DoneSending or a Cancel of such an id records
  history only.
* The end of `inbound` and the drop of the `serve` future have the same effect on the
  state (`InboundClosed`).
* Payloads, metadata, extensions and decoding are abstracted: a frame is its call, and
  headers, message or the status of its Close. `Paths` and `Routes` stand for the method
  string and the router; ServiceDispatch models them in detail.
* `Conforming` restricts inbound packets to what packet.proto allows and keeps the history
  `client`; without it the client sends any packet at any time.

Bounds, all in guards: `MaxId` calls, `MaxQueued` messages per stream (the real one is
unbounded), `MaxFrames` headers and messages of all calls together. `FunnelBuffer` is a
constant of the code (32), small in the instances so that the funnel does fill.

### PipeSystem

PipeTransport between two pipes of capacity `ReqCap` and `RespCap`, and a client that keeps
to packet.proto by what it knows: `sent` is what it has written, `got` what it has
read. It does one thing at a time, and a write to a full pipe waits (`Blocked`); while it
waits it reads nothing. It does not look at what the handler has read: `said` counts the
messages it has sent, `MaxQueued` in all, and the request channel takes them as the
unbounded one does, up to all of them in one channel. The connection itself is told nothing of the client
(`Conforming = FALSE` there): it handles, in order, whatever comes out of the pipe
(`LoopPacket`), so that a packet may meet a call that is refused, over, or cancelled.
`Discarded` is a Message for which the code changes nothing.

### EventLoop and EventSelect

EventLoop is what `run` promises: packets, the end of `inbound`, completions and the death of
the writer are each taken if they wait, each with weak fairness of its own. EventSelect is
how: `stream::select(stream::select(inbound, done), writer_gone)`. A select (external)
polls its sides in an order it turns round at every poll, whether or not the poll finds
something, until a side has ended; the sentinel chained to `inbound` makes its end an
event. `WF(Poll)`, the executor's promise to the one task, is all the fairness it has. A
writer task that panics or is dropped (`gone = "dropped"`) signals nothing, and the loop
goes on, as in the code: `writer_gone_tx` is dropped unused, and that ends one side of
the select without an event.

### Generator, StatusCodes and ServiceDispatch

Generator: for a `prost_build::Service`, the signature each method has in the trait
(`TraitMethod`, `server_trait.rs`), the arm of `handle` (`HandleArm`: payload wanted, sink
wanted, the end its result makes) and the arm of `describe_method` (`DescribeArm`), each
translated from its own function. That `handle` calls a method with the shape its trait
declares is checked by rustc in the generated code; the model takes it from there. A type that does not parse makes
the whole service fail (`Generates`). StatusCodes: the enum, `Code::from(i32)`, the
constructors of `Status` and the conversions of send errors.

ServiceDispatch: the router before it is shared (`Register`, `Share`), one call through the
checks of the Begin arm (`Begin`, `BeginRefused`, with `parse_method` on a name split at
its slashes), the generated `handle` (`Handle`, `HandleFails`), the method at work (frames,
a closed sink, an item that does not decode, an i32 code from elsewhere) and the `CallEnd`
its result becomes (`ReturnOk`, `ReturnErr`). `OtherCall` is a `Call` made by something
other than the pipe: `Call` and `DynService` are public, and there the checks of `handle` on
payload and sink are the only ones. The messages of a status are abstracted to what they
tell (`Messages`).

### MetadataMap, Extensions and Attachments

MetadataMap: `insert`, `append`, `remove`, `clear` with the normalisation of keys,
the lookups `get_all` and `get_first` by a key in any case (`GetAll`, `GetFirst`; `ValuesAt` is
what a stored key holds), and `to_packet_metadata` (by `iter_flat`) / `from_packet_metadata`, each a recursive function:
`Yielded(map)[c]` is what the iterator has given before it comes to key `c`, `Rebuilt(entries)[i]`
the map after `i` entries. A key is one ASCII code, which is enough for case and order; `log` is
the history against which contents are judged: `Added(log, k)` are the operations that gave key
`k` a value and that nothing after them took away, and `HoldsWhatWasAdded` says that looking a
key up, in any case, gives their values, one each, in that order, and first the earliest.

Extensions: a map from `TypeId` to a box of any type; a downcast to another type yields
nothing, and drops the box. TypedRegisters is what its users rely on. Attachments is a `Call`
with both: headers as they came off the wire, no extensions, then operations of
middleware on either in any order.

## 3. Runs

Every run finishes with no error unless it is listed under findings. `CHECK_DEADLOCK
FALSE` stands where a connection really ends.

| Run | Instance | What it shows |
|---|---|---|
| MCConforming | conforming client, one thread, 2 calls (bidi, unary, unknown), funnel 1, 1 message, 2 frames | `TypeOK`; `AnsweredOnce`: a finished or refused call has exactly one Close on its way or delivered; `EofMeansDoneSending`; `SilentAfterCancel` |
| MCProtocol | conforming, many threads, 2 server-streaming calls, funnel 1, 3 frames | `ImplementsProtocol`: the refinement of CallProtocol, step by step |
| MCArbitrary | any client, handlers drop pending sends, one thread, 2 calls (bidi, malformed), funnel 0, 2 frames | `SessionTable`; `IdsNeverReused`: no id at or below one that was begun, served or refused, is begun; `FunnelBound`: past the buffer at most one frame of a call's handler and two of its Closes, also when the handler drops sends and when the call is cancelled or killed; `NothingFollowsClose`: after the first Close of a call comes at most another Close |
| MCDraining | conforming client, fair executor, `outbound` drains, funnel 0, 2 calls (server-streaming, unknown), 2 frames | `FinishedCallIsAnswered`, `SessionsReclaimed`, `TeardownCompletes`, `SendsComplete` |
| MCPipeSystem | client and pipes of capacity 0 and 1, 2 calls (upload, watch), 2 messages, 1 frame, fair executor, neither the client nor `outbound` obliged to take a frame, nor a handler to read | `NeverKilled`; `NoCircularWait`: a client stuck in a write gets unstuck while nobody reads; `CancelEndsHandler`; `ClientSeesProtocol`: a refinement of CallProtocol by what client and wire hold at a distance |
| MCEventSelect | up to three packets and completions waiting | `PassedOverOnce`; `ImplementsEventLoop`: the refinement, fairness included |
| MCServiceDispatch | four shapes, a second version under the same name, an empty service, one that cannot be generated; two implementations, three registrations; codes 0, 5, 42, -7 | `TypeOK`, `DispatchAgrees`, `CloseFits`, `LastRegistrationServes`; `FailureReported`: an OK Close exactly when the method ran and neither failed nor returned a failure, codes that are known unchanged |
| MCAttachments | keys in two cases, two values, headers of one key in two cases; three types, two of one name; four operations | `TypeOK`, `RoundTrip`, `HoldsWhatWasAdded`, `RegisterPerType` |

Four more runs (MCTwoCloses, MCLateClose, MCLateHeaders, MCFalseEof) end in a
counterexample; see section 4.

Why the bounds are enough. Two calls give every pair of a call that ends and one that
begins, two senders that park behind each other, and an id that is too small; a call has
up to three senders of its own (sink, Close, Close sender), so a funnel of 0 or 1 is
overrun by five. Capacity 0 and 1 of the pipes is the least room a circle of waits
can be made of; more room only delays it. Two messages, with nobody obliged to read them, are one more than a request
channel with room for one would take. One message and two or three frames are what the order of headers,
messages and Close can tell apart, within a call and between two; two frames, with a handler that drops its sends, are what it takes to
put more than one of a call past the buffer, if the sink let it. The safety results marked in section 5 are proved for
all bounds, so that the runs of those are only a first check. Three waiting events are
more than a source can be passed over. Three registrations give a service replaced and
replaced back; four operations are an insert, an append in the other case, a remove
and one more.

A liveness run with many threads has been left out for its size; `racing` adds to a task
only steps it could have taken just before the abort, and `TaskAborted` stays enabled.

Fairness:

* `ExecutorFairness`: each task that can make progress is polled, so its steps are weakly
  fair, one by one. The loop takes completions and writer-gone although inbound is busy:
  that `stream::select` gives them their turn is not assumed but follows from EventSelect
  (`ImplementsEventLoop`). Nothing is assumed of inbound, of what handlers do, nor of errors
  of `outbound`.
* `PipeDrains` (MCDraining only): `outbound` accepts a frame that it is offered forever. An
  assumption on the environment; MCPipeSystem does without.
* `StalledSystem` (MCPipeSystem): `ExecutorFairness`, and the loop reads a packet that
  waits. The client, and the acceptance of frames, have no fairness at all.
* `WF(Poll)` (MCEventSelect): the task of the loop is polled.

## 4. Findings

Four runs end in a counterexample to something the repository says of the code.

1. **Two Closes** (MCTwoCloses). A message arrives for a call that accepts none, because it
   is single-request or after DoneSending (the trace shows the latter), and whose handler
   has put its Close into the funnel and whose completion is not handled yet.
   `kill` finds the session, and sends a Close of its own. packet.proto: "At most one per
   call". A conforming client never sends that message, so `AnsweredOnce` holds for it.
2. **A Close after Cancel** (MCLateClose). With many threads a handler inside its poll when
   Cancel is handled goes on to send its Close. The comment in the Cancel arm says "No
   Close is sent after Cancel"; packet.proto is weaker and does allow it.
3. **A false end of stream** (MCFalseEof). In the same window Cancel also drops
   `client_tx`: the handler sees its request stream end as if the client had sent
   DoneSending, and takes an aborted upload for a complete one. With one thread
   `EofMeansDoneSending` holds (MCConforming).
4. **Headers twice** (MCLateHeaders). `send_headers` marks `opened` after the await of the
   send, but the frame is in the funnel before. A handler that drops the pending future,
   by a select or a timeout, may send headers again, as its second frame.

## 5. Proofs

Every theorem is for every value of the constants, within the named ASSUMEs: bounds are
naturals, statuses are statuses, headers are entries, a path is empty or a pair, a descriptor has two flags,
modes are Booleans, a method name occurs once in a service, foreign codes are integers.

| Module | Theorem | States |
|---|---|---|
| PipeTransportProofs | `TypeCorrect` | `[]TypeOK` |
| | `SessionTableSound` | `[]SessionTable`, any client, any executor |
| | `NoReuse` | `IdsNeverReused`: begun once, served or refused, for any client |
| | `FunnelBounded` | `[]FunnelBound`, any client, any executor |
| PipeOrderProofs | `NothingAfterClose` | one thread: `[]NothingFollowsClose`, any client |
| PipeProtocolProofs | `AnsweredUnlessKilled` | any client, while no call is killed: `[]AnsweredOnce` |
| | `ConformingCallsAnswered` | conforming client: `[]AnsweredOnce` |
| | `ProtocolImplemented` | conforming client, sends not dropped: `Spec => P!Spec`, the refinement of CallProtocol |
| | `CancelSilences`, `EofIsDoneSending` | conforming client, one thread: `SilentAfterCancel`, `EofMeansDoneSending` |
| PipeSystemProofs | `SystemRefines` | `SystemSpec => Spec`: the composed system is a PipeTransport |
| | `ClientInvariant`, `ConformingClientSafe` | `[]ClientInv`, `[]NeverKilled` |
| | `SystemAnswered` | `[]AnsweredOnce`, though the connection trusts nobody |
| | `ClientReadsProtocol` | sends not dropped: `ClientSeesProtocol`, the refinement of CallProtocol at the client's end |
| EventSelectProofs | `OvertakenOnce`, `SelectRefines` | `[]PassedOverOnce`; each poll is a step or a stutter of EventLoop |
| ServiceDispatchProofs | `DispatchTypes`, `DispatchAgreement`, `CloseShape`, `FailuresSurvive`, `LastOneServes` | the five invariants of MCServiceDispatch |
| ExtensionsProofs | `BoxesKeyed`, `ExtensionsRefine` | no downcast fails; `RegisterPerType`, the refinement |
| AttachmentsProofs | `MetadataTypes`, `MetadataHolds`, `MetadataSurvives` | `[]TypeOK`, `[]HoldsWhatWasAdded`, `[]RoundTrip`, from an empty map and from any headers |
| | `CallExtensions` | `RegisterPerType`, for a Call whose metadata changes too |

Why the hypotheses on client, executor and dropped sends are there, the runs of section 4
show: each is a counterexample in a mode they exclude.

*Session table.* `SessionTable` alone is not inductive: to see that Begin does not
overwrite a session one needs that ids above `highest` are untouched (`FreshIds`); to see
that `Event::Done` does not remove the session of a call that runs, that a queued
completion belongs to a task that is past its Close (`DoneReported`); and to see that no
session outlives the loop, that the table and `done_rx` end with it
(`LoopOwnsSessions`). The conjunction is `SessionInv`. Most steps are *quiet*, they move
a task forward and touch nothing the invariant reads but its stage (`QuietSteps`,
`QuietStep`); the others are Begin, the removal of a session together with its abort
(`RemoveSession`, for Cancel and kill), Stop, `LoopDone` and `ReportDone`.

*Funnel.* `FunnelShape` says that somebody is parked exactly when the queue is past its
buffer, one sender per frame. It is kept by `Send` only if the sender is not parked yet:
the sink is guarded by `poll_ready`; the two clones made for a Close are safe because each
sends once (`CloseSendersFresh`). That in turn needs `SessionInv`: a kill must not find a
call whose Close sender has sent, and the id of a refused call must be new. `ParkedForFrame`
gives each frame past the buffer a parked sender of its own, of the call and kind the frame is
of; a call has one sender of frames and two of Closes (`SendersOf`), which is `FunnelBound`. A
frame stays in the bound when its call is cancelled, since its sender's entry stays with it.
Hence `FunnelInv` is inductive relative to `TypeOK` and `SessionInv`.

*Ids.* `IdsNeverReused` speaks of the calls that were begun, by the task or the Close they got,
and not of `highest_id`; the proof needs `FreshIds`, that whatever was begun is at or below
`highest`, for refused calls as well.

*Order, for any client.* `OrderInv` adds to `NothingFollowsClose` why it holds: a Close that
is out, or owed by the loop, is that of a call no handler of which will run again
(`CloseEndsCall`). On one thread an aborted handler is over at once; a kill may add a
second Close but no frame. A step of the transport either leaves `held \o funnel.queue` as
it is, adds one frame at its end, moves its head to the wire, or drops it; the proof is by
these four.

*Protocol.* `AnswerInv` ties together that each call has one origin of its Close, who has a
frame out (`FramesOwned`), in what order they are (`FramesInOrder`), that the writer does
not finish while a Close is owed (`WriterWaits`), and that a Close once sent is on its way
or delivered (`Answered`). It needs nothing of the client but that every Close sender is that of
a refused Begin (`OnlyRefusals`): a kill is the only way to a second Close. Hence
`AnsweredUnlessKilled`, with `[]OnlyRefusals` as its hypothesis and none on the client, the
executor or the order of events. That a conforming client is never killed (`ClientHeard`, by
what it has said) gives `ConformingCallsAnswered`. For the refinement each step maps to a client
step, to an Emit (`WriterSend`, whose guard is `FramesInOrder`), or to a stutter.

*The composed system.* That each packet the loop handles is a step of `Packet` gives
`SystemRefines` and with it all results for any client. `ClientInv` says what a packet in
flight means to the session it will meet: Begins are in order and above `highest`
(`BeginsInOrder`), and no message is behind the end of its stream, in the pipe or once it
has made the session `half` (`NothingAfterEnd`). So every Close the loop sends itself is a
refusal (`ClosersRefused`), which is `NeverKilled`, and `OnlyRefusals`; with `SystemRefines` it
discharges the hypothesis of `AnsweredUnlessKilled`, and `SystemAnswered` follows: what the
connection owes a client that behaves does not depend on its knowing that it does. For
`ClientReadsProtocol`, `ReplyInv` relates the two ends of the pipe: the loop knows only calls
the client has begun (`BegunByClient`, which needs that Begins in flight are the client's), all
the client reads has been on the wire (`Delivered`), and what it has read followed by what is in
the pipe is in an allowed order (`InOrder(got, replies)`, the same operator that
`FramesInOrder` applies to the wire and the funnel). `ReplyInv` is inductive relative to
`AnswerInv` and `ClientInv`; the step that matters is the one in which `outbound` accepts a frame,
where `MayEmitNext`, the lemma of the first refinement, says that it may come next on the wire.

*Events.* `TurnsKept`: a source that was passed over is the one polled first next time, at
both levels. With it `PassedOverOnce` is inductive.

*Dispatch.* The invariant follows a call: a router entry is the last registration of its
name; a pipe's call has the payload and sink of its arm, because both arms come of one
method and a name occurs once; the method called is `TraitMethod` of it; an error met is in
`error` until the Close that reports it.

*Metadata.* `MapInv` has three parts: every key is lower case and has at least one value, the
log is one of operations, and each key, not only those of `Keys`, holds what the log says.
`HoldsWhatWasAdded` compares a list with the positions in the log of the operations that made
it. An operation adds the last position or empties the set (`AddedAppend`), so that the rank of
the others stays (`HeldAppend`). The prover takes no predicate as a parameter, so
`Induction` is stated for sets, out of the well-foundedness of `<` on Nat; with it the functions
that `Yielded` and `Rebuilt` choose exist and unfold (`RebuiltIs`, `YieldedIs`), reading one more
entry is one more turn of the loop (`ReadAppend`), and the two inductions follow: any headers a
peer may send make a map as good as one built by calls (`ReadOK`), and after the pairs of the keys
below `c` the peer has exactly those keys (`Survives`). That keys are lower case is what keeps two
of them from becoming one over the wire; that none is empty keeps it from getting lost.

*Only model-checked*: the liveness properties, and the fairness in `ImplementsEventLoop`,
since the prover has no rule for fairness or ENABLED.

## 6. Not modelled, and why

* `doc.rs` and the entry point of the generator: text in, attributes out.
* Examples, build scripts, crate roots, the generator's test fixture.
* Contents of messages and of metadata values, and their encoding: nothing in `src/` looks into
  them but the decode of a generated server, of which the success or failure is modelled.
* Panic as abort (`panic=abort`): the process ends, as the comment on `catch_unwind` says.
* The memory of the unbounded request channel: the caller's to bound, by the comment on
  `serve`. `MaxQueued` bounds it in the models.
* Liveness on many threads: left out for its size, see section 3.
* A restart: nothing is kept across connections; ids and sessions die with `Connection`.

## 7. Plan

Built: all modules of section 2, with a theorem for every safety property of a passing run.
What could come next: the `Begin` of ServiceDispatch as the `Routes` of PipeTransport, in one
module with both; step lemmas towards the liveness properties (what keeps an owed Close owed
until it is sent); liveness on many threads for one call.
