----------------------------- MODULE PipeSystem -----------------------------
(***************************************************************************)
(* A PipeTransport connection between two pipes of bounded capacity and a  *)
(* client that keeps to packet.proto.  The client does one thing at a      *)
(* time: while the request pipe is full its write waits, and it reads      *)
(* nothing meanwhile.  The transport itself is told nothing of the client: *)
(* it handles, in order, the packets that come out of `inbound`.           *)
(***************************************************************************)
EXTENDS PipeTransportProperties

CONSTANTS
    ReqCap,     \* packets the request pipe holds
    RespCap     \* packets the response pipe holds

ASSUME PipeAssumption ==
    ReqCap \in Nat /\ RespCap \in Nat \ {0} /\ Conforming = FALSE

VARIABLES
    sent,       \* what the client has sent for each call
    said,       \* messages the client has sent
    requests,   \* `inbound`; a packet past ReqCap is the one the client waits to write
    replies,    \* the pipe behind `outbound`
    got         \* history: what the client has read of each call

pipeVars == <<sent, said, requests, replies, got>>
systemVars == <<vars, pipeVars>>

C == INSTANCE CallProtocol
     WITH Ids <- Ids, Statuses <- Statuses, client <- sent, wire <- got

SystemInit ==
    Init /\ C!Init /\ said = 0 /\ requests = <<>> /\ replies = <<>>

-----------------------------------------------------------------------------
(* The client.                                                             *)

Blocked == Len(requests) > ReqCap

Write(packet) ==
    /\ ~Blocked
    /\ requests' = Append(requests, packet)
    /\ UNCHANGED <<vars, replies, got>>

ClientBegin(r, path) ==
    LET single == Resolves(path) /\ ~Descriptor(path).client_streaming IN
    /\ C!MayBegin(r)
    /\ C!BeginAs(r, single) /\ UNCHANGED said
    /\ Write([id |-> r, frame |-> "begin", path |-> path, single |-> single])

\* Bound: MaxQueued messages in all, so that the handler's channel takes
\* whatever comes, read or not, as the unbounded one of the code does.
ClientMessage(r) ==
    /\ C!MaySend(r)
    /\ said < MaxQueued
    /\ said' = said + 1
    /\ Write([id |-> r, frame |-> "message"])
    /\ UNCHANGED sent

ClientFinish(r) ==
    /\ C!MaySend(r)
    /\ C!Finish(r) /\ UNCHANGED said
    /\ Write([id |-> r, frame |-> "done_sending"])

ClientCancel(r) ==
    /\ C!MayCancel(r)
    /\ C!Abort(r) /\ UNCHANGED said
    /\ Write([id |-> r, frame |-> "cancel"])

ClientRead ==
    /\ ~Blocked
    /\ replies # <<>>
    /\ replies' = Tail(replies)
    /\ got' = [got EXCEPT ![Head(replies).id] = Append(@, Head(replies).body)]
    /\ UNCHANGED <<vars, sent, said, requests>>

Client ==
    \/ \E r \in Ids :
        \/ \E path \in Paths : ClientBegin(r, path)
        \/ ClientMessage(r) \/ ClientFinish(r) \/ ClientCancel(r)
    \/ ClientRead

-----------------------------------------------------------------------------
(* The server: PipeTransport, its packets taken from one pipe and its      *)
(* frames put into the other.                                              *)

\* A message for a call that is over, or whose handler reads no more.
Discarded(r) ==
    /\ loop = "running"
    /\ session[r] = "absent" \/ (session[r] = "open" /\ rx[r] # "open")
    /\ UNCHANGED vars

Handled(p) ==
    \/ /\ p.frame = "begin"
       /\ \/ BeginViolation(p.id)
          \/ BeginRefused(p.id, p.path, p.single)
          \/ BeginAccepted(p.id, p.path, p.single)
    \/ /\ p.frame = "message"
       /\ Message(p.id) \/ Kill(p.id) \/ Discarded(p.id)
    \/ /\ p.frame = "done_sending"
       /\ DoneSending(p.id)
    \/ /\ p.frame = "cancel"
       /\ Cancel(p.id)

\* A slip LoopReady could make: a bounded request channel the loop waits on when full.
ReadyAfterRecv == loop = "running" /\ \A r \in Ids : inbox[r] < MaxQueued

LoopReady == loop = "running"

LoopPacket ==
    /\ LoopReady
    /\ requests # <<>>
    /\ Handled(Head(requests))
    /\ requests' = Tail(requests)
    /\ UNCHANGED <<sent, said, replies, got>>

OutboundAccepts ==
    /\ Len(replies) < RespCap
    /\ WriterSend
    /\ replies' = Append(replies, Head(held))
    /\ UNCHANGED <<sent, said, requests, got>>

\* All that goes on inside the process.
Inside ==
    /\ \/ LoopDone \/ InboundClosed \/ WriterGone
       \/ \E r \in Ids : TaskStep(r) \/ CloserStep(r)
       \/ WriterTake \/ WriterFail \/ WriterFinish
    /\ UNCHANGED pipeVars

SystemNext == Client \/ LoopPacket \/ OutboundAccepts \/ Inside

SystemSpec == SystemInit /\ [][SystemNext]_systemVars

\* The executor runs its tasks and the run loop reads `inbound`; neither the pipes
\* nor the client need ever take another frame.
StalledSystem == SystemSpec /\ ExecutorFairness /\ WF_systemVars(LoopPacket)

-----------------------------------------------------------------------------
(* Properties.                                                             *)

\* Client and server never wait on each other: a client stuck in a write gets its
\* packet accepted however full the response pipe, the funnel and the done channel
\* are, although it reads nothing.  (handle_packet "never blocks"; send_close.)
NoCircularWait == Blocked ~> ~Blocked \/ loop = "stopped"

CancelledRuns == \E r \in Ids : sent[r] = "cancelled" /\ IsLive(r)

\* A Cancel the client has written gets rid of the call's handler even while nobody
\* reads responses: there comes a time when no cancelled call runs, and as none
\* comes back to life, none is left.  (run, Cancel, Abortable.)
CancelEndsHandler == CancelledRuns ~> ~CancelledRuns

\* A client that keeps to the protocol is never killed and never loses its
\* connection to a violation, whatever the delay of its packets: all the Closes
\* the loop sends are for calls it refused.  (kill, highest_id.)
NeverKilled ==
    /\ \A r \in Ids : closer[r] # "none" => task[r] = "unspawned"
    /\ \A i \in DOMAIN requests : requests[i].frame = "begin" => ~StaleId(requests[i].id)

(***************************************************************************)
(* Inductive strengthenings of NeverKilled and of ClientSeesProtocol, which *)
(* PipeSystemProofs proves.                                                *)
(***************************************************************************)

IsMessage(p, r) == p.frame = "message" /\ p.id = r

\* After this packet the client has no message for the call.
EndsSending(p) == p.frame = "done_sending" \/ (p.frame = "begin" /\ p.single)

\* Begins come in the order of their ids, all above the ids the loop has seen.
BeginsInOrder ==
    /\ highest # 0 => sent[highest] # "unused"
    /\ \A i \in DOMAIN requests : requests[i].frame = "begin" =>
         /\ requests[i].id > highest
         /\ sent[requests[i].id] # "unused"
         /\ \A j \in DOMAIN requests :
              j > i /\ requests[j].frame = "begin" => requests[j].id > requests[i].id

\* No message follows the packet that ends the client's half of a call, in the pipe
\* or in the session it has made.
NothingAfterEnd ==
    /\ \A i \in DOMAIN requests : EndsSending(requests[i]) =>
         /\ sent[requests[i].id] \in {"halfclosed", "cancelled"}
         /\ \A j \in DOMAIN requests : j > i => ~IsMessage(requests[j], requests[i].id)
    /\ \A r \in Ids : session[r] = "half" =>
         /\ sent[r] \in {"halfclosed", "cancelled"}
         /\ \A j \in DOMAIN requests : ~IsMessage(requests[j], r)

ClosersRefused == \A r \in Ids : closer[r] # "none" => r <= highest /\ task[r] = "unspawned"

ClientInv == BeginsInOrder /\ NothingAfterEnd /\ ClosersRefused

\* The loop knows only calls the client has begun.
BegunByClient ==
    \A r \in Ids : task[r] # "unspawned" \/ closer[r] # "none" => sent[r] # "unused"

\* What the client has read, or finds in the pipe, is what `outbound` took of the call.
Delivered ==
    \A r \in Ids :
        /\ \A i \in DOMAIN got[r] : \E k \in DOMAIN wire[r] : wire[r][k] = got[r][i]
        /\ \A i \in DOMAIN replies : replies[i].id = r =>
              \E k \in DOMAIN wire[r] : wire[r][k] = replies[i].body

\* And it comes in an order packet.proto allows.
ReplyInv == BegunByClient /\ Delivered /\ InOrder(got, replies)

\* What the client has read is what packet.proto lets it see, for what it had sent
\* by then.
ClientSeesProtocol == C!Spec
=============================================================================
