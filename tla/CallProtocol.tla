---------------------------- MODULE CallProtocol ----------------------------
(***************************************************************************)
(* What packet.proto promises about the packets of one pipe, call by call. *)
(* The client half says which request frames a conforming client may send, *)
(* the server half which response frames may come out of the pipe.         *)
(* Payloads are abstracted; a Close is represented by its status.          *)
(***************************************************************************)
EXTENDS Naturals, Sequences

CONSTANTS Ids,        \* call ids the model may use (0 is never one of them)
          Statuses    \* status codes a Close may carry

VARIABLES client,     \* what the client has sent for each call
          wire        \* the response frames that came out, for each call

Bodies == {"headers", "message"} \cup Statuses

ClientStates == {"unused", "streaming", "halfclosed", "cancelled"}

TypeOK == /\ client \in [Ids -> ClientStates]
          /\ wire \in [Ids -> Seq(Bodies)]

Init == /\ client = [r \in Ids |-> "unused"]
        /\ wire = [r \in Ids |-> <<>>]

(***************************************************************************)
(* RequestPacket.  Ids increase; a single-request Begin is already half    *)
(* closed; a streaming one is closed by one DoneSending; Cancel any time.  *)
(***************************************************************************)
MayBegin(r) == \A q \in Ids : q >= r => client[q] = "unused"
MaySend(r) == client[r] = "streaming"
MayCancel(r) == client[r] \in {"streaming", "halfclosed"}

BeginAs(r, single) ==
    client' = [client EXCEPT ![r] = IF single THEN "halfclosed" ELSE "streaming"]

Finish(r) == client' = [client EXCEPT ![r] = IF @ = "streaming" THEN "halfclosed" ELSE @]

Abort(r) == client' = [client EXCEPT ![r] = IF @ = "unused" THEN @ ELSE "cancelled"]

ClientStep(r) ==
    /\ \/ MayBegin(r) /\ \E single \in BOOLEAN : BeginAs(r, single)
       \/ MaySend(r) /\ Finish(r)
       \/ MayCancel(r) /\ Abort(r)
    /\ UNCHANGED wire

(***************************************************************************)
(* ResponsePacket.  Optional Headers first, Messages, at most one Close,   *)
(* nothing after it; the server never opens a call.                        *)
(***************************************************************************)
IsClosed(frames) == \E i \in DOMAIN frames : frames[i] \in Statuses

MayEmit(frames, body) ==
    /\ ~IsClosed(frames)
    /\ body = "headers" => frames = <<>>

Emit(r, body) ==
    /\ client[r] # "unused"
    /\ MayEmit(wire[r], body)
    /\ wire' = [wire EXCEPT ![r] = Append(@, body)]
    /\ UNCHANGED client

Next == \E r \in Ids : ClientStep(r) \/ \E body \in Bodies : Emit(r, body)

Spec == Init /\ [][Next]_<<client, wire>>
=============================================================================
