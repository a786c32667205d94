-------------------------- MODULE PipeSystemProofs --------------------------
(***************************************************************************)
(* The connection inside PipeSystem is a PipeTransport connection, so what *)
(* PipeTransportProofs and PipeProtocolProofs show of one holds for the    *)
(* other; what goes into the request pipe keeps the client from being      *)
(* killed; and what it reads from the other pipe is a behaviour of         *)
(* CallProtocol.                                                           *)
(***************************************************************************)
EXTENDS PipeSystem, PipeProtocolProofs

\* A packet out of the request pipe is handled by a step of the run loop, or
\* discarded.
LEMMA HandledIsPacket ==
    ASSUME NEW p, p.id \in Ids, p.frame = "begin" => p.path \in Paths /\ p.single \in BOOLEAN,
           Handled(p)
    PROVE  [Next]_vars
  <1>1. CASE BeginViolation(p.id)
    BY <1>1, BoundsAssumption DEF Next, RunLoop, Packet, Ids
  <1>2. CASE p.frame = "begin" /\ (BeginRefused(p.id, p.path, p.single) \/ BeginAccepted(p.id, p.path, p.single))
    BY <1>2 DEF Next, RunLoop, Packet
  <1>3. CASE Message(p.id) \/ Kill(p.id) \/ DoneSending(p.id) \/ Cancel(p.id)
    BY <1>3 DEF Next, RunLoop, Packet
  <1>4. CASE Discarded(p.id)
    BY <1>4 DEF Discarded
  <1> QED
    BY <1>1, <1>2, <1>3, <1>4 DEF Handled

-----------------------------------------------------------------------------
(* Types, and the refinement.                                              *)

\* The packets in the request pipe are packets.
Packets ==
    [id : Ids, frame : {"begin"}, path : Paths, single : BOOLEAN]
    \cup [id : Ids, frame : {"message", "done_sending", "cancel"}]

PipeTypeOK ==
    /\ requests \in Seq(Packets)
    /\ sent \in [Ids -> C!ClientStates]

\* What the client does to its state and the request pipe.
LEMMA ClientStepEffect ==
    ASSUME PipeTypeOK, Client
    PROVE  /\ UNCHANGED vars
           /\ \/ ClientRead /\ UNCHANGED <<requests, sent>>
              \/ \E packet \in Packets :
                    /\ requests' = Append(requests, packet) /\ UNCHANGED <<replies, got>>
                    /\ \/ C!MayBegin(packet.id) /\ packet.frame = "begin" /\ C!BeginAs(packet.id, packet.single)
                       \/ C!MaySend(packet.id) /\ packet.frame = "message" /\ UNCHANGED sent
                       \/ C!MaySend(packet.id) /\ packet.frame = "done_sending" /\ C!Finish(packet.id)
                       \/ C!MayCancel(packet.id) /\ packet.frame = "cancel" /\ C!Abort(packet.id)
  <1>1. CASE ClientRead
    BY <1>1 DEF ClientRead
  <1>2. ASSUME NEW r \in Ids, NEW path \in Paths, ClientBegin(r, path)
        PROVE  \E packet \in Packets :
                  /\ requests' = Append(requests, packet) /\ UNCHANGED <<vars, replies, got>>
                  /\ C!MayBegin(packet.id) /\ packet.frame = "begin" /\ C!BeginAs(packet.id, packet.single)
    <2> DEFINE single == Resolves(path) /\ ~Descriptor(path).client_streaming
    <2> DEFINE packet == [id |-> r, frame |-> "begin", path |-> path, single |-> single]
    <2>1. C!MayBegin(r) /\ C!BeginAs(r, single) /\ Write(packet)
      BY <1>2 DEF ClientBegin
    <2>2. single \in BOOLEAN
      BY DEF Resolves
    <2> HIDE DEF single
    <2>3. packet \in Packets
      BY <2>2 DEF Packets
    <2> QED
      BY <2>1, <2>3 DEF Write
  <1>3. ASSUME NEW r \in Ids, ClientMessage(r) \/ ClientFinish(r) \/ ClientCancel(r)
        PROVE  \E packet \in Packets :
                  /\ requests' = Append(requests, packet) /\ UNCHANGED <<vars, replies, got>>
                  /\ \/ C!MaySend(packet.id) /\ packet.frame = "message" /\ UNCHANGED sent
                     \/ C!MaySend(packet.id) /\ packet.frame = "done_sending" /\ C!Finish(packet.id)
                     \/ C!MayCancel(packet.id) /\ packet.frame = "cancel" /\ C!Abort(packet.id)
    <2>1. \A f \in {"message", "done_sending", "cancel"} : [id |-> r, frame |-> f] \in Packets
      BY DEF Packets
    <2> QED
      BY <1>3, <2>1 DEF ClientMessage, ClientFinish, ClientCancel, Write
  <1> QED
    BY <1>1, <1>2, <1>3 DEF Client

LEMMA PipeTypeStep ==
    ASSUME PipeTypeOK, [SystemNext]_systemVars
    PROVE  PipeTypeOK'
  <1>1. CASE Client
    BY <1>1, ClientStepEffect
    DEF PipeTypeOK, C!BeginAs, C!Finish, C!Abort, C!ClientStates
  <1>2. CASE LoopPacket
    BY <1>2 DEF PipeTypeOK, LoopPacket
  <1>3. CASE OutboundAccepts
    BY <1>3 DEF PipeTypeOK, OutboundAccepts
  <1>4. CASE Inside \/ UNCHANGED systemVars
    BY <1>4 DEF PipeTypeOK, Inside, systemVars, pipeVars
  <1> QED
    BY <1>1, <1>2, <1>3, <1>4 DEF SystemNext

LEMMA PipeTypeCorrect == SystemSpec => []PipeTypeOK
  <1>1. SystemInit => PipeTypeOK
    BY DEF SystemInit, C!Init, PipeTypeOK, C!ClientStates
  <1> QED
    BY <1>1, PipeTypeStep, PTL DEF SystemSpec

\* Every step of the system is a step of the connection, or does not concern it.
LEMMA SystemStep ==
    ASSUME PipeTypeOK, [SystemNext]_systemVars
    PROVE  [Next]_vars
  <1>1. CASE Client
    BY <1>1, ClientStepEffect
  <1>2. CASE LoopPacket
    <2> DEFINE p == Head(requests)
    <2>1. p \in Packets /\ Handled(p)
      BY <1>2 DEF LoopPacket, PipeTypeOK
    <2>2. p.id \in Ids /\ (p.frame = "begin" => p.path \in Paths /\ p.single \in BOOLEAN)
      BY <2>1 DEF Packets
    <2> HIDE DEF p
    <2> QED
      BY <2>1, <2>2, HandledIsPacket
  <1>3. CASE OutboundAccepts
    BY <1>3 DEF OutboundAccepts, Next, Writer
  <1>4. CASE Inside
    BY <1>4 DEF Inside, Next, RunLoop, Writer
  <1>5. CASE UNCHANGED systemVars
    BY <1>5 DEF systemVars
  <1> QED
    BY <1>1, <1>2, <1>3, <1>4, <1>5 DEF SystemNext

\* A connection between two bounded pipes is a connection of PipeTransport, whatever
\* the pipes hold.  (serve.)
THEOREM SystemRefines == SystemSpec => Spec
  <1>1. SystemInit => Init
    BY DEF SystemInit
  <1> QED
    BY <1>1, SystemStep, PipeTypeCorrect, PTL DEF SystemSpec, Spec

\* What the proofs about a single connection say of the one in the system.
LEMMA ConnectionInv == SystemSpec => [](TypeOK /\ SessionInv)
  BY SystemRefines, TypeCorrect, SessionInvariant, PTL

-----------------------------------------------------------------------------
(* A conforming client is never killed.                                    *)

\* Nothing but handle_packet opens or half-closes a session, begins a task, or
\* owes a Close.
Calm ==
    /\ UNCHANGED highest
    /\ \A r \in Ids :
        /\ session'[r] = "half" => session[r] = "half"
        /\ closer'[r] # "none" => closer[r] # "none"
        /\ task[r] = "unspawned" => task'[r] = "unspawned"

LEMMA InsideCalm ==
    ASSUME TypeOK, Inside \/ OutboundAccepts \/ UNCHANGED vars
    PROVE  Calm
  <1>1. ASSUME Quiet PROVE Calm
    BY <1>1 DEF Quiet, Calm, IsLive
  <1>2. CASE LoopDone
    BY <1>2 DEF LoopDone, Calm, TypeOK, taskVars
  <1>3. CASE Stop
    BY <1>3 DEF Stop, Calm
  <1>4. ASSUME NEW r \in Ids, TaskStep(r) \/ CloserStep(r)
        PROVE  Calm
    <2>1. CASE ReportDone(r)
      BY <2>1 DEF ReportDone, Calm, TypeOK, loopVars
    <2> QED
      BY <1>1, <1>4, <2>1, QuietSteps
  <1>5. CASE Writer \/ UNCHANGED vars
    BY <1>5
    DEF Writer, WriterTake, WriterSend, WriterFail, WriterFinish, Calm, vars, loopVars, taskVars
  <1> QED
    BY <1>2, <1>3, <1>4, <1>5 DEF Inside, OutboundAccepts, InboundClosed, WriterGone, Writer

LEMMA CalmKeeps ==
    ASSUME TypeOK, PipeTypeOK, ClientInv, Calm, UNCHANGED <<requests, sent>>
    PROVE  ClientInv'
  <1>1. BeginsInOrder'
    BY DEF ClientInv, BeginsInOrder, Calm
  <1>2. NothingAfterEnd'
    BY DEF ClientInv, NothingAfterEnd, Calm, EndsSending, IsMessage
  <1>3. ClosersRefused'
    BY DEF ClientInv, ClosersRefused, Calm
  <1> QED
    BY <1>1, <1>2, <1>3 DEF ClientInv

\* The client writes only what its half of the call still allows.
LEMMA ClientKeeps ==
    ASSUME TypeOK, PipeTypeOK, ClientInv, Client
    PROVE  ClientInv'
  <1>1. UNCHANGED <<highest, session, closer, task>>
    BY ClientStepEffect DEF vars, loopVars, taskVars
  <1>2. ClosersRefused'
    BY <1>1 DEF ClientInv, ClosersRefused
  <1>3. CASE UNCHANGED <<requests, sent>>
    BY <1>1, <1>3, CalmKeeps DEF Calm
  <1>4. ASSUME NEW packet \in Packets, requests' = Append(requests, packet),
               \/ C!MayBegin(packet.id) /\ packet.frame = "begin" /\ C!BeginAs(packet.id, packet.single)
               \/ C!MaySend(packet.id) /\ packet.frame = "message" /\ UNCHANGED sent
               \/ C!MaySend(packet.id) /\ packet.frame = "done_sending" /\ C!Finish(packet.id)
               \/ C!MayCancel(packet.id) /\ packet.frame = "cancel" /\ C!Abort(packet.id)
        PROVE  ClientInv'
    <2>1. /\ packet.id \in Ids
          /\ packet.frame \in {"begin", "message", "done_sending", "cancel"}
      BY DEF Packets
    <2>2. \A i \in DOMAIN requests : requests[i] \in Packets /\ requests[i].id \in Ids
      BY DEF PipeTypeOK, Packets
    <2>3. \A i \in DOMAIN requests' :
             \/ i \in DOMAIN requests /\ requests'[i] = requests[i]
             \/ i = Len(requests) + 1 /\ requests'[i] = packet
      BY <1>4 DEF PipeTypeOK
    <2>4. \A r \in Ids :
             /\ sent[r] # "unused" => sent'[r] # "unused"
             /\ sent'[r] = "streaming" => sent[r] = "streaming" \/ (r = packet.id /\ packet.frame = "begin")
      BY <1>4, <2>1 DEF PipeTypeOK, C!ClientStates, C!BeginAs, C!Finish, C!Abort, C!MaySend, C!MayCancel
    <2>5. packet.frame = "begin" =>
             /\ packet.id > highest
             /\ sent'[packet.id] # "unused"
             /\ \A i \in DOMAIN requests : requests[i].frame = "begin" => requests[i].id < packet.id
             /\ sent[packet.id] = "unused"
      <3> SUFFICES ASSUME packet.frame = "begin"
                   PROVE  /\ packet.id > highest
                          /\ sent'[packet.id] # "unused"
                          /\ \A i \in DOMAIN requests : requests[i].frame = "begin" => requests[i].id < packet.id
                          /\ sent[packet.id] = "unused"
        OBVIOUS
      <3>1. \A q \in Ids : q >= packet.id => sent[q] = "unused"
        BY <1>4 DEF C!MayBegin
      <3>2. sent'[packet.id] # "unused"
        BY <1>4, <2>1 DEF C!BeginAs, PipeTypeOK
      <3>3. highest \in Ids \cup {0} /\ highest \in Nat /\ packet.id \in Nat
        BY <2>1, BoundsAssumption DEF TypeOK, Ids
      <3>4. packet.id > highest
        BY <2>1, <3>1, <3>3 DEF ClientInv, BeginsInOrder, Ids
      <3>5. \A i \in DOMAIN requests : requests[i].frame = "begin" => requests[i].id < packet.id
        BY <2>1, <2>2, <3>1, BoundsAssumption DEF ClientInv, BeginsInOrder, Ids
      <3> QED
        BY <2>1, <3>1, <3>2, <3>3, <3>4, <3>5
    <2>6. BeginsInOrder'
      <3>1. highest' # 0 => sent'[highest'] # "unused"
        BY <1>1, <2>4, BoundsAssumption DEF ClientInv, BeginsInOrder, TypeOK, Ids
      <3>2. ASSUME NEW i \in DOMAIN requests', requests'[i].frame = "begin"
            PROVE  /\ requests'[i].id > highest'
                   /\ sent'[requests'[i].id] # "unused"
        BY <1>1, <2>2, <2>3, <2>4, <2>5, <3>2 DEF ClientInv, BeginsInOrder
      <3>3. ASSUME NEW i \in DOMAIN requests', requests'[i].frame = "begin",
                   NEW j \in DOMAIN requests', j > i, requests'[j].frame = "begin"
            PROVE  requests'[j].id > requests'[i].id
        <4>1. i \in DOMAIN requests /\ requests'[i] = requests[i]
          BY <1>4, <2>3, <3>3 DEF PipeTypeOK
        <4>2. packet.id \in Nat /\ requests[i].id \in Nat
          BY <2>1, <2>2, <4>1, BoundsAssumption DEF Ids
        <4> QED
          BY <2>3, <2>5, <3>3, <4>1, <4>2 DEF ClientInv, BeginsInOrder
      <3> QED
        BY <3>1, <3>2, <3>3 DEF BeginsInOrder
    <2>7. NothingAfterEnd'
      <3>1. ASSUME NEW r \in Ids, sent[r] \in {"halfclosed", "cancelled"}
            PROVE  sent'[r] \in {"halfclosed", "cancelled"} /\ ~IsMessage(packet, r)
        BY <1>4, <2>5, <3>1
        DEF IsMessage, PipeTypeOK, C!BeginAs, C!Finish, C!Abort, C!MaySend
      <3>2. ASSUME NEW i \in DOMAIN requests', EndsSending(requests'[i])
            PROVE  sent'[requests'[i].id] \in {"halfclosed", "cancelled"}
        <4>1. CASE i \in DOMAIN requests /\ requests'[i] = requests[i]
          BY <2>2, <3>1, <3>2, <4>1 DEF ClientInv, NothingAfterEnd
        <4>2. CASE requests'[i] = packet
          BY <1>4, <2>1, <3>2, <4>2 DEF EndsSending, PipeTypeOK, C!BeginAs, C!Finish, C!MaySend
        <4> QED
          BY <2>3, <4>1, <4>2
      <3>3. ASSUME NEW i \in DOMAIN requests', EndsSending(requests'[i]),
                   NEW j \in DOMAIN requests', j > i
            PROVE  ~IsMessage(requests'[j], requests'[i].id)
        <4>1. i \in DOMAIN requests /\ requests'[i] = requests[i]
          BY <1>4, <2>3, <3>3 DEF PipeTypeOK
        <4>2. ~IsMessage(packet, requests[i].id)
          BY <2>2, <3>1, <3>3, <4>1 DEF ClientInv, NothingAfterEnd
        <4> QED
          BY <2>3, <3>3, <4>1, <4>2 DEF ClientInv, NothingAfterEnd
      <3>4. ASSUME NEW r \in Ids, session'[r] = "half"
            PROVE  /\ sent'[r] \in {"halfclosed", "cancelled"}
                   /\ \A j \in DOMAIN requests' : ~IsMessage(requests'[j], r)
        BY <1>1, <2>3, <3>1, <3>4 DEF ClientInv, NothingAfterEnd
      <3> QED
        BY <3>2, <3>3, <3>4 DEF NothingAfterEnd, EndsSending, IsMessage
    <2> QED
      BY <1>2, <2>6, <2>7 DEF ClientInv
  <1> QED
    BY <1>3, <1>4, ClientStepEffect

\* The loop takes the packets in the order they were written.
LEMMA LoopKeeps ==
    ASSUME TypeOK, SessionInv, PipeTypeOK, ClientInv, LoopPacket
    PROVE  ClientInv'
  <1> DEFINE p == Head(requests)
  <1>1. requests # <<>> /\ Handled(p) /\ requests' = Tail(requests) /\ sent' = sent
    BY DEF LoopPacket
  <1>2. p = requests[1] /\ 1 \in DOMAIN requests /\ p \in Packets
    BY <1>1 DEF PipeTypeOK
  <1>3. \A i \in DOMAIN requests' :
           i + 1 \in DOMAIN requests /\ i + 1 > 1 /\ requests'[i] = requests[i + 1]
    BY <1>1 DEF PipeTypeOK
  <1>4. \A i, j \in DOMAIN requests' : j > i => j + 1 > i + 1
    BY <1>1 DEF PipeTypeOK
  <1> HIDE DEF p
  <1>5. p.id \in Ids
    BY <1>2 DEF Packets
  \* What holds of the packets that are left.
  <1>6. /\ \A i \in DOMAIN requests' : EndsSending(requests'[i]) =>
             /\ sent[requests'[i].id] \in {"halfclosed", "cancelled"}
             /\ \A j \in DOMAIN requests' : j > i => ~IsMessage(requests'[j], requests'[i].id)
        /\ \A r \in Ids : session[r] = "half" =>
             /\ sent[r] \in {"halfclosed", "cancelled"}
             /\ \A j \in DOMAIN requests' : ~IsMessage(requests'[j], r)
    BY <1>3, <1>4 DEF ClientInv, NothingAfterEnd
  <1>7. /\ highest # 0 => sent[highest] # "unused"
        /\ \A i \in DOMAIN requests' : requests'[i].frame = "begin" =>
             /\ requests'[i].id > highest
             /\ sent[requests'[i].id] # "unused"
             /\ \A j \in DOMAIN requests' :
                  j > i /\ requests'[j].frame = "begin" => requests'[j].id > requests'[i].id
    BY <1>3, <1>4 DEF ClientInv, BeginsInOrder
  <1>8. EndsSending(p) => /\ sent[p.id] \in {"halfclosed", "cancelled"}
                          /\ \A j \in DOMAIN requests' : ~IsMessage(requests'[j], p.id)
    BY <1>2, <1>3 DEF ClientInv, NothingAfterEnd
  <1>9. ASSUME UNCHANGED highest
        PROVE  BeginsInOrder'
    BY <1>1, <1>7, <1>9 DEF BeginsInOrder
  <1>10. ASSUME \A r \in Ids : session'[r] = "half" => session[r] = "half" \/ (r = p.id /\ EndsSending(p))
         PROVE  NothingAfterEnd'
    BY <1>1, <1>6, <1>8, <1>10 DEF NothingAfterEnd, EndsSending, IsMessage
  <1>11. CASE Stop
    <2>1. ClosersRefused'
      BY <1>11 DEF Stop, ClientInv, ClosersRefused
    <2>2. UNCHANGED highest /\ \A r \in Ids : session'[r] = "absent"
      BY <1>11 DEF Stop
    <2> QED
      BY <1>9, <1>10, <2>1, <2>2 DEF ClientInv
  <1>12. ASSUME p.frame = "begin", BeginRefused(p.id, p.path, p.single) \/ BeginAccepted(p.id, p.path, p.single)
         PROVE  ClientInv'
    <2>1. highest' = p.id /\ p.id > highest
      BY <1>5, <1>12, BoundsAssumption DEF BeginRefused, RefusedId, BeginAccepted, StaleId, TypeOK, Ids
    <2>2. BeginsInOrder'
      <3>1. sent[p.id] # "unused"
        BY <1>2, <1>12 DEF ClientInv, BeginsInOrder
      <3>2. \A i \in DOMAIN requests' : requests'[i].frame = "begin" => requests'[i].id > p.id
        BY <1>2, <1>3, <1>12 DEF ClientInv, BeginsInOrder
      <3> QED
        BY <1>1, <1>7, <2>1, <3>1, <3>2 DEF BeginsInOrder
    <2>3. NothingAfterEnd'
      <3>1. CASE BeginRefused(p.id, p.path, p.single)
        BY <1>10, <3>1 DEF BeginRefused, RefusedId
      <3>2. CASE BeginAccepted(p.id, p.path, p.single)
        <4>1. ASSUME NEW r \in Ids, session'[r] = "half", r # p.id
              PROVE  session[r] = "half"
          BY <3>2, <4>1 DEF BeginAccepted, TypeOK
        <4>2. session'[p.id] = "half" => p.single
          BY <1>5, <3>2 DEF BeginAccepted, ClientTx, Accepted, TypeOK
        <4> QED
          BY <1>10, <1>12, <4>1, <4>2 DEF EndsSending
      <3> QED
        BY <1>12, <3>1, <3>2
    <2>4. ClosersRefused'
      <3>1. task[p.id] = "unspawned" /\ closer[p.id] = "none"
        BY <1>5, <2>1 DEF SessionInv, FreshIds
      <3>2. \A r \in Ids : r <= highest => r <= p.id
        BY <1>5, <2>1, BoundsAssumption DEF Ids, TypeOK
      <3>3. p.id <= p.id
        BY <1>5, BoundsAssumption DEF Ids
      <3> QED
        BY <1>5, <1>12, <2>1, <3>1, <3>2, <3>3
        DEF ClientInv, ClosersRefused, BeginRefused, RefusedId, BeginAccepted, TypeOK, taskVars
    <2> QED
      BY <2>2, <2>3, <2>4 DEF ClientInv
  <1>13. ASSUME p.frame = "message", Kill(p.id)
         PROVE  FALSE
    BY <1>2, <1>5, <1>13 DEF Kill, ClientInv, NothingAfterEnd, IsMessage
  <1>14. CASE Message(p.id) \/ Discarded(p.id)
    <2>1. UNCHANGED <<highest, session, closer, task>>
      BY <1>14 DEF Message, Discarded, vars, loopVars, taskVars
    <2> QED
      BY <1>9, <1>10, <2>1 DEF ClientInv, ClosersRefused
  <1>15. ASSUME p.frame = "done_sending", DoneSending(p.id)
         PROVE  ClientInv'
    <2>1. UNCHANGED <<highest, closer, task>>
      BY <1>15 DEF DoneSending, taskVars
    <2>2. \A r \in Ids : session'[r] = "half" => session[r] = "half" \/ r = p.id
      BY <1>15 DEF DoneSending, TypeOK
    <2> QED
      BY <1>9, <1>10, <1>15, <2>1, <2>2 DEF ClientInv, ClosersRefused, EndsSending
  <1>16. CASE Cancel(p.id)
    <2>1. UNCHANGED <<highest, closer, task>>
      BY <1>16 DEF Cancel
    <2>2. \A r \in Ids : session'[r] = "half" => session[r] = "half"
      BY <1>16 DEF Cancel, TypeOK
    <2> QED
      BY <1>9, <1>10, <2>1, <2>2 DEF ClientInv, ClosersRefused
  <1> QED
    BY <1>1, <1>11, <1>12, <1>13, <1>14, <1>15, <1>16 DEF Handled, BeginViolation

\* Why a conforming client is never killed: what it writes stays in order until it
\* is handled.
THEOREM ClientInvariant == SystemSpec => []ClientInv
  <1>1. SystemInit => ClientInv
    BY DEF SystemInit, Init, ClientInv, BeginsInOrder, NothingAfterEnd, ClosersRefused
  <1>2. TypeOK /\ SessionInv /\ PipeTypeOK /\ ClientInv /\ [SystemNext]_systemVars => ClientInv'
    <2> SUFFICES ASSUME TypeOK, SessionInv, PipeTypeOK, ClientInv, [SystemNext]_systemVars
                 PROVE  ClientInv'
      OBVIOUS
    <2>1. CASE Inside \/ OutboundAccepts \/ UNCHANGED systemVars
      BY <2>1, InsideCalm, CalmKeeps DEF Inside, OutboundAccepts, systemVars, pipeVars
    <2> QED
      BY <2>1, ClientKeeps, LoopKeeps DEF SystemNext
  <1> QED
    BY <1>1, <1>2, ConnectionInv, PipeTypeCorrect, PTL DEF SystemSpec

\* A client that keeps to packet.proto is never killed, and never loses its
\* connection to a violation, for any number of calls and any pipes.
THEOREM ConformingClientSafe == SystemSpec => []NeverKilled
  <1>1. TypeOK /\ PipeTypeOK /\ ClientInv => NeverKilled
    <2> SUFFICES ASSUME TypeOK, PipeTypeOK, ClientInv PROVE NeverKilled
      OBVIOUS
    <2>1. ASSUME NEW i \in DOMAIN requests, requests[i].frame = "begin"
          PROVE  ~StaleId(requests[i].id)
      <3>1. requests[i].id \in Ids
        BY DEF PipeTypeOK, Packets
      <3> QED
        BY <2>1, <3>1, BoundsAssumption DEF ClientInv, BeginsInOrder, StaleId, TypeOK, Ids
    <2> QED
      BY <2>1 DEF ClientInv, ClosersRefused, NeverKilled
  <1> QED
    BY <1>1, ConnectionInv, PipeTypeCorrect, ClientInvariant, PTL

-----------------------------------------------------------------------------
(* What the client reads.                                                  *)

\* Nothing in the system is killed: NeverKilled without the packets.
LEMMA SystemRefusals == SystemSpec => []OnlyRefusals
  <1>1. ClientInv => OnlyRefusals
    BY DEF ClientInv, ClosersRefused, OnlyRefusals
  <1> QED
    BY <1>1, ClientInvariant, PTL

\* Every call of a client that keeps to packet.proto is answered exactly once, seen
\* from behind the pipe: whatever the delay of its packets, and however slowly it
\* reads, its call has one Close, delivered or on its way, once it is over.
THEOREM SystemAnswered == SystemSpec => []AnsweredOnce
  BY SystemRefines, SystemRefusals, AnsweredUnlessKilled, PTL

LEMMA SystemAnswerInv == SystemSpec => []AnswerInv
  BY SystemRefines, SystemRefusals, AnswerInvariant, PTL

ReplyTypeOK == replies \in Seq(Frame) /\ got \in [Ids -> Seq(P!Bodies)]

LEMMA ReplyTypeStep ==
    ASSUME TypeOK, PipeTypeOK, ReplyTypeOK, [SystemNext]_systemVars
    PROVE  ReplyTypeOK'
  <1>1. CASE ClientRead
    <2>1. Head(replies) \in Frame /\ Head(replies).id \in Ids
      BY <1>1, FirstFrame DEF ClientRead, ReplyTypeOK
    <2>2. Head(replies).body \in P!Bodies
      BY <2>1 DEF Frame
    <2>3. Tail(replies) \in Seq(Frame)
      BY <1>1 DEF ClientRead, ReplyTypeOK
    <2>4. \A r \in Ids : Append(got[r], Head(replies).body) \in Seq(P!Bodies)
      BY <2>2 DEF ReplyTypeOK
    <2> QED
      BY <1>1, <2>1, <2>3, <2>4 DEF ClientRead, ReplyTypeOK
  <1>2. CASE Client /\ ~ClientRead
    BY <1>2, ClientStepEffect DEF ReplyTypeOK
  <1>3. CASE OutboundAccepts
    <2>1. Head(held) \in Frame
      BY <1>3, FirstFrame, PipelineType DEF OutboundAccepts, WriterSend
    <2> QED
      BY <1>3, <2>1 DEF OutboundAccepts, ReplyTypeOK
  <1>4. CASE LoopPacket \/ Inside \/ UNCHANGED systemVars
    BY <1>4 DEF LoopPacket, Inside, systemVars, pipeVars, ReplyTypeOK
  <1> QED
    BY <1>1, <1>2, <1>3, <1>4 DEF SystemNext

LEMMA ReplyTypeCorrect == SystemSpec => []ReplyTypeOK
  <1>1. SystemInit => ReplyTypeOK
    BY DEF SystemInit, C!Init, ReplyTypeOK
  <1>2. TypeOK /\ PipeTypeOK /\ ReplyTypeOK /\ [SystemNext]_systemVars => ReplyTypeOK'
    BY ReplyTypeStep
  <1> QED
    BY <1>1, <1>2, ConnectionInv, PipeTypeCorrect, PTL DEF SystemSpec

\* A call gets its task, or its refusal, from a Begin the client wrote.
LEMMA BegunStep ==
    ASSUME TypeOK, SessionInv, PipeTypeOK, ClientInv, BegunByClient, [SystemNext]_systemVars
    PROVE  BegunByClient'
  <1>1. ASSUME Calm, UNCHANGED sent PROVE BegunByClient'
    BY <1>1 DEF Calm, BegunByClient
  <1>2. CASE Client
    <2>1. \A r \in Ids : sent[r] # "unused" => sent'[r] # "unused"
      BY <1>2, ClientStepEffect
      DEF PipeTypeOK, C!ClientStates, C!BeginAs, C!Finish, C!Abort
    <2>2. UNCHANGED <<task, closer>>
      BY <1>2, ClientStepEffect DEF vars, taskVars
    <2> QED
      BY <2>1, <2>2 DEF BegunByClient
  <1>3. CASE LoopPacket
    <2> DEFINE p == Head(requests)
    <2>1. p = requests[1] /\ 1 \in DOMAIN requests /\ p \in Packets /\ Handled(p) /\ sent' = sent
      BY <1>3 DEF LoopPacket, PipeTypeOK
    <2>2. p.id \in Ids
      BY <2>1 DEF Packets
    <2>3. p.frame = "begin" => sent[p.id] # "unused"
      BY <2>1 DEF ClientInv, BeginsInOrder
    <2> HIDE DEF p
    <2>4. CASE p.frame = "begin" /\ (BeginRefused(p.id, p.path, p.single) \/ BeginAccepted(p.id, p.path, p.single))
      BY <2>1, <2>2, <2>3, <2>4 DEF BeginRefused, RefusedId, BeginAccepted, BegunByClient, TypeOK, taskVars
    <2>5. ASSUME p.frame = "message", Kill(p.id)
          PROVE  FALSE
      BY <2>1, <2>2, <2>5 DEF Kill, ClientInv, NothingAfterEnd, IsMessage
    <2>6. CASE BeginViolation(p.id) \/ Message(p.id) \/ DoneSending(p.id) \/ Cancel(p.id) \/ Discarded(p.id)
      <3>1. UNCHANGED <<task, closer>>
        BY <2>6
        DEF BeginViolation, Stop, Message, DoneSending, Cancel, Discarded, vars, taskVars
      <3> QED
        BY <2>1, <3>1 DEF BegunByClient
    <2> QED
      BY <2>1, <2>4, <2>5, <2>6 DEF Handled
  <1>4. CASE Inside \/ OutboundAccepts \/ UNCHANGED systemVars
    BY <1>1, <1>4, InsideCalm DEF Inside, OutboundAccepts, systemVars, pipeVars
  <1> QED
    BY <1>2, <1>3, <1>4 DEF SystemNext

\* The client reads the frame that has waited longest.
LEMMA ReadStep ==
    ASSUME TypeOK, ReplyTypeOK, Delivered, InOrder(got, replies), ClientRead
    PROVE  Delivered' /\ InOrder(got, replies)'
  <1> DEFINE f == Head(replies)
  <1>1. /\ replies # <<>> /\ replies' = Tail(replies) /\ wire' = wire
        /\ got' = [got EXCEPT ![f.id] = Append(@, f.body)]
    BY DEF ClientRead, vars, writerVars
  <1>2. replies \in Seq(Frame) /\ got \in [Ids -> Seq(P!Bodies)]
    BY DEF ReplyTypeOK
  <1>3. f.id \in Ids /\ f = replies[1] /\ 1 \in DOMAIN replies
    BY <1>1, <1>2, FirstFrame
  <1>4. InOrder(got, replies)'
    BY <1>1, <1>2, InOrderForward
  <1>5. \A i \in DOMAIN replies' : i + 1 \in DOMAIN replies /\ replies'[i] = replies[i + 1]
    BY <1>1, <1>2
  <1> HIDE DEF f
  <1>6. \A r \in Ids : \A i \in DOMAIN got'[r] :
           (i \in DOMAIN got[r] /\ got'[r][i] = got[r][i]) \/ (r = f.id /\ got'[r][i] = f.body)
    BY <1>1, <1>2, <1>3
  <1>7. Delivered'
    BY <1>1, <1>3, <1>5, <1>6 DEF Delivered
  <1> QED
    BY <1>4, <1>7

\* `outbound` takes the frame that has waited longest, and that may follow all the
\* client has not read yet.
LEMMA AcceptStep ==
    ASSUME TypeOK, AnswerInv, ~HandlersDropSends, ReplyTypeOK, Delivered, InOrder(got, replies),
           OutboundAccepts
    PROVE  Delivered' /\ InOrder(got, replies)'
  <1> DEFINE f == Head(held)
  <1>1. /\ f \in Frame /\ f.id \in Ids
        /\ wire' = [wire EXCEPT ![f.id] = Append(@, f.body)]
        /\ P!MayEmit(wire[f.id], f.body)
    BY MayEmitNext DEF OutboundAccepts
  <1>2. replies' = Append(replies, f) /\ got' = got
    BY DEF OutboundAccepts
  <1> HIDE DEF f
  <1>3. replies \in Seq(Frame) /\ got \in [Ids -> Seq(P!Bodies)] /\ wire \in [Ids -> Seq(P!Bodies)]
    BY PipelineType DEF ReplyTypeOK
  <1>4. ~ClosedIn(got, replies, f.id)
    BY <1>1 DEF ClosedIn, IsClose, Delivered, P!MayEmit, P!IsClosed
  <1>5. f.body = "headers" => ~SpokenIn(got, replies, f.id)
    <2> SUFFICES ASSUME f.body = "headers", SpokenIn(got, replies, f.id)
                 PROVE  FALSE
      OBVIOUS
    <2>1. wire[f.id] = <<>>
      BY <1>1 DEF P!MayEmit
    <2>2. DOMAIN wire[f.id] = {}
      BY <2>1
    <2>3. got[f.id] # <<>> => 1 \in DOMAIN got[f.id]
      BY <1>1, <1>3
    <2> QED
      BY <1>1, <2>2, <2>3 DEF SpokenIn, Delivered
  <1>6. InOrder(got, replies)'
    BY <1>1, <1>2, <1>3, <1>4, <1>5, InOrderAppend
  <1>7. \A r \in Ids : \A k \in DOMAIN wire[r] : k \in DOMAIN wire'[r] /\ wire'[r][k] = wire[r][k]
    BY <1>1, <1>3
  <1>8. \E k \in DOMAIN wire'[f.id] : wire'[f.id][k] = f.body
    <2>1. wire'[f.id] = Append(wire[f.id], f.body) /\ wire[f.id] \in Seq(P!Bodies)
      BY <1>1, <1>3
    <2> QED
      BY <2>1
  <1>9. \A i \in DOMAIN replies' :
           (i \in DOMAIN replies /\ replies'[i] = replies[i]) \/ replies'[i] = f
    BY <1>2, <1>3
  <1>10. ASSUME NEW r \in Ids, NEW i \in DOMAIN got'[r]
         PROVE  \E k \in DOMAIN wire'[r] : wire'[r][k] = got'[r][i]
    BY <1>2, <1>7, <1>10 DEF Delivered
  <1>11. ASSUME NEW r \in Ids, NEW i \in DOMAIN replies', replies'[i].id = r
         PROVE  \E k \in DOMAIN wire'[r] : wire'[r][k] = replies'[i].body
    BY <1>7, <1>8, <1>9, <1>11 DEF Delivered
  <1> QED
    BY <1>6, <1>10, <1>11 DEF Delivered

\* Nothing else touches the wire, or what comes out of it.
LEMMA UnreadStep ==
    ASSUME TypeOK, PipeTypeOK, [SystemNext]_systemVars, ~ClientRead, ~OutboundAccepts
    PROVE  UNCHANGED <<wire, replies, got>>
  <1>1. CASE Client
    BY <1>1, ClientStepEffect DEF vars, writerVars
  <1>2. CASE LoopPacket
    <2>1. UNCHANGED wire
      BY <1>2
      DEF LoopPacket, Handled, BeginViolation, Stop, BeginRefused, RefusedId, BeginAccepted, Message, Kill,
          Discarded, DoneSending, Cancel, vars, writerVars
    <2> QED
      BY <1>2, <2>1 DEF LoopPacket
  <1>3. CASE Inside
    <2>1. ASSUME NEW r \in Ids, TaskStep(r) \/ CloserStep(r)
          PROVE  UNCHANGED wire
      BY <2>1
      DEF TaskStep, HandlerStep, HandlerRecv, HandlerEof, HandlerDropRx, HandlerSend,
          HandlerSendDone, HandlerDropSend, HandlerReturn, HandlerPanic, SendClose, ReportDone,
          TaskEnd, TaskAborted, CloserStep, CloserSend, CloserEnd, writerVars
    <2> QED
      BY <1>3, <2>1
      DEF Inside, pipeVars, LoopDone, InboundClosed, WriterGone, Stop, WriterTake, WriterFail,
          WriterFinish, writerVars
  <1>4. CASE UNCHANGED systemVars
    BY <1>4 DEF systemVars, pipeVars, vars, writerVars
  <1> QED
    BY <1>1, <1>2, <1>3, <1>4 DEF SystemNext

LEMMA ReplyInvariant == ~HandlersDropSends => (SystemSpec => []ReplyInv)
  <1> SUFFICES ASSUME ~HandlersDropSends
               PROVE  SystemSpec => []ReplyInv
    OBVIOUS
  <1>1. SystemInit => ReplyInv
    BY DEF SystemInit, Init, C!Init, ReplyInv, BegunByClient, Delivered, InOrder
  <1>2. /\ TypeOK /\ SessionInv /\ PipeTypeOK /\ ReplyTypeOK /\ ClientInv /\ AnswerInv /\ ReplyInv
        /\ [SystemNext]_systemVars
        => ReplyInv'
    <2> SUFFICES ASSUME TypeOK, SessionInv, PipeTypeOK, ReplyTypeOK, ClientInv, AnswerInv, ReplyInv,
                        [SystemNext]_systemVars
                 PROVE  ReplyInv'
      OBVIOUS
    <2>1. BegunByClient'
      BY BegunStep DEF ReplyInv
    <2>2. CASE ClientRead
      BY <2>1, <2>2, ReadStep DEF ReplyInv
    <2>3. CASE OutboundAccepts
      BY <2>1, <2>3, AcceptStep DEF ReplyInv
    <2>4. CASE UNCHANGED <<wire, replies, got>>
      BY <2>1, <2>4 DEF ReplyInv, Delivered, InOrder
    <2> QED
      BY <2>2, <2>3, <2>4, UnreadStep
  <1> QED
    BY <1>1, <1>2, ConnectionInv, PipeTypeCorrect, ReplyTypeCorrect, ClientInvariant, SystemAnswerInv,
       PTL DEF SystemSpec

\* What the client reads next is what packet.proto lets the server say next.
LEMMA ReadProtocol ==
    ASSUME TypeOK, ReplyTypeOK, AnswerInv, ReplyInv, ~HandlersDropSends, ClientRead
    PROVE  C!Next
  <1> DEFINE f == Head(replies)
  <1>1. /\ replies # <<>> /\ sent' = sent
        /\ got' = [got EXCEPT ![f.id] = Append(@, f.body)]
    BY DEF ClientRead
  <1>2. f \in Frame /\ f.id \in Ids /\ f = replies[1] /\ 1 \in DOMAIN replies
    BY <1>1, FirstFrame DEF ReplyTypeOK
  <1>3. f.body \in C!Bodies
    BY <1>2 DEF Frame, P!Bodies, C!Bodies
  <1> HIDE DEF f
  <1>4. sent[f.id] # "unused"
    <2>1. PICK k \in DOMAIN wire[f.id] : wire[f.id][k] = f.body
      BY <1>2 DEF ReplyInv, Delivered
    <2>2. Spoken(f.id)
      BY <2>1 DEF Spoken
    <2> QED
      BY <1>2, <2>2 DEF AnswerInv, FramesOwned, ReplyInv, BegunByClient
  <1>5. \A i \in DOMAIN got[f.id] : MayFollow(got[f.id][i], f.body)
    BY <1>2 DEF ReplyInv, InOrder
  <1>6. ~C!IsClosed(got[f.id])
    BY <1>5 DEF C!IsClosed, MayFollow
  <1>7. f.body = "headers" => got[f.id] = <<>>
    <2>1. got[f.id] # <<>> => 1 \in DOMAIN got[f.id]
      BY <1>2 DEF ReplyTypeOK
    <2> QED
      BY <1>5, <2>1 DEF MayFollow
  <1>8. C!Emit(f.id, f.body)
    BY <1>1, <1>4, <1>6, <1>7 DEF C!Emit, C!MayEmit
  <1> QED
    BY <1>2, <1>3, <1>8 DEF C!Next

\* What the client writes is what packet.proto lets it send next.
LEMMA WriteProtocol ==
    ASSUME PipeTypeOK, Client, ~ClientRead
    PROVE  [C!Next]_<<sent, got>>
  <1>1. PICK packet \in Packets :
           /\ UNCHANGED got
           /\ \/ C!MayBegin(packet.id) /\ packet.frame = "begin" /\ C!BeginAs(packet.id, packet.single)
              \/ C!MaySend(packet.id) /\ packet.frame = "message" /\ UNCHANGED sent
              \/ C!MaySend(packet.id) /\ packet.frame = "done_sending" /\ C!Finish(packet.id)
              \/ C!MayCancel(packet.id) /\ packet.frame = "cancel" /\ C!Abort(packet.id)
    BY ClientStepEffect
  <1>2. packet.id \in Ids /\ (packet.frame = "begin" => packet.single \in BOOLEAN)
    BY DEF Packets
  <1>3. C!ClientStep(packet.id) \/ UNCHANGED <<sent, got>>
    BY <1>1, <1>2 DEF C!ClientStep
  <1> QED
    BY <1>2, <1>3 DEF C!Next

\* What a client that keeps to packet.proto reads is what packet.proto lets it see
\* for what it has sent, through pipes of any size and for any service: Headers
\* first, at most one Close, nothing after it, no call it did not begin.
THEOREM ClientReadsProtocol ==
    ~HandlersDropSends => (SystemSpec => ClientSeesProtocol)
  <1> SUFFICES ASSUME ~HandlersDropSends
               PROVE  SystemSpec => ClientSeesProtocol
    OBVIOUS
  <1>1. SystemInit => C!Init
    BY DEF SystemInit
  <1>2. /\ TypeOK /\ PipeTypeOK /\ ReplyTypeOK /\ AnswerInv /\ ReplyInv /\ [SystemNext]_systemVars
        => [C!Next]_<<sent, got>>
    <2> SUFFICES ASSUME TypeOK, PipeTypeOK, ReplyTypeOK, AnswerInv, ReplyInv, [SystemNext]_systemVars
                 PROVE  [C!Next]_<<sent, got>>
      OBVIOUS
    <2>1. CASE ClientRead
      BY <2>1, ReadProtocol
    <2>2. CASE Client /\ ~ClientRead
      BY <2>2, WriteProtocol
    <2>3. CASE LoopPacket \/ OutboundAccepts \/ Inside \/ UNCHANGED systemVars
      BY <2>3 DEF LoopPacket, OutboundAccepts, Inside, systemVars, pipeVars
    <2> QED
      BY <2>1, <2>2, <2>3 DEF SystemNext
  <1> QED
    BY <1>1, <1>2, ConnectionInv, PipeTypeCorrect, ReplyTypeCorrect, ReplyInvariant, SystemAnswerInv,
       PTL DEF SystemSpec, ClientSeesProtocol, C!Spec
=============================================================================
