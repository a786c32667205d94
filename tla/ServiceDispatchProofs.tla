----------------------- MODULE ServiceDispatchProofs -----------------------
(***************************************************************************)
(* What ServiceDispatch promises, for all services, registrations, method  *)
(* names, codes and callers.  The inductive invariant says where the call  *)
(* came from and what its method was chosen by; the properties follow from *)
(* it and from method names being unique in a service.                     *)
(***************************************************************************)
EXTENDS ServiceDispatch, TLAPS

\* A server is one that was generated and registered, and the router's are the last of their name.
RouterInv ==
    /\ registered \in Seq(Servers)
    /\ \A n \in DOMAIN router :
          \E i \in DOMAIN registered :
             /\ registered[i] = router[n]
             /\ ServiceName(registered[i].service) = n
             /\ \A j \in DOMAIN registered : j > i => ServiceName(registered[j].service) # n

Asks(m) == IF m.client_streaming THEN "streaming" ELSE "single"

\* A call of the pipe was made after the router was shared, by the descriptor of
\* one method of the server it is for.
CallInv ==
    /\ stage \in {"spawned", "running"} => call.from \in {"pipe", "other"}
    /\ stage = "none" => call = NoCall
    /\ call.from \in {"pipe", "other"} => call.server \in Servers
    /\ call.from = "pipe" =>
          /\ shared
          /\ LastRegistrationServes
          /\ \E m \in Methods(call.server.service) :
                <<m.proto_name>> = call.key /\ call.payload = Asks(m) /\ call.sink = m.server_streaming

\* The method that runs is the trait's for the call.
RunsTraitMethod ==
    method # NoMethod =>
        \E m \in Methods(call.server.service) :
            <<m.proto_name>> = call.key /\ method = TraitMethod(m)

\* handle called the method its call names, with what that method streams.
MethodInv ==
    /\ stage = "running" => method # NoMethod
    /\ stage \in {"none", "spawned"} => method = NoMethod /\ frames = <<>>
    /\ RunsTraitMethod
    /\ frames # <<>> => method # NoMethod /\ method.response # {}

Misplaced == {"method_not_found", "unexpected_request_payload", "missing_response_channel"}

\* A Close comes at the end, with a message that says which way out it took.
CloseInv ==
    /\ stage # "closed" => close = NoClose
    /\ call.from = "pipe" /\ close # NoClose => close.message \notin Misplaced
    /\ CloseFits
    /\ FailureReported
    /\ stage \in {"none", "spawned"} => error = {}
    /\ \A i, j \in error : i = j

IInv == RouterInv /\ CallInv /\ MethodInv /\ CloseInv

USE DEF Running, Meets

-----------------------------------------------------------------------------
(* Codes and arms.                                                         *)

LEMMA CodeNumbers ==
    /\ Code.Ok = 0 /\ Status.ok = 0 /\ FromSendError # 0
    /\ Status.invalid_argument # 0 /\ Status.unimplemented # 0 /\ Status.internal # 0
    /\ FromSendHeadersError.Closed # 0 /\ FromSendHeadersError.AlreadyOpened # 0
    /\ Code.Unknown = 2
BY DEF Code, Status, FromSendError, FromSendHeadersError

\* Code::from keeps what it knows and makes an OK of OK only.
LEMMA CodeFromKeeps ==
    \A i : /\ i \in Codes => CodeFrom(i) = i
           /\ CodeFrom(i) = Code.Ok <=> i = Code.Ok
<1>1. Code.Ok \in Codes
  BY DEF Code, Codes
<1> QED
  BY <1>1, CodeNumbers DEF CodeFrom

\* The arm that serves a call is the arm of the one method it names.
LEMMA OneArm ==
    ASSUME call.server \in Servers, NEW m \in Methods(call.server.service),
           <<m.proto_name>> = call.key
    PROVE  Arm = {HandleArm(m)}
<1>1. \A n \in Methods(call.server.service) : <<n.proto_name>> = call.key => n = m
  BY DispatchAssumption DEF Servers
<1>2. \A n : HandleArm(n).key = <<n.proto_name>>
  BY DEF HandleArm
<1> QED
  BY <1>1, <1>2 DEF Arm, Arms

-----------------------------------------------------------------------------
(* One lemma for each part of the invariant.                               *)

LEMMA RouterStep == RouterInv /\ [Next]_vars => RouterInv'
<1> SUFFICES ASSUME RouterInv, [Next]_vars
             PROVE  RouterInv'
  OBVIOUS
<1>1. ASSUME NEW server \in Servers, Register(server) PROVE RouterInv'
  <2> DEFINE name == ServiceName(server.service)
  <2>1. /\ registered \in Seq(Servers)
        /\ registered' = Append(registered, server)
        /\ router' = [n \in DOMAIN router \cup {name} |-> IF n = name THEN server ELSE router[n]]
    BY <1>1 DEF RouterInv, Register, Entry
  <2>2. /\ registered' \in Seq(Servers)
        /\ DOMAIN registered' = 1..Len(registered) + 1
        /\ DOMAIN registered = 1..Len(registered)
        /\ Len(registered) \in Nat
        /\ registered'[Len(registered) + 1] = server
        /\ \A i \in DOMAIN registered : registered'[i] = registered[i]
    BY <2>1
  <2> HIDE DEF name
  <2>3. ASSUME NEW n \in DOMAIN router'
        PROVE  \E i \in DOMAIN registered' :
                  /\ registered'[i] = router'[n]
                  /\ ServiceName(registered'[i].service) = n
                  /\ \A j \in DOMAIN registered' : j > i => ServiceName(registered'[j].service) # n
    <3>1. CASE n = name
      <4>1. router'[n] = server /\ ServiceName(server.service) = n
        BY <2>1, <3>1 DEF name
      <4>2. Len(registered) + 1 \in DOMAIN registered'
        BY <2>2
      <4>3. \A j \in DOMAIN registered' : ~(j > Len(registered) + 1)
        BY <2>2
      <4> QED
        BY <2>2, <4>1, <4>2, <4>3
    <3>2. CASE n # name
      <4>1. n \in DOMAIN router /\ router'[n] = router[n]
        BY <2>1, <2>3, <3>2
      <4>2. PICK i \in DOMAIN registered :
               /\ registered[i] = router[n]
               /\ ServiceName(registered[i].service) = n
               /\ \A j \in DOMAIN registered : j > i => ServiceName(registered[j].service) # n
        BY <4>1 DEF RouterInv
      <4>3. i \in DOMAIN registered' /\ registered'[i] = router'[n]
        BY <2>2, <4>1, <4>2
      <4>4. ASSUME NEW j \in DOMAIN registered', j > i
            PROVE  ServiceName(registered'[j].service) # n
        <5>1. CASE j \in DOMAIN registered
          BY <2>2, <4>2, <4>4, <5>1
        <5>2. CASE j = Len(registered) + 1
          BY <2>2, <3>2, <5>2 DEF name
        <5> QED
          BY <2>2, <5>1, <5>2
      <4> QED
        BY <2>2, <4>2, <4>3, <4>4
    <3> QED
      BY <3>1, <3>2
  <2> QED
    BY <2>2, <2>3 DEF RouterInv
<1>2. CASE UNCHANGED <<registered, router>>
  BY <1>2 DEF RouterInv
<1> QED
  BY <1>1, <1>2 DEF Next, vars, routing, Share, Begin, BeginRefused, OtherCall, Spawned, HandleFails,
     Handle, Method, ItemFails, Foreign, Sends, SinkCloses, SendFrame, SendMessageFails,
     SendHeadersFails, ReturnOk, ReturnErr

LEMMA CallStep == RouterInv /\ CallInv /\ [Next]_vars => CallInv'
<1> SUFFICES ASSUME RouterInv, CallInv, [Next]_vars
             PROVE  CallInv'
  OBVIOUS
<1>1. ASSUME NEW server \in Servers, Register(server) PROVE CallInv'
  BY <1>1 DEF CallInv, Register, LastRegistrationServes
<1>2. CASE Share
  BY <1>2 DEF CallInv, Share, LastRegistrationServes
<1>3. ASSUME NEW name \in MethodNames, NEW single \in BOOLEAN, Begin(name, single)
      PROVE  CallInv'
  <2>1. PICK server \in Resolve(ServicePart(name)) :
           \E d \in DescribeMethod(server, MethodPart(name)) :
              Spawned("pipe", server, MethodPart(name),
                      IF d.client_streaming THEN "streaming" ELSE "single", d.server_streaming)
    BY <1>3 DEF Begin
  <2>2. PICK m \in Methods(server.service) :
           /\ <<m.proto_name>> = MethodPart(name)
           /\ Spawned("pipe", server, MethodPart(name), Asks(m), m.server_streaming)
    BY <2>1 DEF DescribeMethod, Descriptors, DescribeArm, Asks
  <2>3. ServicePart(name) \in DOMAIN router /\ server = router[ServicePart(name)]
    BY <2>1 DEF Resolve
  <2>4. PICK i \in DOMAIN registered :
           /\ registered[i] = server
           /\ \A j \in DOMAIN registered :
                 j > i => ServiceName(registered[j].service) # ServiceName(server.service)
    BY <2>3 DEF RouterInv
  <2>5. server \in Servers
    BY <2>4 DEF RouterInv
  <2>6. /\ call' = [from |-> "pipe", server |-> server, key |-> MethodPart(name),
                    payload |-> Asks(m), sink |-> m.server_streaming]
        /\ stage' = "spawned" /\ shared' /\ registered' = registered
    BY <1>3, <2>2 DEF Begin, Spawned, routing
  <2>7. LastRegistrationServes'
    BY <2>4, <2>6 DEF LastRegistrationServes
  <2> QED
    BY <2>2, <2>5, <2>6, <2>7 DEF CallInv
<1>4. ASSUME NEW server \in Servers, NEW key, NEW payload, NEW sink,
             OtherCall(server, key, payload, sink)
      PROVE  CallInv'
  BY <1>4 DEF CallInv, OtherCall, Spawned, LastRegistrationServes
<1>5. ASSUME UNCHANGED <<shared, registered, call>>,
             stage' = stage \/ stage' = "closed" \/ (stage = "spawned" /\ stage' = "running")
      PROVE  CallInv'
  BY <1>5 DEF CallInv, LastRegistrationServes
<1> QED
  BY <1>1, <1>2, <1>3, <1>4, <1>5 DEF Next, vars, routing, BeginRefused, Refused, CloseWith, EndError,
     EndSingle, EndStreaming, HandleFails, Handle, Method, ItemFails, Foreign, Sends, SinkCloses,
     SendFrame, SendMessageFails, SendHeadersFails, ReturnOk, ReturnErr

LEMMA MethodStep == MethodInv /\ CallInv /\ [Next]_vars => MethodInv'
<1> SUFFICES ASSUME MethodInv, CallInv, [Next]_vars
             PROVE  MethodInv'
  OBVIOUS
<1>1. CASE Handle
  <2>1. PICK m \in Methods(call.server.service) :
           HandleArm(m).key = call.key /\ method' = TraitMethod(m)
    BY <1>1 DEF Handle
  <2>2. <<m.proto_name>> = call.key
    BY <2>1 DEF HandleArm
  <2>3. method' # NoMethod
    BY <2>1 DEF TraitMethod, NoMethod
  <2>4. UNCHANGED <<call, frames>> /\ stage' = "running" /\ frames = <<>>
    BY <1>1 DEF Handle, routing, MethodInv
  <2> QED
    BY <2>1, <2>2, <2>3, <2>4 DEF MethodInv, RunsTraitMethod
<1>2. ASSUME NEW body \in {"headers", "message"}, SendFrame(body) PROVE MethodInv'
  BY <1>2 DEF MethodInv, RunsTraitMethod, SendFrame, Sends, routing
<1>3. ASSUME NEW from, NEW server, NEW key, NEW payload, NEW sink,
             Spawned(from, server, key, payload, sink)
      PROVE  MethodInv'
  BY <1>3 DEF MethodInv, RunsTraitMethod, Spawned
<1>4. ASSUME UNCHANGED <<call, method, frames>>, stage' = stage \/ stage' = "closed"
      PROVE  MethodInv'
  BY <1>4 DEF MethodInv, RunsTraitMethod
<1>5. ASSUME NEW name, NEW single, Begin(name, single) PROVE MethodInv'
  BY <1>3, <1>5 DEF Begin
<1>6. ASSUME NEW server, NEW key, NEW payload, NEW sink, OtherCall(server, key, payload, sink)
      PROVE  MethodInv'
  BY <1>3, <1>6 DEF OtherCall
<1>7. ASSUME \/ \E server \in Servers : Register(server)
             \/ Share
             \/ \E name \in MethodNames, single \in BOOLEAN : BeginRefused(name, single)
             \/ \E decodes \in BOOLEAN : HandleFails(decodes)
             \/ UNCHANGED vars
      PROVE  MethodInv'
  BY <1>4, <1>7 DEF vars, Register, Share, BeginRefused, Refused, CloseWith, EndError, HandleFails
<1>8. ASSUME Method, ~\E body \in {"headers", "message"} : SendFrame(body)
      PROVE  MethodInv'
  BY <1>4, <1>8 DEF Method, CloseWith, EndError, EndSingle, EndStreaming, ItemFails, Foreign, Sends,
     SinkCloses, SendMessageFails, SendHeadersFails, ReturnOk, ReturnErr
<1> QED
  BY <1>1, <1>2, <1>5, <1>6, <1>7, <1>8 DEF Next

\* The arm of a call of the pipe takes the payload and the sink it comes with.
LEMMA PipeCallFits ==
    ASSUME CallInv, call.from = "pipe"
    PROVE  \E arm \in Arm : /\ Arm = {arm}
                            /\ call.payload = arm.decode
                            /\ call.sink = arm.respond.sink
                            /\ call.sink \in BOOLEAN
<1>1. PICK m \in Methods(call.server.service) :
         /\ <<m.proto_name>> = call.key
         /\ call.payload = Asks(m) /\ call.sink = m.server_streaming
  BY DEF CallInv
<1>2. call.server \in Servers
  BY DEF CallInv
<1>3. m.client_streaming \in BOOLEAN /\ m.server_streaming \in BOOLEAN
  BY <1>2, DispatchAssumption DEF Servers
<1>4. HandleArm(m).decode = Asks(m)
  BY <1>3 DEF HandleArm, DecodeOneRequest, DecodeStreamRequest, Asks
<1>5. HandleArm(m).respond.sink = m.server_streaming
  <2>1. CASE m.server_streaming = TRUE
    BY <2>1 DEF HandleArm, StreamResponse
  <2>2. CASE m.server_streaming = FALSE
    BY <2>2 DEF HandleArm, SendUnaryResponse
  <2> QED
    BY <1>3, <2>1, <2>2
<1> QED
  BY <1>1, <1>2, <1>3, <1>4, <1>5, OneArm

LEMMA CloseStep == CallInv /\ MethodInv /\ CloseInv /\ [Next]_vars => CloseInv'
<1> SUFFICES ASSUME CallInv, MethodInv, CloseInv, [Next]_vars
             PROVE  CloseInv'
  OBVIOUS
<1>1. ASSUME NEW status, NEW message, EndError(status, message), status # 0,
             call'.from = "pipe" => message \notin Misplaced,
             error' = {}, method' = NoMethod
      PROVE  CloseInv'
  <2>1. /\ stage' = "closed" /\ close'.status = status /\ close'.message = message
        /\ close'.single_response = FALSE /\ close'.single_headers = FALSE
    BY <1>1 DEF EndError, CloseWith
  <2> QED
    BY <1>1, <2>1, CodeNumbers DEF CloseInv, CloseFits, FailureReported
<1>2. ASSUME NEW name \in MethodNames, NEW single \in BOOLEAN, BeginRefused(name, single)
      PROVE  CloseInv'
  <2>1. call' = NoCall /\ error' = {} /\ method' = NoMethod
    BY <1>2 DEF BeginRefused, CallInv, MethodInv, CloseInv
  <2>2. call'.from # "pipe"
    BY <2>1 DEF NoCall
  <2> QED
    BY <1>1, <1>2, <2>1, <2>2, CodeNumbers DEF BeginRefused, Refused
<1>3. ASSUME NEW decodes \in BOOLEAN, HandleFails(decodes)
      PROVE  CloseInv'
  <2>1. error' = {} /\ call' = call /\ method' = NoMethod
    BY <1>3 DEF HandleFails, MethodInv, CloseInv
  <2>2. CASE EndError(Status.internal, "failed_to_decode_request")
    BY <1>1, <2>1, <2>2, CodeNumbers DEF Misplaced
  <2>3. CASE ~EndError(Status.internal, "failed_to_decode_request")
    <3>1. call.from # "pipe"
      BY <1>3, <2>3, PipeCallFits DEF HandleFails
    <3>2. \E status, message : EndError(status, message) /\ status # 0
      BY <1>3, CodeNumbers DEF HandleFails
    <3> QED
      BY <1>1, <2>1, <3>1, <3>2
  <2> QED
    BY <2>2, <2>3
<1>4. CASE ReturnOk
  <2>1. stage = "running" /\ UNCHANGED <<call, method, frames>> /\ error' = {} /\ stage' = "closed"
    BY <1>4 DEF ReturnOk, EndSingle, EndStreaming, CloseWith
  <2>2. PICK m \in Methods(call.server.service) :
           <<m.proto_name>> = call.key /\ method = TraitMethod(m)
    BY <2>1 DEF MethodInv, RunsTraitMethod
  <2>3. Arm = {HandleArm(m)} /\ m.server_streaming \in BOOLEAN /\ method # NoMethod
    <3>1. call.server \in Servers /\ method # NoMethod
      BY <2>1 DEF CallInv, MethodInv
    <3> QED
      BY <2>2, <3>1, OneArm, DispatchAssumption DEF Servers
  <2>4. CASE m.server_streaming = FALSE
    <3>1. HandleArm(m).respond.end = "single" /\ method.response = {}
      BY <2>2, <2>4 DEF HandleArm, SendUnaryResponse, TraitMethod
    <3>2. close' = [status |-> 0, message |-> "empty", single_response |-> TRUE, single_headers |-> TRUE]
      BY <1>4, <2>3, <3>1, CodeNumbers DEF ReturnOk, EndSingle, CloseWith
    <3>3. frames = <<>>
      BY <3>1 DEF MethodInv
    <3> QED
      BY <2>1, <2>3, <3>1, <3>2, <3>3, CodeNumbers
      DEF CloseInv, CloseFits, FailureReported, Misplaced
  <2>5. CASE m.server_streaming = TRUE
    <3>1. HandleArm(m).respond.end = "streaming" /\ method.result = "MetadataMap"
      BY <2>2, <2>5 DEF HandleArm, StreamResponse, TraitMethod
    <3>2. close' = [status |-> 0, message |-> "empty", single_response |-> FALSE, single_headers |-> FALSE]
      BY <1>4, <2>3, <3>1, CodeNumbers DEF ReturnOk, EndStreaming, CloseWith
    <3> QED
      BY <2>1, <2>3, <3>1, <3>2, CodeNumbers DEF CloseInv, CloseFits, FailureReported, Misplaced
  <2> QED
    BY <2>3, <2>4, <2>5
<1>5. CASE ReturnErr
  <2>1. PICK i \in error : EndError(CodeFrom(i), "method")
    BY <1>5 DEF ReturnErr
  <2>2. close' = [status |-> CodeFrom(i), message |-> "method",
                  single_response |-> FALSE, single_headers |-> FALSE]
    BY <2>1 DEF EndError, CloseWith
  <2>3. /\ error' = error /\ stage = "running" /\ stage' = "closed" /\ error = {i}
        /\ method' = method /\ method # NoMethod
    BY <1>5, <2>1 DEF ReturnErr, EndError, CloseWith, CloseInv, MethodInv
  <2>4. FailureReported'
    BY <2>2, <2>3, CodeFromKeeps DEF FailureReported
  <2>5. CloseFits'
    BY <2>2, <2>3, CodeFromKeeps, CodeNumbers DEF CloseFits
  <2> QED
    BY <2>2, <2>3, <2>4, <2>5 DEF CloseInv, Misplaced
<1>6. ASSUME UNCHANGED <<call, method, frames, error, close, stage>>
      PROVE  CloseInv'
  BY <1>6 DEF CloseInv, CloseFits, FailureReported
<1>7. ASSUME stage # "closed", stage' # "closed", close' = close,
             stage' \in {"none", "spawned"} => error' = {},
             \A i, j \in error' : i = j
      PROVE  CloseInv'
  BY <1>7 DEF CloseInv, CloseFits, FailureReported
<1>8. ASSUME \/ \E server \in Servers : Register(server)
             \/ Share
             \/ UNCHANGED vars
      PROVE  CloseInv'
  BY <1>6, <1>8 DEF Register, Share, vars
<1>9. ASSUME NEW from, NEW server, NEW key, NEW payload, NEW sink,
             Spawned(from, server, key, payload, sink)
      PROVE  CloseInv'
  BY <1>7, <1>9 DEF Spawned, CloseInv
<1>10. CASE Handle
  BY <1>7, <1>10 DEF Handle, CloseInv
<1>11. ASSUME NEW i, Running, Meets(i) PROVE CloseInv'
  BY <1>7, <1>11
<1>12. ASSUME ItemFails \/ SendMessageFails \/ SendHeadersFails \/ \E i \in ForeignCodes : Foreign(i)
       PROVE  \E i : Running /\ Meets(i)
  BY <1>12 DEF ItemFails, SendMessageFails, SendHeadersFails, Foreign, Sends
<1>13. ASSUME SinkCloses \/ \E body \in {"headers", "message"} : SendFrame(body)
       PROVE  CloseInv'
  BY <1>7, <1>13 DEF SinkCloses, SendFrame, Sends, CloseInv
<1>14. CASE Method
  BY <1>4, <1>5, <1>11, <1>12, <1>13, <1>14 DEF Method
<1>15. ASSUME \/ \E name \in MethodNames, single \in BOOLEAN : Begin(name, single)
              \/ \E server \in Servers, name \in {n \in MethodNames : Parses(n)},
                    payload \in {"single", "streaming"}, sink \in BOOLEAN :
                    OtherCall(server, MethodPart(name), payload, sink)
       PROVE  CloseInv'
  BY <1>9, <1>15 DEF Begin, OtherCall
<1> QED
  BY <1>2, <1>3, <1>8, <1>10, <1>14, <1>15 DEF Next

-----------------------------------------------------------------------------
(* The theorems.                                                           *)

LEMMA Invariant == Spec => []IInv
<1>1. Init => IInv
  BY DEF Init, IInv, RouterInv, CallInv, MethodInv, RunsTraitMethod, CloseInv, CloseFits,
     FailureReported, NoCall
<1>2. IInv /\ [Next]_vars => IInv'
  BY RouterStep, CallStep, MethodStep, CloseStep DEF IInv
<1> QED
  BY <1>1, <1>2, PTL DEF Spec

\* describe_method and handle agree for every service the generator accepts.
THEOREM DispatchAgreement == Spec => []DispatchAgrees
<1>1. IInv => DispatchAgrees
  BY PipeCallFits DEF IInv, CloseInv, DispatchAgrees, Misplaced
<1> QED
  BY <1>1, Invariant, PTL

\* Every Close has the shape its call may have, whoever made the call.
THEOREM CloseShape == Spec => []CloseFits
<1>1. IInv => CloseFits
  BY DEF IInv, CloseInv
<1> QED
  BY <1>1, Invariant, PTL

\* OK is said of no call but one whose method returned OK, for every method name,
\* every caller and every i32 a method may pass on, and no known code is changed.
THEOREM FailuresSurvive == Spec => []FailureReported
<1>1. IInv => FailureReported
  BY DEF IInv, CloseInv
<1> QED
  BY <1>1, Invariant, PTL

\* The last registration of a name serves it, after any number of registrations.
THEOREM LastOneServes == Spec => []LastRegistrationServes
<1>1. IInv => LastRegistrationServes
  BY DEF IInv, CallInv, LastRegistrationServes
<1> QED
  BY <1>1, Invariant, PTL

-----------------------------------------------------------------------------
(* Types.                                                                  *)

LEMMA CodeTypes ==
    /\ Codes \subseteq Int
    /\ \A name \in DOMAIN Status : Status[name] \in Codes
    /\ \A i : CodeFrom(i) \in Codes
    /\ FromSendError \in Int
    /\ FromSendHeadersError.Closed \in Int /\ FromSendHeadersError.AlreadyOpened \in Int
<1>1. \A name \in DOMAIN Code : Code[name] \in Int /\ Code[name] \in Codes
  BY DEF Code, Codes
<1>2. \A name \in DOMAIN Status : Status[name] \in Codes
  BY <1>1 DEF Status, Code
<1>3. \A i : CodeFrom(i) \in Codes
  BY <1>1 DEF CodeFrom, Code
<1> QED
  BY <1>1, <1>2, <1>3 DEF Codes, FromSendError, FromSendHeadersError, Status, Code

\* Every end of a call makes a Close.
LEMMA CloseType ==
    ASSUME NEW status \in Codes, NEW message \in Messages, NEW response \in BOOLEAN,
           NEW headers \in BOOLEAN, CloseWith(status, message, response, headers)
    PROVE  stage' = "closed" /\ close' \in Closes
BY DEF CloseWith, Closes

LEMMA RefusedType ==
    ASSUME NEW name, NEW single, Refused(name, single)
    PROVE  stage' = "closed" /\ close' \in Closes
<1>1. Status.invalid_argument \in Codes /\ Status.unimplemented \in Codes
  BY CodeTypes DEF Status
<1>2. \E status \in Codes, message \in Messages : EndError(status, message)
  BY <1>1 DEF Refused, Messages
<1> QED
  BY <1>2, CloseType DEF EndError

\* Every variable keeps its type: codes stay codes, whatever i32 a method passes on,
\* and a router entry is filed under the name of its service.
THEOREM DispatchTypes == Spec => []TypeOK
<1>1. ASSUME Init PROVE TypeOK
  <2>1. registered \in Seq(Servers) /\ frames \in Seq({"headers", "message"})
    BY <1>1 DEF Init
  <2>2. DOMAIN router = {}
    BY <1>1 DEF Init
  <2> QED
    BY <1>1, <2>1, <2>2 DEF Init, TypeOK
<1>2. ASSUME TypeOK, [Next]_vars PROVE TypeOK'
  <2>1. ASSUME NEW server \in Servers, Register(server) PROVE TypeOK'
    BY <1>2, <2>1 DEF Register, Entry, TypeOK
  <2>2. CASE Share
    BY <1>2, <2>2 DEF Share, TypeOK
  <2>3. ASSUME NEW name, NEW single, BeginRefused(name, single) PROVE TypeOK'
    BY <1>2, <2>3, RefusedType DEF BeginRefused, routing, TypeOK
  <2>4. ASSUME NEW from, NEW server, NEW key, NEW payload, NEW sink,
               Spawned(from, server, key, payload, sink)
        PROVE  TypeOK'
    BY <1>2, <2>4 DEF Spawned, routing, TypeOK
  <2>5. ASSUME NEW decodes, HandleFails(decodes) PROVE TypeOK'
    <3>1. Status.invalid_argument \in Codes /\ Status.unimplemented \in Codes /\ Status.internal \in Codes
      BY CodeTypes DEF Status
    <3>2. \E status \in Codes, message \in Messages : EndError(status, message)
      BY <2>5, <3>1 DEF HandleFails, Messages
    <3>3. stage' = "closed" /\ close' \in Closes
      BY <3>2, CloseType DEF EndError
    <3> QED
      BY <1>2, <2>5, <3>3 DEF HandleFails, routing, TypeOK
  <2>6. CASE Handle
    BY <1>2, <2>6 DEF Handle, routing, TypeOK
  <2>7. ASSUME NEW i \in Int, Running, Meets(i) PROVE TypeOK'
    BY <1>2, <2>7 DEF routing, TypeOK
  <2>8. ASSUME NEW body \in {"headers", "message"}, SendFrame(body) PROVE TypeOK'
    BY <1>2, <2>8 DEF SendFrame, Sends, routing, TypeOK
  <2>9. CASE SinkCloses
    BY <1>2, <2>9 DEF SinkCloses, Sends, routing, TypeOK
  <2>10. CASE ReturnOk \/ ReturnErr
    <3>1. stage' = "closed" /\ close' \in Closes
      <4>1. Status.ok \in Codes
        BY CodeTypes DEF Status
      <4>2. CASE ReturnOk
        BY <4>1, <4>2, CloseType DEF ReturnOk, EndSingle, EndStreaming, Messages
      <4>3. CASE ReturnErr
        BY <4>3, CodeTypes, CloseType DEF ReturnErr, EndError, Messages
      <4> QED
        BY <2>10, <4>2, <4>3
    <3> QED
      BY <1>2, <2>10, <3>1 DEF ReturnOk, ReturnErr, routing, TypeOK
  <2>11. CASE ItemFails \/ SendMessageFails \/ SendHeadersFails \/ \E i \in ForeignCodes : Foreign(i)
    <3>1. Status.internal \in Int
      BY CodeTypes DEF Status
    <3> HIDE DEF Running, Meets
    <3> QED
      BY <2>7, <2>11, <3>1, CodeTypes, DispatchAssumption
      DEF ItemFails, SendMessageFails, SendHeadersFails, Foreign, Sends
  <2>12. CASE UNCHANGED vars
    BY <1>2, <2>12 DEF vars, routing, TypeOK
  <2> QED
    BY <1>2, <2>1, <2>2, <2>3, <2>4, <2>5, <2>6, <2>8, <2>9, <2>10, <2>11, <2>12
    DEF Next, Method, Begin, OtherCall
<1> QED
  BY <1>1, <1>2, PTL DEF Spec
=============================================================================
