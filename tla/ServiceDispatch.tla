-------------------------- MODULE ServiceDispatch --------------------------
(***************************************************************************)
(* How one call gets from the method name of its Begin to the method of an *)
(* implementation and back to a Close: ServiceRouter, the transport's      *)
(* Begin arm, and the server that Generator makes of each proto service.   *)
(* The transport chooses payload and sink by describe_method; the          *)
(* generated handle expects them by arms of its own.  An Option is a set   *)
(* of at most one element.                                                 *)
(***************************************************************************)
EXTENDS Generator, StatusCodes

CONSTANTS
    Services,       \* proto services, as prost_build::Service
    Impls,          \* implementations that may be registered for a service
    MethodNames,    \* Begin.method, split at each "/"
    ForeignCodes,   \* i32 codes a method gets from elsewhere and passes on
    MaxRegistered,  \* bound: calls of register
    MaxFrames       \* bound: frames one call sends

ASSUME DispatchAssumption ==
    /\ MaxRegistered \in Nat /\ MaxFrames \in Nat
    /\ ForeignCodes \subseteq Int
    /\ \A s \in Services : \A m, n \in Methods(s) :
          /\ m.client_streaming \in BOOLEAN /\ m.server_streaming \in BOOLEAN
          /\ m.proto_name = n.proto_name => m = n

VARIABLES
    registered,     \* history: the registrations, in order
    router,         \* ServiceRouter.services
    shared,         \* the router is behind its Arc: no more register
    stage,          \* of the call: none, spawned, running, closed
    call,           \* what DynService::handle was given
    method,         \* the method of the implementation handle called
    open,           \* the receiving end of streaming_response is there
    frames,         \* what the call sent on streaming_response
    error,          \* the error the method has met last, or returned as Err
    close           \* its Close

vars == <<registered, router, shared, stage, call, method, open, frames, error, close>>
routing == <<registered, router, shared>>

Servers == [service : {s \in Services : Generates(s)}, impl : Impls]
NoCall == [from |-> "nobody"]
NoMethod == [name |-> "none"]
NoClose == [status |-> -1]

\* What a message tells: "method" stands for any message of a method's own.
Messages == {"empty", "malformed_method_name", "unknown_service", "unknown_method",
             "missing_single_request", "method_not_found", "unexpected_request_payload",
             "failed_to_decode_request", "missing_response_channel", "method"}

Closes == [status : Codes, message : Messages, single_response : BOOLEAN, single_headers : BOOLEAN]

TypeOK ==
    /\ registered \in Seq(Servers)
    /\ \A n \in DOMAIN router : router[n] \in Servers /\ ServiceName(router[n].service) = n
    /\ shared \in BOOLEAN /\ open \in BOOLEAN
    /\ stage \in {"none", "spawned", "running", "closed"}
    /\ frames \in Seq({"headers", "message"})
    /\ error \in SUBSET Int
    /\ close \in Closes \cup {NoClose}

Init ==
    /\ registered = <<>>
    /\ router = <<>>
    /\ shared = FALSE
    /\ stage = "none"
    /\ call = NoCall
    /\ method = NoMethod
    /\ open = TRUE
    /\ frames = <<>>
    /\ error = {}
    /\ close = NoClose

-----------------------------------------------------------------------------
(* ServiceRouter.                                                          *)

\* A slip Entry could make: entry().or_insert, the first registration stays.
FirstEntry(name, server) == IF name \in DOMAIN router THEN router[name] ELSE server

Entry(name, server) == server

Register(server) ==
    /\ ~shared
    /\ Len(registered) < MaxRegistered
    /\ LET name == ServiceName(server.service) IN
       router' = [n \in DOMAIN router \cup {name} |->
                     IF n = name THEN Entry(n, server) ELSE router[n]]
    /\ registered' = Append(registered, server)
    /\ UNCHANGED <<shared, stage, call, method, open, frames, error, close>>

Share == /\ ~shared
         /\ shared' = TRUE
         /\ UNCHANGED <<registered, router, stage, call, method, open, frames, error, close>>

-----------------------------------------------------------------------------
(* CallEnd, close_packet and to_packet_status.                             *)

CloseWith(status, message, response, headers) ==
    /\ stage' = "closed"
    /\ close' = [status |-> status, message |-> message,
                 single_response |-> response, single_headers |-> headers]

EndError(status, message) == CloseWith(status, message, FALSE, FALSE)

\* A slip EndSingle could make: the response goes out without its headers.
EndHeaderless == CloseWith(Status.ok, "empty", TRUE, FALSE)

EndSingle == CloseWith(Status.ok, "empty", TRUE, TRUE)
EndStreaming == CloseWith(Status.ok, "empty", FALSE, FALSE)

-----------------------------------------------------------------------------
(* The transport's Begin arm.                                              *)

\* parse_method: "/" first, then the service, then all that follows the next "/".
Parses(name) == Len(name) >= 3 /\ name[1] = ""
ServicePart(name) == name[2]
MethodPart(name) == SubSeq(name, 3, Len(name))

Resolve(name) == IF name \in DOMAIN router THEN {router[name]} ELSE {}

DescribeMethod(server, key) == {d \in Descriptors(server.service) : d.key = key}

\* Every way to refuse a Begin, in the order of the early returns.
Refused(name, single) ==
    \/ ~Parses(name) /\ EndError(Status.invalid_argument, "malformed_method_name")
    \/ /\ Parses(name)
       /\ Resolve(ServicePart(name)) = {}
       /\ EndError(Status.unimplemented, "unknown_service")
    \/ /\ Parses(name)
       /\ \E server \in Resolve(ServicePart(name)) :
          LET descriptor == DescribeMethod(server, MethodPart(name)) IN
          \/ descriptor = {} /\ EndError(Status.unimplemented, "unknown_method")
          \/ /\ \E d \in descriptor : ~d.client_streaming /\ ~single
             /\ EndError(Status.invalid_argument, "missing_single_request")

BeginRefused(name, single) ==
    /\ shared
    /\ stage = "none"
    /\ Refused(name, single)
    /\ UNCHANGED <<routing, call, method, open, frames, error>>

Spawned(from, server, key, payload, sink) ==
    /\ stage = "none"
    /\ stage' = "spawned"
    /\ call' = [from |-> from, server |-> server, key |-> key, payload |-> payload, sink |-> sink]
    /\ UNCHANGED <<routing, method, open, frames, error, close>>

Begin(name, single) ==
    /\ shared
    /\ Parses(name)
    /\ \E server \in Resolve(ServicePart(name)) : \E d \in DescribeMethod(server, MethodPart(name)) :
          /\ d.client_streaming \/ single
          /\ Spawned("pipe", server, MethodPart(name),
                     IF d.client_streaming THEN "streaming" ELSE "single", d.server_streaming)

\* Call and DynService are public: another transport, or middleware, may hand a
\* service a Call without asking describe_method.
OtherCall(server, key, payload, sink) == Spawned("other", server, key, payload, sink)

-----------------------------------------------------------------------------
(* The generated handle.                                                   *)

Arm == {arm \in Arms(call.server.service) : arm.key = call.key}

\* The ways out before the method is called, in the order of the arm's code.
HandleFails(decodes) ==
    /\ stage = "spawned"
    /\ \/ Arm = {} /\ EndError(Status.unimplemented, "method_not_found")
       \/ \E arm \in Arm :
          LET fits == call.payload = arm.decode
              decoded == call.payload = "streaming" \/ decodes
          IN \/ ~fits /\ EndError(Status.invalid_argument, "unexpected_request_payload")
             \/ fits /\ ~decoded /\ EndError(Status.internal, "failed_to_decode_request")
             \/ /\ fits /\ decoded /\ arm.respond.sink /\ ~call.sink
                /\ EndError(Status.internal, "missing_response_channel")
    /\ UNCHANGED <<routing, call, method, open, frames, error>>

\* The method is called as the trait declares it; rustc sees to that.
Handle ==
    /\ stage = "spawned"
    /\ \E m \in Methods(call.server.service) :
       LET arm == HandleArm(m) IN
       /\ arm.key = call.key
       /\ call.payload = arm.decode
       /\ arm.respond.sink => call.sink
       /\ method' = TraitMethod(m)
    /\ stage' = "running"
    /\ UNCHANGED <<routing, call, open, frames, error, close>>

Running == stage = "running" /\ UNCHANGED <<routing, call, method>>

Meets(i) == error' = {i} /\ UNCHANGED <<stage, open, frames, close>>

\* An item of the request stream that does not decode; one that does is the
\* method's own matter.
ItemFails == Running /\ method.request = "StreamingRequest" /\ Meets(Status.internal)

\* An i32 from another service, which Code::from makes a Code of on the way out.
Foreign(i) == Running /\ Meets(i)

\* send_headers and send_message, each awaited to its end, while the receiving
\* end of streaming_response is there or when it is dropped.
Sends == Running /\ method.response # {}

SinkCloses == Sends /\ open /\ open' = FALSE /\ UNCHANGED <<stage, frames, error, close>>

SendFrame(body) ==
    /\ Sends /\ open
    /\ body = "headers" => frames = <<>>
    /\ Len(frames) < MaxFrames
    /\ frames' = Append(frames, body)
    /\ UNCHANGED <<stage, open, error, close>>

SendMessageFails == Sends /\ ~open /\ Meets(FromSendError)
SendHeadersFails ==
    /\ Sends
    /\ IF frames = <<>> THEN ~open /\ Meets(FromSendHeadersError.Closed)
                        ELSE Meets(FromSendHeadersError.AlreadyOpened)

\* send_unary_response, stream_response: what becomes of the method's result.
ReturnOk ==
    /\ Running
    /\ \E arm \in Arm : IF arm.respond.end = "single" THEN EndSingle ELSE EndStreaming
    /\ error' = {}
    /\ UNCHANGED <<open, frames>>

ReturnErr ==
    /\ Running
    /\ \E i \in error : EndError(CodeFrom(i), "method")
    /\ UNCHANGED <<open, frames, error>>

Method ==
    \/ ItemFails
    \/ \E i \in ForeignCodes : Foreign(i)
    \/ SinkCloses
    \/ \E body \in {"headers", "message"} : SendFrame(body)
    \/ SendMessageFails
    \/ SendHeadersFails
    \/ ReturnOk
    \/ ReturnErr

Next ==
    \/ \E server \in Servers : Register(server)
    \/ Share
    \/ \E name \in MethodNames, single \in BOOLEAN : Begin(name, single) \/ BeginRefused(name, single)
    \/ \E server \in Servers, name \in {n \in MethodNames : Parses(n)},
          payload \in {"single", "streaming"}, sink \in BOOLEAN :
          OtherCall(server, MethodPart(name), payload, sink)
    \/ \E decodes \in BOOLEAN : HandleFails(decodes)
    \/ Handle
    \/ Method

Spec == Init /\ [][Next]_vars

-----------------------------------------------------------------------------
(* Properties.                                                             *)

\* describe_method and handle agree (service.rs: "Must agree with `handle`'s own
\* method dispatch"): the transport never hands a call to a service that cannot
\* place its method, its payload or its sink, whatever was registered before.
DispatchAgrees ==
    call.from = "pipe" =>
        /\ \E arm \in Arm : call.sink = arm.respond.sink
        /\ close # NoClose => close.message \notin
               {"method_not_found", "unexpected_request_payload", "missing_response_channel"}

\* A Close is the one its call may have (service.rs, CallEnd; packet.proto, Close):
\* a response only with OK, only for a single-response method, never after
\* frames, and always together with its leading metadata, whoever made the call;
\* and an OK Close lacks its response only where the method streams, or itself
\* returned the code OK as an Err.
CloseFits ==
    /\ close # NoClose /\ (close.single_response \/ close.single_headers) =>
        /\ close.status = Code.Ok
        /\ close.single_response /\ close.single_headers
        /\ method # NoMethod /\ method.response = {}
        /\ frames = <<>>
    /\ close # NoClose /\ close.status = Code.Ok /\ ~close.single_response =>
        error = {Code.Ok} \/ method.result = "MetadataMap"

\* A call ends with OK exactly when its method ran and returned Ok, or an Err with
\* the code OK: a refused Begin, a handle that does not get to the method and an Err
\* of any i32 are all told from success, and a code the peer has a name for arrives
\* as that code.  (The early returns of Begin and handle; Code::from;
\* to_packet_status.)
FailureReported ==
    close # NoClose =>
        /\ close.status = Code.Ok <=> method # NoMethod /\ error \subseteq {Code.Ok}
        /\ \A i \in error \cap Codes : close.status = i

\* A call is served by the last registration of its service's name
\* (ServiceRouter::register), with no method of an earlier one shining through.
LastRegistrationServes ==
    call.from = "pipe" =>
        \E i \in DOMAIN registered :
            /\ registered[i] = call.server
            /\ \A j \in DOMAIN registered :
                 j > i => ServiceName(registered[j].service) # ServiceName(call.server.service)
=============================================================================
