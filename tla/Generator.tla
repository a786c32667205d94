------------------------------ MODULE Generator ------------------------------
(***************************************************************************)
(* proto-service-build: what CodeGenerator makes of a prost Service.  The  *)
(* trait an implementation must satisfy and the `Service` impl that calls  *)
(* it are generated apart, method by method; tokens are abstracted to the  *)
(* types and choices they spell.                                           *)
(***************************************************************************)
EXTENDS Sequences, Functions

CONSTANT Garbled    \* type paths syn does not parse

Methods(service) == Range(service.methods)

\* rust_type; one method that fails is the end of the whole service: generate
\* writes the error in its place.
Generates(service) == \A m \in Methods(service) : {m.input_type, m.output_type} \cap Garbled = {}

\* service_name, joined by "."
ServiceName(service) ==
    IF service.package = "" THEN <<service.proto_name>> ELSE <<service.package, service.proto_name>>

\* gen_server_trait_method, for the four shapes: what an implementation is called
\* with, and what it gives back.
TraitMethod(m) ==
    [name |-> m.name,
     request |-> IF m.client_streaming THEN "StreamingRequest" ELSE "Request",
     response |-> IF m.server_streaming THEN {"StreamingResponse"} ELSE {},
     result |-> IF m.server_streaming THEN "MetadataMap" ELSE "Response"]

\* The payload an arm of handle unpacks; the sink it takes and the end it makes.
DecodeOneRequest == "single"
DecodeStreamRequest == "streaming"
SendUnaryResponse == [sink |-> FALSE, end |-> "single"]
StreamResponse == [sink |-> TRUE, end |-> "streaming"]

\* gen_service_impl_handle_method, for the four shapes.
HandleArm(m) ==
    [key |-> <<m.proto_name>>,
     decode |-> IF m.client_streaming THEN DecodeStreamRequest ELSE DecodeOneRequest,
     respond |-> IF m.server_streaming THEN StreamResponse ELSE SendUnaryResponse]

\* A slip DescribeArm could make: the two flags swapped.
DescribeArmSwapped(m) ==
    [key |-> <<m.proto_name>>,
     client_streaming |-> m.server_streaming, server_streaming |-> m.client_streaming]

DescribeArm(m) ==
    [key |-> <<m.proto_name>>,
     client_streaming |-> m.client_streaming, server_streaming |-> m.server_streaming]

\* gen_service_impl: the arms of handle and of describe_method.
Arms(service) == {HandleArm(m) : m \in Methods(service)}
Descriptors(service) == {DescribeArm(m) : m \in Methods(service)}
=============================================================================
