---------------------------- MODULE MCPipeSystem ----------------------------
(* A small instance of PipeSystem for TLC. *)
EXTENDS PipeSystem

MCRoutes == [svc |-> [upload |-> [client_streaming |-> TRUE, server_streaming |-> FALSE],
                      watch |-> [client_streaming |-> FALSE, server_streaming |-> TRUE]]]

MCPaths == {<<"svc", "upload">>, <<"svc", "watch">>}
=============================================================================
