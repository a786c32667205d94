------------------------- MODULE MCServiceDispatch -------------------------
(* A small instance of ServiceDispatch for TLC. *)
EXTENDS ServiceDispatch

Rpc(proto_name, name, streaming, watching) ==
    [proto_name |-> proto_name, name |-> name, input_type |-> "Ping", output_type |-> "Pong",
     client_streaming |-> streaming, server_streaming |-> watching]

\* All four shapes; a later version under the same name, one shape changed; the
\* same name without a package; and a service with a type that is not one.
MCServices ==
    {[package |-> "a", proto_name |-> "Svc",
      methods |-> <<Rpc("Unary", "unary", FALSE, FALSE), Rpc("Watch", "watch", FALSE, TRUE),
                    Rpc("Upload", "upload", TRUE, FALSE), Rpc("Chat", "chat", TRUE, TRUE)>>],
     [package |-> "a", proto_name |-> "Svc", methods |-> <<Rpc("Watch", "watch", TRUE, FALSE)>>],
     [package |-> "", proto_name |-> "Svc", methods |-> <<>>],
     [package |-> "b", proto_name |-> "Svc",
      methods |-> <<[Rpc("Unary", "unary", FALSE, FALSE) EXCEPT !.output_type = "not a type"]>>]}

\* "/a.Svc/<method>", a method name with a "/" in it, unknown names, and two that
\* do not parse: "Unary" and "/a.Svc".
MCMethodNames ==
    {<<"", <<"a", "Svc">>, m>> : m \in {"Unary", "Watch", "Upload", "Chat", "Nope"}}
    \cup {<<"", <<"a", "Svc">>, "Watch", "x">>, <<"", <<"Svc">>, "Unary">>,
          <<"", <<"b", "Svc">>, "Unary">>, <<"Unary">>, <<"", <<"a", "Svc">>>>}

\* OK, NotFound, and two codes that have no name here.
MCForeignCodes == {0, 5, 42, -7}
=============================================================================
