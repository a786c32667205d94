-------------------------- MODULE MCPipeTransport --------------------------
(* Small instances of PipeTransport for TLC. *)
EXTENDS PipeTransportProperties

Method(streaming, watching) ==
    [client_streaming |-> streaming, server_streaming |-> watching]

\* One service with three of the four shapes.
MCRoutes == [svc |-> [bidi |-> Method(TRUE, TRUE),
                      watch |-> Method(FALSE, TRUE),
                      unary |-> Method(FALSE, FALSE)]]

MCUnknown == <<"svc", "nope">>

\* Calls of one shape, and with them each kind of Begin that is refused.
MCBidi == {<<"svc", "bidi">>}
MCBidiUnary == MCBidi \cup {<<"svc", "unary">>, MCUnknown}
MCWatch == {<<"svc", "watch">>}
MCWatchOrUnknown == MCWatch \cup {MCUnknown}
MCBidiOrMalformed == MCBidi \cup {<<>>}
=============================================================================
