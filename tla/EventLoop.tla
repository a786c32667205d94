------------------------------ MODULE EventLoop ------------------------------
(***************************************************************************)
(* What `Connection::run` promises of its three sources of events: nothing *)
(* is lost, and none of them waits forever for the others.                 *)
(***************************************************************************)
EXTENDS Naturals

CONSTANT MaxWaiting     \* bound: packets, or completions, that wait

ASSUME WaitingAssumption == MaxWaiting \in Nat

VARIABLES
    packets,    \* packets waiting in `inbound`
    closed,     \* `inbound` has ended
    finished,   \* completions waiting in done_rx
    gone,       \* the writer task: alive, signalled (writer_gone_tx), or dropped
    loop        \* run: running or stopped

sources == <<packets, closed, finished, gone>>
vars == <<sources, loop>>

TypeOK ==
    /\ packets \in 0..MaxWaiting /\ finished \in 0..MaxWaiting
    /\ closed \in BOOLEAN
    /\ gone \in {"alive", "signalled", "dropped"}
    /\ loop \in {"running", "stopped"}

Init == packets = 0 /\ closed = FALSE /\ finished = 0 /\ gone = "alive" /\ loop = "running"

\* The client, the handlers and the writer.  A writer task that is dropped, or
\* panics, signals nothing.
Environment ==
    /\ \/ ~closed /\ packets < MaxWaiting /\ packets' = packets + 1 /\ UNCHANGED <<closed, finished, gone>>
       \/ closed' = TRUE /\ UNCHANGED <<packets, finished, gone>>
       \/ finished < MaxWaiting /\ finished' = finished + 1 /\ UNCHANGED <<packets, closed, gone>>
       \/ gone = "alive" /\ gone' \in {"signalled", "dropped"} /\ UNCHANGED <<packets, closed, finished>>
    /\ UNCHANGED loop

\* Event::Packet; the packet may be a violation.
TakePacket ==
    /\ loop = "running" /\ packets > 0
    /\ packets' = packets - 1
    /\ loop' \in {"running", "stopped"}
    /\ UNCHANGED <<closed, finished, gone>>

\* Event::InboundClosed, once all packets before it are handled.
TakeClosed ==
    /\ loop = "running" /\ closed /\ packets = 0
    /\ loop' = "stopped"
    /\ UNCHANGED sources

\* Event::Done.
TakeDone ==
    /\ loop = "running" /\ finished > 0
    /\ finished' = finished - 1
    /\ UNCHANGED <<packets, closed, gone, loop>>

\* Event::WriterGone.
TakeGone ==
    /\ loop = "running" /\ gone = "signalled"
    /\ loop' = "stopped"
    /\ UNCHANGED sources

Next == Environment \/ TakePacket \/ TakeClosed \/ TakeDone \/ TakeGone

Fairness == WF_vars(TakePacket) /\ WF_vars(TakeClosed) /\ WF_vars(TakeDone) /\ WF_vars(TakeGone)

Spec == Init /\ [][Next]_vars /\ Fairness
=============================================================================
