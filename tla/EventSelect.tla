----------------------------- MODULE EventSelect -----------------------------
(***************************************************************************)
(* How `Connection::run` picks its next event: `stream::select` of inbound *)
(* and done_rx, itself one side of a select with writer_gone_rx.  A select *)
(* polls its two sides in an order it turns round at every poll, whether   *)
(* or not the poll finds anything; it stops turning when a side has ended. *)
(***************************************************************************)
EXTENDS EventLoop

VARIABLES
    outer,      \* the side the outer select polls first: left (inner), right (writer_gone)
    inner,      \* the side the inner select polls first: left (inbound), right (done_rx)
    ended,      \* the outer select has seen the end of writer_gone_rx
    waited      \* history: events, up to two, taken since a source began to wait

selectVars == <<vars, outer, inner, ended, waited>>

Sources == {"inbound", "done", "gone"}

SelectTypeOK ==
    /\ TypeOK
    /\ outer \in {"left", "right"} /\ inner \in {"left", "right"}
    /\ ended \in BOOLEAN
    /\ waited \in [Sources -> 0..2]

SelectInit ==
    /\ Init
    /\ outer = "left" /\ inner = "left" /\ ended = FALSE
    /\ waited = [s \in Sources |-> 0]

Turn(side) == IF side = "left" THEN "right" ELSE "left"

\* A slip Sentinel could make: `inbound` without the event chained to its end.
NoSentinel == FALSE

\* .chain(stream::once(InboundClosed))
Sentinel == closed

\* A poll of this source would find an event.
Ready(s) == CASE s = "inbound" -> packets > 0 \/ Sentinel
              [] s = "done" -> finished > 0
              [] s = "gone" -> gone = "signalled"

InnerReady == Ready("inbound") \/ Ready("done")

\* A slip InnerFirst could make: a select with a favourite.
InboundFirst == "left"

InnerFirst == inner

OuterFirst == IF ended THEN "left" ELSE outer

\* The inner select is polled first, or because the writer is not gone.
InnerPolled == OuterFirst = "left" \/ ~Ready("gone")

Pick ==
    IF Ready("gone") /\ (OuterFirst = "right" \/ ~InnerReady) THEN "gone"
    ELSE IF Ready("inbound") /\ (InnerFirst = "left" \/ ~Ready("done")) THEN "inbound"
    ELSE IF Ready("done") THEN "done"
    ELSE "pending"

Take(s) == CASE s = "inbound" -> TakePacket \/ TakeClosed
             [] s = "done" -> TakeDone
             [] s = "gone" -> TakeGone
             [] s = "pending" -> UNCHANGED vars

Poll ==
    /\ loop = "running"
    /\ Take(Pick)
    /\ outer' = IF ended THEN outer ELSE Turn(outer)
    /\ inner' = IF InnerPolled THEN Turn(inner) ELSE inner
    /\ ended' = (ended \/ (gone = "dropped" /\ (OuterFirst = "right" \/ ~InnerReady)))
    /\ waited' = [s \in Sources |-> IF s = Pick \/ ~Ready(s) THEN 0
                                   ELSE IF waited[s] = 0 THEN 1 ELSE 2]

SelectNext == Poll \/ (Environment /\ UNCHANGED <<outer, inner, ended, waited>>)

\* The loop's task is polled as long as it runs.
SelectSpec == SelectInit /\ [][SelectNext]_selectVars /\ WF_selectVars(Poll)

-----------------------------------------------------------------------------
(* Properties.                                                             *)

\* While the loop runs no event is passed over more than once: with a client that
\* never pauses, a finished handler's session is removed, and a dead outbound
\* noticed, after one more event at most.  (The nested stream::select of run.)
PassedOverOnce == loop = "running" => \A s \in Sources : waited[s] <= 1

\* Why: the side that was passed over is polled first the next time.
TurnsKept ==
    loop = "running" =>
        /\ waited["inbound"] # 0 => inner = "left"
        /\ waited["done"] # 0 => inner = "right"
        /\ waited["gone"] # 0 => outer = "right" /\ ~ended

EndedMeansDropped == ended => gone = "dropped"

SelectInv == SelectTypeOK /\ PassedOverOnce /\ TurnsKept /\ EndedMeansDropped

\* Fair polling of the one task makes each source of events live.
Loop == INSTANCE EventLoop
        WITH MaxWaiting <- MaxWaiting, packets <- packets, closed <- closed,
             finished <- finished, gone <- gone, loop <- loop

ImplementsEventLoop == Loop!Spec
=============================================================================
