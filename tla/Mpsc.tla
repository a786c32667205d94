-------------------------------- MODULE Mpsc --------------------------------
(***************************************************************************)
(* The bounded channel `futures_channel::mpsc::channel(buffer)` as the     *)
(* transport uses it (funnel, done and, trivially, writer_gone).           *)
(*                                                                         *)
(* A send always enqueues: every Sender clone owns one guaranteed slot on  *)
(* top of the buffer.  The sender that pushes the queue past the buffer is *)
(* parked and must be unparked, by a later receive, before its next send   *)
(* and before the flush that ends `SinkExt::send`.  Dropping a Sender      *)
(* leaves its entry in the parked queue; dropping the Receiver discards    *)
(* the queue and wakes everybody.                                          *)
(***************************************************************************)
EXTENDS Naturals, Sequences

Channels(Msg, Sender) ==
    [queue : Seq(Msg), parked : Seq(Sender), open : BOOLEAN]

EmptyChannel == [queue |-> <<>>, parked |-> <<>>, open |-> TRUE]

\* The receiver is gone: sends fail, nothing is queued, nobody is parked.
ClosedChannel == [queue |-> <<>>, parked |-> <<>>, open |-> FALSE]

IsParked(ch, s) == \E i \in DOMAIN ch.parked : ch.parked[i] = s

\* `start_send`: enqueue m for sender s, parking s past the buffer; on a closed
\* channel the message is lost.
Send(ch, buffer, s, m) ==
    IF ~ch.open THEN ch
    ELSE [ch EXCEPT !.queue = Append(@, m),
                    !.parked = IF Len(ch.queue) >= buffer THEN Append(@, s) ELSE @]

\* `poll_next` with a message queued: pop it and unpark the longest parked.
Receive(ch) ==
    [ch EXCEPT !.queue = Tail(@),
               !.parked = IF @ = <<>> THEN @ ELSE Tail(@)]

=============================================================================
