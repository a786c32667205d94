---------------------------- MODULE Attachments ----------------------------
(***************************************************************************)
(* What a Call carries beside its payload: the headers of its Begin, read  *)
(* from the wire, and extensions.  Middleware works on both, in any order, *)
(* before the generated handle moves them into the Request.                *)
(***************************************************************************)
EXTENDS MetadataMap, Extensions

CONSTANTS
    Begins,     \* the entries of Begin.headers
    MaxSteps    \* bound: operations on one Call

ASSUME AttachmentsAssumption ==
    MaxSteps \in Nat /\ Begins \subseteq Seq([key : Keys, value : Values])

VARIABLE steps  \* operations so far

attachments == <<vars, extVars, steps>>

\* The Begin arm: from_packet_metadata appends entry by entry; no extensions yet.
CallInit ==
    /\ \E entries \in Begins :
          /\ data = FromPacket([entries |-> entries])
          /\ log = [i \in DOMAIN entries |->
                       [op |-> "append", key |-> entries[i].key, value |-> entries[i].value]]
    /\ ExtInit
    /\ steps = 0

CallNext ==
    /\ steps < MaxSteps
    /\ steps' = steps + 1
    /\ \/ Next /\ UNCHANGED extVars
       \/ ExtNext /\ UNCHANGED vars

CallSpec == CallInit /\ [][CallNext]_attachments
=============================================================================
