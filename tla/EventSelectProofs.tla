-------------------------- MODULE EventSelectProofs --------------------------
(***************************************************************************)
(* Proofs about EventSelect: the bound on overtaking, and that each of its *)
(* steps is a step of EventLoop.                                           *)
(***************************************************************************)
EXTENDS EventSelect, TLAPS

\* What an event does to the sources is typed.
LEMMA TakeType ==
    ASSUME TypeOK, \E s \in Sources \cup {"pending"} : Take(s)
    PROVE  TypeOK'
  <1>1. CASE TakePacket
    BY <1>1, WaitingAssumption DEF TakePacket, TypeOK
  <1>2. CASE TakeClosed \/ TakeGone
    BY <1>2 DEF TakeClosed, TakeGone, TypeOK, sources
  <1>3. CASE TakeDone
    BY <1>3, WaitingAssumption DEF TakeDone, TypeOK
  <1>4. CASE UNCHANGED vars
    BY <1>4 DEF TypeOK, vars, sources
  <1> QED
    BY <1>1, <1>2, <1>3, <1>4 DEF Take, Sources

LEMMA EnvironmentType ==
    ASSUME TypeOK, Environment
    PROVE  TypeOK'
  <1>1. packets' \in 0..MaxWaiting /\ finished' \in 0..MaxWaiting
    BY WaitingAssumption DEF Environment, TypeOK
  <1>2. closed' \in BOOLEAN
    BY DEF Environment, TypeOK
  <1>3. gone' \in {"alive", "signalled", "dropped"} /\ loop' \in {"running", "stopped"}
    BY DEF Environment, TypeOK
  <1> QED
    BY <1>1, <1>2, <1>3 DEF TypeOK

LEMMA PickIsSource == Pick \in Sources \cup {"pending"}
  BY DEF Pick, Sources

\* The loop stops for good.
LEMMA TakeRuns ==
    ASSUME loop = "running", Pick = "gone", Take(Pick)
    PROVE  loop' = "stopped"
  BY DEF Take, TakeGone

LEMMA PollKeepsInv ==
    ASSUME SelectInv, Poll
    PROVE  SelectInv'
  <1>1. TypeOK'
    BY PickIsSource, TakeType DEF Poll, SelectInv, SelectTypeOK
  <1>2. SelectTypeOK'
    BY <1>1 DEF Poll, SelectInv, SelectTypeOK, Turn
  <1>3. ASSUME loop' = "running"
        PROVE  /\ \A s \in Sources : waited'[s] <= 1
               /\ TurnsKept'
    <2>1. loop = "running" /\ Pick # "gone" /\ InnerPolled
      <3>1. loop = "running" /\ Pick # "gone"
        BY <1>3, TakeRuns DEF Poll
      <3>2. OuterFirst \in {"left", "right"}
        BY DEF SelectInv, SelectTypeOK, OuterFirst
      <3> QED
        BY <3>1, <3>2 DEF Pick, InnerPolled
    <2>2. inner' = Turn(inner)
      BY <2>1 DEF Poll
    <2>3. waited' = [s \in Sources |-> IF s = Pick \/ ~Ready(s) THEN 0
                                       ELSE IF waited[s] = 0 THEN 1 ELSE 2]
      BY DEF Poll
    <2>4. waited'["inbound"] <= 1 /\ (waited'["inbound"] # 0 => inner' = "left")
      BY <2>1, <2>2, <2>3
      DEF SelectInv, SelectTypeOK, TurnsKept, Pick, Sources, Turn, InnerFirst, InnerReady
    <2>5. waited'["done"] <= 1 /\ (waited'["done"] # 0 => inner' = "right")
      BY <2>1, <2>2, <2>3
      DEF SelectInv, SelectTypeOK, TurnsKept, Pick, Sources, Turn, InnerFirst, InnerReady
    <2>6. ASSUME waited'["gone"] # 0
          PROVE  waited'["gone"] = 1 /\ outer' = "right" /\ ~ended'
      <3>1. Ready("gone") /\ gone = "signalled"
        BY <2>3, <2>6 DEF Sources, Ready
      <3>2. OuterFirst = "left"
        BY <2>1, <3>1 DEF Pick, SelectInv, SelectTypeOK, OuterFirst
      <3>3. waited["gone"] = 0
        BY <2>1, <3>2 DEF SelectInv, TurnsKept, OuterFirst
      <3>4. ~ended
        BY <3>1 DEF SelectInv, EndedMeansDropped
      <3> QED
        BY <2>3, <2>6, <3>1, <3>2, <3>3, <3>4 DEF Sources, OuterFirst, Turn, Poll
    <2> QED
      BY <2>4, <2>5, <2>6, <2>3 DEF TurnsKept, Sources
  <1>4. EndedMeansDropped'
    BY PickIsSource DEF Poll, SelectInv, EndedMeansDropped, Take, Sources, TakePacket, TakeClosed,
       TakeDone, TakeGone, vars, sources
  <1> QED
    BY <1>2, <1>3, <1>4 DEF SelectInv, PassedOverOnce, TurnsKept

\* The invariant behind the bound on overtaking.  (Nested stream::select in run.)
THEOREM SelectInvariant == SelectSpec => []SelectInv
  <1>1. SelectInit => SelectInv
    <2> SUFFICES ASSUME SelectInit PROVE SelectInv
      OBVIOUS
    <2>1. TypeOK
      <3>1. packets \in 0..MaxWaiting /\ finished \in 0..MaxWaiting
        BY WaitingAssumption DEF SelectInit, Init
      <3>2. closed \in BOOLEAN
        BY Zenon DEF SelectInit, Init
      <3> QED
        BY <3>1, <3>2 DEF SelectInit, Init, TypeOK
    <2>2. SelectTypeOK
      <3>1. ended \in BOOLEAN
        BY Zenon DEF SelectInit
      <3>2. waited \in [Sources -> 0..2]
        BY DEF SelectInit
      <3> QED
        BY <2>1, <3>1, <3>2 DEF SelectInit, SelectTypeOK
    <2>3. PassedOverOnce /\ TurnsKept /\ EndedMeansDropped
      BY DEF SelectInit, PassedOverOnce, TurnsKept, EndedMeansDropped, Sources
    <2> QED
      BY <2>2, <2>3 DEF SelectInv
  <1>2. SelectInv /\ [SelectNext]_selectVars => SelectInv'
    <2> SUFFICES ASSUME SelectInv, [SelectNext]_selectVars PROVE SelectInv'
      OBVIOUS
    <2>1. CASE Poll
      BY <2>1, PollKeepsInv
    <2>2. CASE Environment /\ UNCHANGED <<outer, inner, ended, waited>>
      <3>1. TypeOK'
        BY <2>2, EnvironmentType DEF SelectInv, SelectTypeOK
      <3>2. EndedMeansDropped'
        BY <2>2 DEF SelectInv, EndedMeansDropped, Environment
      <3> QED
        BY <2>2, <3>1, <3>2
        DEF SelectInv, SelectTypeOK, PassedOverOnce, TurnsKept, Environment
    <2>3. CASE UNCHANGED selectVars
      BY <2>3 DEF SelectInv, SelectTypeOK, TypeOK, PassedOverOnce, TurnsKept, EndedMeansDropped,
         Sources, selectVars, vars, sources
    <2> QED
      BY <2>1, <2>2, <2>3 DEF SelectNext
  <1> QED
    BY <1>1, <1>2, PTL DEF SelectSpec

\* While the loop runs, no waiting event is passed over twice, however many packets
\* and completions there are.
THEOREM OvertakenOnce == SelectSpec => []PassedOverOnce
  BY SelectInvariant, PTL DEF SelectInv

\* Every step of the select is a step, or a stutter, of the abstract loop: no event
\* is lost, invented or taken out of its source's order.
THEOREM SelectRefines == SelectSpec => Loop!Init /\ [][Loop!Next]_Loop!vars
  <1>1. SelectInit => Loop!Init
    BY DEF SelectInit, Init, Loop!Init
  <1>2. ASSUME [SelectNext]_selectVars PROVE [Loop!Next]_Loop!vars
    <2>1. CASE Poll
      BY <2>1, PickIsSource
      DEF Poll, Take, Sources, TakePacket, TakeClosed, TakeDone, TakeGone, sources, vars,
          Loop!Next, Loop!TakePacket, Loop!TakeClosed, Loop!TakeDone, Loop!TakeGone,
          Loop!sources, Loop!vars
    <2>2. CASE Environment /\ UNCHANGED <<outer, inner, ended, waited>>
      BY <2>2 DEF Environment, Loop!Next, Loop!Environment
    <2>3. CASE UNCHANGED selectVars
      BY <2>3 DEF selectVars, vars, sources, Loop!vars, Loop!sources
    <2> QED
      BY <1>2, <2>1, <2>2, <2>3 DEF SelectNext
  <1> QED
    BY <1>1, <1>2, PTL DEF SelectSpec
=============================================================================
