--------------------------- MODULE TypedRegisters ---------------------------
(***************************************************************************)
(* What Extensions promises: one register for each type, that holds a      *)
(* value of that type or nothing.  An Option is a set of at most one       *)
(* element.                                                                *)
(***************************************************************************)
EXTENDS FiniteSets

CONSTANTS Types, Payloads

VARIABLES
    value,      \* by type, the value it holds
    answer      \* what the last operation returned

vars == <<value, answer>>

Init == value = [T \in Types |-> {}] /\ answer = {}

Insert(T, p) == value' = [value EXCEPT ![T] = {p}] /\ answer' = value[T]
Get(T) == answer' = value[T] /\ UNCHANGED value
Change(T, p) ==
    /\ value' = [value EXCEPT ![T] = IF @ = {} THEN {} ELSE {p}]
    /\ answer' = value[T]
Remove(T) == value' = [value EXCEPT ![T] = {}] /\ answer' = value[T]
Clear == value' = [T \in Types |-> {}] /\ answer' = {}
Len == answer' = {Cardinality({T \in Types : value[T] # {}})} /\ UNCHANGED value

Next ==
    \/ \E T \in Types : Get(T) \/ Remove(T)
    \/ \E T \in Types, p \in Payloads : Insert(T, p) \/ Change(T, p)
    \/ Clear
    \/ Len

Spec == Init /\ [][Next]_vars
=============================================================================
