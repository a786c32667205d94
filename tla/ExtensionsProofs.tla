-------------------------- MODULE ExtensionsProofs --------------------------
(***************************************************************************)
(* Extensions implements TypedRegisters, for all types and payloads: a box *)
(* sits under the key of its own type, so that no downcast ever fails.     *)
(***************************************************************************)
EXTENDS Extensions, TLAPS

\* Under that invariant the registers are the map itself.
LEMMA StoredIs ==
    ASSUME ExtTypeOK, NEW T
    PROVE  Stored(T) = IF T \in DOMAIN ext THEN {ext[T].payload} ELSE {}
BY DEF ExtTypeOK, Stored, Key

LEMMA DomainIs ==
    ASSUME ExtTypeOK
    PROVE  DOMAIN ext = {T \in Types : Stored(T) # {}}
<1>1. DOMAIN ext \subseteq Types
  BY DEF ExtTypeOK, Boxed, Key
<1>2. \A T : Stored(T) # {} <=> T \in DOMAIN ext
  BY StoredIs
<1> QED
  BY <1>1, <1>2

\* Every box stays under the key of its type, whatever is inserted, changed,
\* removed or cleared.
LEMMA BoxesStayKeyed == ExtTypeOK /\ [ExtNext]_extVars => ExtTypeOK'
<1> SUFFICES ASSUME ExtTypeOK, [ExtNext]_extVars
             PROVE  ExtTypeOK'
  OBVIOUS
<1> DEFINE Keyed(map) == \A k \in DOMAIN map : map[k] \in Boxed /\ k = map[k].type
<1>0. Keyed(ext)
  BY DEF ExtTypeOK, Key
<1> SUFFICES Keyed(ext')
  BY DEF ExtTypeOK, Key
<1>1. ASSUME NEW T \in Types, RemoveExt(T) PROVE Keyed(ext')
  BY <1>0, <1>1 DEF RemoveExt
<1>2. ASSUME NEW T \in Types, NEW p \in Payloads, InsertExt(T, p) PROVE Keyed(ext')
  <2>1. [type |-> T, payload |-> p] \in Boxed
    BY DEF Boxed
  <2> QED
    BY <1>0, <1>2, <2>1 DEF InsertExt, Key
<1>3. ASSUME NEW T \in Types, NEW p \in Payloads, GetMutExt(T, p) PROVE Keyed(ext')
  <2>1. CASE Stored(T) = {}
    BY <1>0, <1>3, <2>1 DEF GetMutExt
  <2>2. CASE Stored(T) # {}
    <3>1. ext' = [ext EXCEPT ![T].payload = p]
      BY <1>3, <2>2 DEF GetMutExt, Key
    <3>2. ASSUME NEW k \in DOMAIN ext PROVE ext'[k] \in Boxed /\ k = ext'[k].type
      <4>1. CASE k = T
        BY <1>0, <3>1, <3>2, <4>1 DEF Boxed
      <4>2. CASE k # T
        BY <1>0, <3>1, <3>2, <4>2
      <4> QED
        BY <4>1, <4>2
    <3> QED
      BY <3>1, <3>2
  <2> QED
    BY <2>1, <2>2
<1>4. CASE ClearExt
  BY <1>4 DEF ClearExt, NoExt
<1>5. CASE ext' = ext
  BY <1>0, <1>5
<1> QED
  BY <1>1, <1>2, <1>3, <1>4, <1>5 DEF ExtNext, GetExt, LenExt, extVars

\* No box is ever of another type than its key says: a downcast finds its value.
THEOREM BoxesKeyed == ExtSpec => []ExtTypeOK
<1>1. ExtInit => ExtTypeOK
  BY DEF ExtInit, ExtTypeOK, NoExt
<1> QED
  BY <1>1, BoxesStayKeyed, PTL DEF ExtSpec

-----------------------------------------------------------------------------
(* The refinement, step by step.                                           *)

\* What the registers hold after a step, said of the map before and after it.
LEMMA ValueNext ==
    ASSUME ExtTypeOK, ExtTypeOK'
    PROVE  /\ Registers!vars = <<[T \in Types |-> IF T \in DOMAIN ext THEN {ext[T].payload} ELSE {}], answer>>
           /\ [T \in Types |-> Stored(T)]' =
                 [T \in Types |-> IF T \in DOMAIN ext' THEN {ext'[T].payload} ELSE {}]
<1>1. \A T \in Types : Stored(T)' = IF T \in DOMAIN ext' THEN {ext'[T].payload} ELSE {}
  BY DEF ExtTypeOK, Stored, Key
<1> QED
  BY <1>1, StoredIs DEF Registers!vars

\* Every operation is the operation of the same name on one register.
LEMMA RegisterStep ==
    ASSUME ExtTypeOK, ExtTypeOK', [ExtNext]_extVars
    PROVE  [Registers!Next]_(Registers!vars)
<1> DEFINE R == [T \in Types |-> Stored(T)]
           At(map, T) == IF T \in DOMAIN map THEN {map[T].payload} ELSE {}
<1>1. R = [T \in Types |-> At(ext, T)] /\ R' = [T \in Types |-> At(ext', T)]
  BY ValueNext, StoredIs
<1>2. \A T \in Types : Stored(T) = At(ext, T) /\ R[T] = At(ext, T)
  BY StoredIs, <1>1
<1> HIDE DEF R
<1>3. ASSUME NEW T \in Types, GetExt(T) PROVE Registers!Get(T)
  <2>1. R' = R
    BY <1>1, <1>3 DEF GetExt
  <2> QED
    BY <1>2, <1>3, <2>1 DEF GetExt, Registers!Get, R
<1>4. ASSUME NEW T \in Types, RemoveExt(T) PROVE Registers!Remove(T)
  <2>1. ext' = [k \in DOMAIN ext \ {T} |-> ext[k]]
    BY <1>4 DEF RemoveExt, Key
  <2>2. R' = [R EXCEPT ![T] = {}]
    BY <1>1, <2>1
  <2> QED
    BY <1>2, <1>4, <2>2 DEF RemoveExt, Registers!Remove, R
<1>5. ASSUME NEW T \in Types, NEW p \in Payloads, InsertExt(T, p) PROVE Registers!Insert(T, p)
  <2>1. ext' = [k \in DOMAIN ext \cup {T} |->
                   IF k = T THEN [type |-> T, payload |-> p] ELSE ext[k]]
    BY <1>5 DEF InsertExt, Key
  <2>2. R' = [R EXCEPT ![T] = {p}]
    BY <1>1, <2>1
  <2> QED
    BY <1>2, <1>5, <2>2 DEF InsertExt, Registers!Insert, R
<1>6. ASSUME NEW T \in Types, NEW p \in Payloads, GetMutExt(T, p) PROVE Registers!Change(T, p)
  <2>1. R' = [R EXCEPT ![T] = IF R[T] = {} THEN {} ELSE {p}]
    <3>1. CASE T \notin DOMAIN ext
      <4>1. ext' = ext /\ R[T] = {}
        BY <1>2, <1>6, <3>1 DEF GetMutExt
      <4> QED
        BY <1>1, <4>1
    <3>2. CASE T \in DOMAIN ext
      <4>1. R[T] # {} /\ ext' = [ext EXCEPT ![T].payload = p]
        BY <1>2, <1>6, <3>2 DEF GetMutExt, Key
      <4>2. At(ext', T) = {p}
        <5>1. ext[T] \in [type : Types, payload : Payloads]
          BY <3>2 DEF ExtTypeOK, Boxed
        <5> QED
          BY <3>2, <4>1, <5>1
      <4>3. \A U \in Types : U # T => At(ext', U) = At(ext, U)
        BY <4>1
      <4> QED
        BY <1>1, <4>1, <4>2, <4>3
    <3> QED
      BY <3>1, <3>2
  <2> QED
    BY <1>2, <1>6, <2>1 DEF GetMutExt, Registers!Change, R
<1>7. CASE ClearExt
  <2>1. R' = [T \in Types |-> {}]
    BY <1>1, <1>7 DEF ClearExt, NoExt
  <2> QED
    BY <1>7, <2>1 DEF ClearExt, Registers!Clear, Registers!Next, R
<1>8. CASE LenExt
  <2>1. R' = R
    BY <1>1, <1>8 DEF LenExt
  <2>2. DOMAIN ext = {T \in Types : R[T] # {}}
    BY <1>2, DomainIs
  <2>3. \A S : Cardinality(S) = Registers!Cardinality(S)
    BY DEF Cardinality, Registers!Cardinality
  <2> QED
    BY <1>8, <2>1, <2>2, <2>3 DEF LenExt, Registers!Len, Registers!Next, R
<1>9. CASE UNCHANGED extVars
  <2>1. R' = R
    BY <1>1, <1>9 DEF extVars
  <2> QED
    BY <1>9, <2>1 DEF extVars, Registers!vars, R
<1> QED
  BY <1>3, <1>4, <1>5, <1>6, <1>7, <1>8, <1>9 DEF ExtNext, Registers!Next

\* Extensions is one register per type, for all types and payloads.
THEOREM ExtensionsRefine == ExtSpec => RegisterPerType
<1>1. ExtInit => Registers!Init
  BY DEF ExtInit, NoExt, Stored, Registers!Init
<1>2. ExtTypeOK /\ ExtTypeOK' /\ [ExtNext]_extVars => [Registers!Next]_(Registers!vars)
  BY RegisterStep
<1> QED
  BY <1>1, <1>2, BoxesKeyed, PTL DEF ExtSpec, RegisterPerType, Registers!Spec
=============================================================================
