----------------------------- MODULE Extensions -----------------------------
(***************************************************************************)
(* proto-service's Extensions: a map from TypeId to a box of any type,     *)
(* whose values come out by downcast.  A box that is not of the type asked *)
(* for is dropped and answered with None, without an error.                *)
(***************************************************************************)
EXTENDS FiniteSets

CONSTANTS
    Types,      \* Rust types, [path, name]: a name may be used in two places
    Payloads    \* what tells two values of a type apart

VARIABLES
    ext,        \* the BTreeMap
    answer      \* what the last operation returned, an Option as a set

NoExt == [k \in {} |-> {}]

ExtInit == ext = NoExt /\ answer = {}

\* A slip Key could make: std::any::type_name's last segment.
ByName(T) == T.name

\* TypeId::of::<T>()
Key(T) == T

Boxed == [type : Types, payload : Payloads]

\* Every box sits under the key of its own type.
ExtTypeOK == \A k \in DOMAIN ext : ext[k] \in Boxed /\ k = Key(ext[k].type)

\* downcast of what is under the key of T
Stored(T) == {ext[k].payload : k \in {k \in DOMAIN ext : k = Key(T) /\ ext[k].type = T}}

InsertExt(T, p) ==
    /\ ext' = [k \in DOMAIN ext \cup {Key(T)} |->
                  IF k = Key(T) THEN [type |-> T, payload |-> p] ELSE ext[k]]
    /\ answer' = Stored(T)

GetExt(T) == answer' = Stored(T) /\ UNCHANGED ext

\* get_mut, and a write through the reference.
GetMutExt(T, p) ==
    /\ ext' = IF Stored(T) = {} THEN ext ELSE [ext EXCEPT ![Key(T)].payload = p]
    /\ answer' = Stored(T)

RemoveExt(T) ==
    /\ ext' = [k \in DOMAIN ext \ {Key(T)} |-> ext[k]]
    /\ answer' = Stored(T)

ClearExt == ext' = NoExt /\ answer' = {}

\* len, and with it is_empty
LenExt == answer' = {Cardinality(DOMAIN ext)} /\ UNCHANGED ext

ExtNext ==
    \/ \E T \in Types : GetExt(T) \/ RemoveExt(T)
    \/ \E T \in Types, p \in Payloads : InsertExt(T, p) \/ GetMutExt(T, p)
    \/ ClearExt
    \/ LenExt

extVars == <<ext, answer>>

ExtSpec == ExtInit /\ [][ExtNext]_extVars

Registers == INSTANCE TypedRegisters WITH value <- [T \in Types |-> Stored(T)]

\* Each type has a register of its own: no operation on one type shows in what
\* another holds, no value is lost in a downcast, every operation returns what the
\* register held, and len counts the values one can get.  (Extensions: "each type
\* `T` has at most one entry".)
RegisterPerType == Registers!Spec
=============================================================================
