---------------------------- MODULE MetadataMap ----------------------------
(***************************************************************************)
(* proto-service's MetadataMap, and its way over the wire: to_packet_      *)
(* metadata and from_packet_metadata in transport.rs.                      *)
(* A key is one ASCII character, by its code: enough for case and order.   *)
(***************************************************************************)
EXTENDS Naturals, Sequences, FiniteSets

CONSTANTS
    Keys,       \* ASCII codes
    Values,     \* metadata values
    MaxOps      \* bound: operations on one map

ASSUME MetadataAssumption == Keys \subseteq 0..127 /\ MaxOps \in Nat

VARIABLES
    data,   \* MetadataMap.data
    log     \* history: the operations so far

vars == <<data, log>>

NoData == [k \in {} |-> <<>>]

Init == data = NoData /\ log = <<>>

\* A slip Normalize could make: keys stay as they were written.
AsWritten(key) == key

\* normalize, normalize_owned: ASCII lowercase.
Normalize(key) == IF key \in 65..90 THEN key + 32 ELSE key

TypeOK == \A k \in DOMAIN data : k \in Keys \cup 97..122 /\ k \notin 65..90 /\ data[k] \in Seq(Values)

\* data.get(key), nothing for a key that is not there.
ValuesAt(map, key) == IF key \in DOMAIN map THEN map[key] ELSE <<>>

\* A slip the lookups could make: by the key as it was asked for.
GetAsAsked(map, key) == ValuesAt(map, key)

\* The lookups, by a key in any case.
GetAll(map, key) == ValuesAt(map, Normalize(key))

\* The first value, if there is one.
GetFirst(map, key) == {GetAll(map, key)[i] : i \in DOMAIN GetAll(map, key) \cap {1}}

With(map, key, values) == [k \in DOMAIN map \cup {key} |-> IF k = key THEN values ELSE map[k]]

\* entry(key).or_default().push(value)
Pushed(map, key, value) == With(map, key, Append(ValuesAt(map, key), value))

\* A slip Without could make: the values go, the key stays.
Emptied(map, key) == IF key \in DOMAIN map THEN [map EXCEPT ![key] = <<>>] ELSE map

Without(map, key) == [k \in DOMAIN map \ {key} |-> map[k]]

Log(op) == Len(log) < MaxOps /\ log' = Append(log, op)

InsertValue(key, value) ==
    /\ data' = With(data, Normalize(key), <<value>>)
    /\ Log([op |-> "insert", key |-> key, value |-> value])

AppendValue(key, value) ==
    /\ data' = Pushed(data, Normalize(key), value)
    /\ Log([op |-> "append", key |-> key, value |-> value])

RemoveKey(key) ==
    /\ data' = Without(data, Normalize(key))
    /\ Log([op |-> "remove", key |-> key])

Clear == data' = NoData /\ Log([op |-> "clear"])

Next ==
    \/ \E key \in Keys, value \in Values : InsertValue(key, value) \/ AppendValue(key, value)
    \/ \E key \in Keys : RemoveKey(key)
    \/ Clear

Spec == Init /\ [][Next]_vars

-----------------------------------------------------------------------------
(* The wire.                                                               *)

\* The pairs of one key; none when it has no values.
PairsOf(map, key) == [j \in DOMAIN ValuesAt(map, key) |-> [key |-> key, value |-> ValuesAt(map, key)[j]]]

\* What iter_flat has yielded before it comes to key c, in BTreeMap order.
Yielded(map) ==
    LET pairs[c \in 0..128] == IF c = 0 THEN <<>> ELSE pairs[c - 1] \o PairsOf(map, c - 1)
    IN pairs

IterFlat(map) == Yielded(map)[128]

ToPacket(map) == [entries |-> IterFlat(map)]

\* `out` after each turn of from_packet_metadata's loop.
Rebuilt(entries) ==
    LET out[i \in 0..Len(entries)] ==
            IF i = 0 THEN NoData ELSE Pushed(out[i - 1], Normalize(entries[i].key), entries[i].value)
    IN out

FromPacket(md) == Rebuilt(md.entries)[Len(md.entries)]

-----------------------------------------------------------------------------
(* Properties.                                                             *)

\* Metadata survives the pipe: what the peer rebuilds is the same map, values
\* in order, no key lost.  (to_packet_metadata, from_packet_metadata; a key
\* without values would be.)
RoundTrip == FromPacket(ToPacket(data)) = data

\* Two keys are one when they differ in case only (comment on MetadataMap).
Lower == [key \in Keys |-> IF \E c \in 0..25 : key = 65 + c THEN key + 32 ELSE key]

\* The operation takes from key k what it held before.
Resets(op, k) == op.op = "clear" \/ (op.op \in {"insert", "remove"} /\ Lower[op.key] = k)

\* The operation gives it a value.
Adds(op, k) == op.op \in {"insert", "append"} /\ Lower[op.key] = k

\* The operations that added to key k, with none after them to take it away.
Added(ops, k) ==
    {i \in DOMAIN ops : Adds(ops[i], k) /\ \A j \in DOMAIN ops : Resets(ops[j], k) => j <= i}

\* The values are, in order, those of the added operations.
Held(values, added, ops) ==
    /\ Len(values) = Cardinality(added)
    /\ \A i \in added : values[Cardinality({j \in added : j <= i})] = ops[i].value

\* Whatever the case of the keys and the order of the calls, looking a key up gives
\* what was appended to it since it was last inserted, removed or cleared, and
\* first the earliest of it.  (insert, append, remove, clear; get_all, get_first.)
HoldsWhatWasAdded ==
    \A key \in Keys :
        LET added == Added(log, Lower[key]) IN
        /\ Held(GetAll(data, key), added, log)
        /\ GetFirst(data, key) = {log[i].value : i \in {i \in added : \A j \in added : i <= j}}
=============================================================================
