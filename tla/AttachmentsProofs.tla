-------------------------- MODULE AttachmentsProofs --------------------------
(***************************************************************************)
(* The metadata of a call: its keys are lower case and have values, a key  *)
(* holds what was added to it, and the map survives the wire, whatever the *)
(* headers it was read from and whatever is done to it afterwards.  And    *)
(* the extensions beside it are those of ExtensionsProofs.                 *)
(***************************************************************************)
EXTENDS Attachments, ExtensionsProofs, FiniteSetTheorems, SequenceTheorems, TLAPS

-----------------------------------------------------------------------------
(* Induction, on sets in the place of predicates, and what it gives for    *)
(* the two recursive functions of the wire.                                *)

LEMMA Induction ==
    ASSUME NEW S, 0 \in S, \A n \in Nat : n \in S => n + 1 \in S
    PROVE  \A n \in Nat : n \in S
  <1> DEFINE T == Nat \ S
             R == {ss \in Nat \X Nat : ss[1] < ss[2]}
  <1> SUFFICES ASSUME T # {} PROVE FALSE
    OBVIOUS
  <1>1. IsWellFoundedOn(R, Nat)
    BY NatLessThanWellFounded DEF OpToRel
  <1>2. PICK x \in T : \A y \in T : ~(<<y, x>> \in R)
    <2>1. T \subseteq Nat
      OBVIOUS
    <2> HIDE DEF T, R
    <2> QED
      BY <1>1, <2>1, WFMin
  <1>3. x \in Nat /\ x # 0 /\ x - 1 \in Nat
    OBVIOUS
  <1>4. x - 1 \in T
    BY <1>3
  <1>5. <<x - 1, x>> \in R
    BY <1>3
  <1> QED
    BY <1>2, <1>4, <1>5

\* One turn of from_packet_metadata's loop.
Turn(map, entry) == Pushed(map, Normalize(entry.key), entry.value)

IsRebuilt(out, entries, n) ==
    out = [i \in 0..n |-> IF i = 0 THEN NoData ELSE Turn(out[i - 1], entries[i])]

\* The function that Rebuilt chooses exists.
LEMMA RebuiltExists ==
    ASSUME NEW entries
    PROVE  \A n \in Nat : \E out : IsRebuilt(out, entries, n)
  <1> DEFINE S == {n \in Nat : \E out : IsRebuilt(out, entries, n)}
  <1>1. 0 \in S
    <2> DEFINE out == [i \in 0..0 |-> NoData]
    <2>1. IsRebuilt(out, entries, 0)
      BY DEF IsRebuilt
    <2> QED
      BY <2>1
  <1>2. ASSUME NEW n \in Nat, n \in S PROVE n + 1 \in S
    <2>1. PICK out : IsRebuilt(out, entries, n)
      BY <1>2
    <2> DEFINE more == [i \in 0..n + 1 |-> IF i = n + 1 THEN Turn(out[n], entries[n + 1]) ELSE out[i]]
    <2>2. \A i \in 0..n : out[i] = IF i = 0 THEN NoData ELSE Turn(out[i - 1], entries[i])
      BY <2>1 DEF IsRebuilt
    <2>3. \A i \in 0..n + 1 : more[i] = IF i = 0 THEN NoData ELSE Turn(more[i - 1], entries[i])
      <3> SUFFICES ASSUME NEW i \in 0..n + 1
                   PROVE  more[i] = IF i = 0 THEN NoData ELSE Turn(more[i - 1], entries[i])
        OBVIOUS
      <3>1. CASE i = n + 1
        BY <3>1
      <3>2. CASE i # n + 1
        <4>1. i \in 0..n /\ more[i] = out[i] /\ (i # 0 => more[i - 1] = out[i - 1])
          BY <3>2
        <4> QED
          BY <2>2, <4>1
      <3> QED
        BY <3>1, <3>2
    <2>4. IsRebuilt(more, entries, n + 1)
      BY <2>3 DEF IsRebuilt
    <2> QED
      BY <2>4
  <1> HIDE DEF S
  <1>3. \A n \in Nat : n \in S
    BY <1>1, <1>2, Induction
  <1> QED
    BY <1>3 DEF S

LEMMA RebuiltIs ==
    ASSUME NEW entries, Len(entries) \in Nat
    PROVE  IsRebuilt(Rebuilt(entries), entries, Len(entries))
  <1>1. \E out : IsRebuilt(out, entries, Len(entries))
    BY RebuiltExists
  <1>2. Rebuilt(entries) = CHOOSE out : IsRebuilt(out, entries, Len(entries))
    BY DEF Rebuilt, IsRebuilt, Turn
  <1> QED
    BY <1>1, <1>2

\* What from_packet_metadata makes of some entries.
Read(s) == FromPacket([entries |-> s])

LEMMA ReadIs ==
    ASSUME NEW s, Len(s) \in Nat
    PROVE  /\ Read(s) = Rebuilt(s)[Len(s)]
           /\ \A i \in 0..Len(s) : Rebuilt(s)[i] = IF i = 0 THEN NoData ELSE Turn(Rebuilt(s)[i - 1], s[i])
  <1>1. Read(s) = Rebuilt(s)[Len(s)]
    BY DEF Read, FromPacket
  <1>2. IsRebuilt(Rebuilt(s), s, Len(s))
    BY RebuiltIs
  <1> QED
    BY <1>1, <1>2 DEF IsRebuilt

LEMMA ReadEmpty == Read(<<>>) = NoData
  <1>1. Len(<<>>) = 0
    OBVIOUS
  <1> QED
    BY <1>1, ReadIs

LEMMA ReadAppend ==
    ASSUME NEW E, NEW s \in Seq(E), NEW e \in E
    PROVE  Read(Append(s, e)) = Turn(Read(s), e)
  <1> DEFINE t == Append(s, e)
             f == Rebuilt(s)
             g == Rebuilt(t)
             Same == {i \in Nat : i <= Len(s) => f[i] = g[i]}
  <1>1. /\ Len(s) \in Nat /\ Len(t) = Len(s) + 1 /\ t[Len(s) + 1] = e
        /\ \A i \in 1..Len(s) : t[i] = s[i]
    OBVIOUS
  <1> HIDE DEF t
  <1>2. /\ Read(s) = f[Len(s)]
        /\ \A i \in 0..Len(s) : f[i] = IF i = 0 THEN NoData ELSE Turn(f[i - 1], s[i])
    BY <1>1, ReadIs
  <1>3. /\ Read(t) = g[Len(s) + 1]
        /\ \A i \in 0..Len(s) + 1 : g[i] = IF i = 0 THEN NoData ELSE Turn(g[i - 1], t[i])
    BY <1>1, ReadIs
  <1> HIDE DEF f, g
  <1>4. 0 \in Same
    BY <1>1, <1>2, <1>3
  <1>5. ASSUME NEW i \in Nat, i \in Same PROVE i + 1 \in Same
    <2> SUFFICES ASSUME i + 1 <= Len(s) PROVE f[i + 1] = g[i + 1]
      OBVIOUS
    <2>1. f[i] = g[i] /\ t[i + 1] = s[i + 1]
      BY <1>1, <1>5
    <2>2. f[i + 1] = Turn(f[i], s[i + 1])
      BY <1>1, <1>2
    <2>3. g[i + 1] = Turn(g[i], t[i + 1])
      BY <1>1, <1>3
    <2> QED
      BY <2>1, <2>2, <2>3
  <1> HIDE DEF Same
  <1>6. Len(s) \in Same
    BY <1>1, <1>4, <1>5, Induction
  <1>7. f[Len(s)] = g[Len(s)]
    BY <1>1, <1>6 DEF Same
  <1>8. g[Len(s) + 1] = Turn(g[Len(s)], e)
    BY <1>1, <1>3
  <1> QED
    BY <1>2, <1>3, <1>7, <1>8 DEF t

IsYielded(pairs, map, n) ==
    pairs = [c \in 0..n |-> IF c = 0 THEN <<>> ELSE pairs[c - 1] \o PairsOf(map, c - 1)]

LEMMA YieldedExists ==
    ASSUME NEW map
    PROVE  \A n \in Nat : \E pairs : IsYielded(pairs, map, n)
  <1> DEFINE S == {n \in Nat : \E pairs : IsYielded(pairs, map, n)}
             Then(p, c) == p \o PairsOf(map, c)
  <1>0. \A pairs, n : IsYielded(pairs, map, n) <=> pairs = [c \in 0..n |-> IF c = 0 THEN <<>> ELSE Then(pairs[c - 1], c - 1)]
    BY DEF IsYielded
  <1> HIDE DEF Then
  <1>1. 0 \in S
    <2> DEFINE pairs == [c \in 0..0 |-> <<>>]
    <2>1. IsYielded(pairs, map, 0)
      BY DEF IsYielded
    <2> QED
      BY <2>1
  <1>2. ASSUME NEW n \in Nat, n \in S PROVE n + 1 \in S
    <2>1. PICK pairs : IsYielded(pairs, map, n)
      BY <1>2
    <2> DEFINE more == [c \in 0..n + 1 |-> IF c = n + 1 THEN Then(pairs[n], n) ELSE pairs[c]]
    <2>2. \A c \in 0..n : pairs[c] = IF c = 0 THEN <<>> ELSE Then(pairs[c - 1], c - 1)
      BY <1>0, <2>1
    <2>3. \A c \in 0..n + 1 : more[c] = IF c = 0 THEN <<>> ELSE Then(more[c - 1], c - 1)
      <3> SUFFICES ASSUME NEW c \in 0..n + 1
                   PROVE  more[c] = IF c = 0 THEN <<>> ELSE Then(more[c - 1], c - 1)
        OBVIOUS
      <3>1. CASE c = n + 1
        BY <3>1
      <3>2. CASE c # n + 1
        <4>1. c \in 0..n /\ more[c] = pairs[c] /\ (c # 0 => more[c - 1] = pairs[c - 1])
          BY <3>2
        <4> QED
          BY <2>2, <4>1
      <3> QED
        BY <3>1, <3>2
    <2>4. IsYielded(more, map, n + 1)
      BY <1>0, <2>3
    <2> QED
      BY <2>4
  <1> HIDE DEF S
  <1>3. \A n \in Nat : n \in S
    BY <1>1, <1>2, Induction
  <1> QED
    BY <1>3 DEF S

LEMMA YieldedIs ==
    ASSUME NEW map
    PROVE  /\ Yielded(map)[0] = <<>>
           /\ \A c \in 0..127 : Yielded(map)[c + 1] = Yielded(map)[c] \o PairsOf(map, c)
  <1>1. \E pairs : IsYielded(pairs, map, 128)
    BY YieldedExists
  <1>2. Yielded(map) = CHOOSE pairs : IsYielded(pairs, map, 128)
    BY DEF Yielded, IsYielded
  <1>3. IsYielded(Yielded(map), map, 128)
    BY <1>1, <1>2
  <1> DEFINE Then(p, c) == p \o PairsOf(map, c)
             Y == Yielded(map)
  <1>4. Y = [c \in 0..128 |-> IF c = 0 THEN <<>> ELSE Then(Y[c - 1], c - 1)]
    BY <1>3 DEF IsYielded
  <1> HIDE DEF Then, Y
  <1>5. Y[0] = <<>> /\ \A c \in 0..127 : Y[c + 1] = Then(Y[c], c)
    BY <1>4
  <1> QED
    BY <1>5 DEF Then, Y

-----------------------------------------------------------------------------
(* The invariant, for any map and any log.                                 *)

LowKeys == (Keys \cup 97..122) \ 65..90

\* Keys in lower case, each with at least one value.
MapOK(map) ==
    /\ map = [k \in DOMAIN map |-> map[k]]
    /\ DOMAIN map \subseteq LowKeys
    /\ \A k \in DOMAIN map : map[k] \in Seq(Values) /\ map[k] # <<>>

Ops ==
    [op : {"insert", "append"}, key : Keys, value : Values]
        \cup [op : {"remove"}, key : Keys]
        \cup [op : {"clear"}]

\* What a stored key holds, before any lookup.
Holds(map, ops, k) == Held(ValuesAt(map, k), Added(ops, k), ops)

AllHold(map, ops) == \A k \in LowKeys : Holds(map, ops, k)

MapInv == MapOK(data) /\ log \in Seq(Ops) /\ AllHold(data, log)

\* normalize is the lower case that the properties speak of.
LEMMA NormalKey ==
    ASSUME NEW key \in Keys
    PROVE  Normalize(key) \in LowKeys /\ Lower[key] = Normalize(key)
  <1>1. key \in Nat
    BY MetadataAssumption
  <1>2. (\E c \in 0..25 : key = 65 + c) <=> key \in 65..90
    <2>1. key \in 65..90 => key - 65 \in 0..25 /\ key = 65 + (key - 65)
      BY <1>1
    <2> QED
      BY <1>1, <2>1
  <1>3. Lower[key] = IF \E c \in 0..25 : key = 65 + c THEN key + 32 ELSE key
    BY DEF Lower
  <1> QED
    BY <1>1, <1>2, <1>3 DEF Normalize, LowKeys

LEMMA LowIsNormal ==
    ASSUME NEW k \in LowKeys
    PROVE  k \in 0..127 /\ Normalize(k) = k
BY MetadataAssumption DEF LowKeys, Normalize

LEMMA AddedAppend ==
    ASSUME NEW ops \in Seq(Ops), NEW e \in Ops, NEW k
    PROVE  Added(Append(ops, e), k) =
               (IF Resets(e, k) THEN {} ELSE Added(ops, k))
                   \cup (IF Adds(e, k) THEN {Len(ops) + 1} ELSE {})
  <1> DEFINE n == Len(ops)
             more == Append(ops, e)
             R(o) == Resets(o, k)
             A(o) == Adds(o, k)
             Old == {i \in 1..n : A(ops[i]) /\ \A j \in 1..n : R(ops[j]) => j <= i}
             New == {i \in 1..n + 1 : A(more[i]) /\ \A j \in 1..n + 1 : R(more[j]) => j <= i}
  <1>1. /\ n \in Nat /\ DOMAIN ops = 1..n /\ DOMAIN more = 1..n + 1 /\ more[n + 1] = e
        /\ \A i \in 1..n : more[i] = ops[i]
    OBVIOUS
  <1>2. Added(ops, k) = Old /\ Added(more, k) = New
    BY <1>1 DEF Added
  <1> HIDE DEF n, more, R, A
  <1>3. New = (IF R(e) THEN {} ELSE Old) \cup (IF A(e) THEN {n + 1} ELSE {})
    <2>1. n + 1 \in New <=> A(e)
      BY <1>1
    <2>2. ASSUME NEW i \in 1..n PROVE i \in New <=> i \in Old /\ ~R(e)
      <3>1. i \in New => ~R(e)
        BY <1>1
      <3>2. i \in New => i \in Old
        BY <1>1
      <3>3. i \in Old /\ ~R(e) => i \in New
        BY <1>1
      <3> QED
        BY <3>1, <3>2, <3>3
    <2>3. New \subseteq 1..n + 1 /\ Old \subseteq 1..n
      OBVIOUS
    <2>4. \A i \in 1..n + 1 : i \in 1..n \/ i = n + 1
      BY <1>1
    <2>5. n + 1 \notin Old
      BY <1>1
    <2> HIDE DEF New, Old
    <2> QED
      BY <2>1, <2>2, <2>3, <2>4, <2>5
  <1> QED
    BY <1>2, <1>3 DEF n, more, R, A

LEMMA HeldAppend ==
    ASSUME NEW ops \in Seq(Ops), NEW e \in Ops, NEW values \in Seq(Values),
           NEW added \in SUBSET (1..Len(ops)), Held(values, added, ops)
    PROVE  /\ Held(values, added, Append(ops, e))
           /\ e.value \in Values =>
                  Held(Append(values, e.value), added \cup {Len(ops) + 1}, Append(ops, e))
  <1> DEFINE n == Len(ops)
             more == Append(ops, e)
             Rank(S, i) == {j \in S : j <= i}
  <1>1. /\ n \in Nat /\ more[n + 1] = e /\ \A i \in 1..n : more[i] = ops[i]
    OBVIOUS
  <1>2. added \subseteq 1..n /\ IsFiniteSet(added)
    <2>1. IsFiniteSet(1..n)
      BY <1>1, FS_Interval
    <2> QED
      BY <2>1, FS_Subset
  <1> HIDE DEF n, more
  <1>3. /\ Len(values) = Cardinality(added)
        /\ \A i \in added : values[Cardinality(Rank(added, i))] = ops[i].value
    BY DEF Held
  <1>4. Held(values, added, more)
    BY <1>1, <1>2, <1>3 DEF Held
  <1>5. ASSUME e.value \in Values PROVE Held(Append(values, e.value), added \cup {n + 1}, more)
    <2> DEFINE longer == Append(values, e.value)
               all == added \cup {n + 1}
    <2>1. n + 1 \notin added
      BY <1>1, <1>2
    <2>2. Cardinality(all) = Cardinality(added) + 1 /\ Cardinality(added) \in Nat
      BY <1>2, <2>1, FS_AddElement, FS_CardinalityType
    <2>3. /\ Len(longer) = Len(values) + 1 /\ longer[Len(values) + 1] = e.value
          /\ \A i \in 1..Len(values) : longer[i] = values[i]
      BY <1>5
    <2>4. ASSUME NEW i \in added PROVE longer[Cardinality(Rank(all, i))] = more[i].value
      <3>1. Rank(all, i) = Rank(added, i)
        BY <1>1, <1>2
      <3>2. Cardinality(Rank(added, i)) \in 1..Len(values)
        <4>1. Rank(added, i) \subseteq added
          OBVIOUS
        <4>2. i \in Rank(added, i)
          BY <1>1, <1>2
        <4>3. /\ IsFiniteSet(Rank(added, i))
              /\ Cardinality(Rank(added, i)) <= Cardinality(added)
          BY <1>2, <4>1, FS_Subset
        <4>4. Cardinality(Rank(added, i)) \in Nat /\ Cardinality(Rank(added, i)) # 0
          BY <4>2, <4>3, FS_CardinalityType, FS_EmptySet
        <4> QED
          BY <1>3, <2>2, <4>3, <4>4
      <3>3. more[i] = ops[i]
        BY <1>1, <1>2
      <3> QED
        BY <1>3, <2>3, <3>1, <3>2, <3>3
    <2>5. longer[Cardinality(Rank(all, n + 1))] = more[n + 1].value
      <3>1. \A j \in all : j <= n + 1
        BY <1>1, <1>2
      <3>2. Rank(all, n + 1) = all
        BY <3>1
      <3> QED
        BY <1>1, <1>3, <2>2, <2>3, <3>2
    <2>6. Len(longer) = Cardinality(all)
      BY <1>3, <2>2, <2>3
    <2>7. \A i \in all : longer[Cardinality(Rank(all, i))] = more[i].value
      BY <2>4, <2>5
    <2> HIDE DEF longer, all
    <2>8. Held(longer, all, more)
      BY <2>6, <2>7 DEF Held
    <2> QED
      BY <2>8 DEF longer, all
  <1> QED
    BY <1>4, <1>5 DEF n, more

\* What one operation does to the values of a key keeps the key what it should be.
LEMMA HoldsNext ==
    ASSUME NEW ops \in Seq(Ops), NEW e \in Ops, NEW k, NEW map, NEW map2,
           ValuesAt(map, k) \in Seq(Values), Holds(map, ops, k),
           Adds(e, k) => e.value \in Values,
           LET kept == IF Resets(e, k) THEN <<>> ELSE ValuesAt(map, k) IN
           ValuesAt(map2, k) = IF Adds(e, k) THEN Append(kept, e.value) ELSE kept
    PROVE  Holds(map2, Append(ops, e), k)
  <1> DEFINE kept == IF Resets(e, k) THEN <<>> ELSE ValuesAt(map, k)
             base == IF Resets(e, k) THEN {} ELSE Added(ops, k)
  <1>1. kept \in Seq(Values)
    OBVIOUS
  <1>2. base \in SUBSET (1..Len(ops))
    BY DEF Added
  <1>3. Held(kept, base, ops)
    <2>1. Held(<<>>, {}, ops)
      BY FS_EmptySet DEF Held
    <2>2. Held(ValuesAt(map, k), Added(ops, k), ops)
      BY DEF Holds, Held
    <2> QED
      BY <2>1, <2>2
  <1>4. Added(Append(ops, e), k) = IF Adds(e, k) THEN base \cup {Len(ops) + 1} ELSE base
    BY AddedAppend
  <1>5. ValuesAt(map2, k) = IF Adds(e, k) THEN Append(kept, e.value) ELSE kept
    OBVIOUS
  <1> HIDE DEF kept, base
  <1>6. Held(ValuesAt(map2, k), Added(Append(ops, e), k), Append(ops, e))
    BY <1>1, <1>2, <1>3, <1>4, <1>5, HeldAppend
  <1> QED
    BY <1>6 DEF Holds, Held

-----------------------------------------------------------------------------
(* The operations.                                                         *)

LEMMA ValuesAtWith ==
    ASSUME NEW map, NEW key, NEW values, NEW k
    PROVE  ValuesAt(With(map, key, values), k) = IF k = key THEN values ELSE ValuesAt(map, k)
BY DEF ValuesAt, With

LEMMA WithOK ==
    ASSUME NEW map, MapOK(map), NEW key \in LowKeys, NEW values \in Seq(Values), values # <<>>
    PROVE  MapOK(With(map, key, values))
BY DEF MapOK, With

LEMMA ValuesAtTyped ==
    ASSUME NEW map, MapOK(map), NEW k
    PROVE  ValuesAt(map, k) \in Seq(Values)
BY DEF MapOK, ValuesAt

Applied(map, e) ==
    CASE e.op = "insert" -> With(map, Normalize(e.key), <<e.value>>)
      [] e.op = "append" -> Pushed(map, Normalize(e.key), e.value)
      [] e.op = "remove" -> Without(map, Normalize(e.key))
      [] e.op = "clear" -> NoData

LEMMA OpKinds ==
    ASSUME NEW e \in Ops
    PROVE  \/ e.op \in {"insert", "append"} /\ e.key \in Keys /\ e.value \in Values
           \/ e.op = "remove" /\ e.key \in Keys
           \/ e.op = "clear"
BY DEF Ops

LEMMA AppliedOK ==
    ASSUME NEW map, NEW ops \in Seq(Ops), NEW e \in Ops, MapOK(map), AllHold(map, ops)
    PROVE  MapOK(Applied(map, e)) /\ AllHold(Applied(map, e), Append(ops, e))
  <1> DEFINE map2 == Applied(map, e)
             key == Normalize(e.key)
  <1>1. ASSUME MapOK(map2),
               \A k \in LowKeys :
                   LET kept == IF Resets(e, k) THEN <<>> ELSE ValuesAt(map, k) IN
                   /\ Adds(e, k) => e.value \in Values
                   /\ ValuesAt(map2, k) = IF Adds(e, k) THEN Append(kept, e.value) ELSE kept
        PROVE  MapOK(map2) /\ AllHold(map2, Append(ops, e))
    <2> HIDE DEF map2
    <2> SUFFICES ASSUME NEW k \in LowKeys PROVE Holds(map2, Append(ops, e), k)
      BY <1>1 DEF AllHold
    <2>1. ValuesAt(map, k) \in Seq(Values) /\ Holds(map, ops, k)
      BY ValuesAtTyped DEF AllHold
    <2> QED
      BY <1>1, <2>1, HoldsNext
  <1>2. ASSUME e.key \in Keys PROVE key \in LowKeys /\ \A k : Lower[e.key] = k <=> key = k
    BY <1>2, NormalKey
  <1>3. CASE e.op = "insert"
    <2>1. e.key \in Keys /\ e.value \in Values
      BY <1>3, OpKinds
    <2>2. map2 = With(map, key, <<e.value>>) /\ <<e.value>> \in Seq(Values) /\ <<e.value>> # <<>>
      BY <1>3, <2>1 DEF Applied
    <2>3. \A k : (Resets(e, k) <=> key = k) /\ (Adds(e, k) <=> key = k)
      BY <1>2, <1>3, <2>1 DEF Resets, Adds
    <2>4. MapOK(map2)
      BY <1>2, <2>1, <2>2, WithOK
    <2>5. \A k : ValuesAt(map2, k) = IF k = key THEN <<e.value>> ELSE ValuesAt(map, k)
      BY <2>2, ValuesAtWith
    <2>6. Append(<<>>, e.value) = <<e.value>>
      OBVIOUS
    <2> HIDE DEF map2, key
    <2> QED
      BY <1>1, <2>1, <2>3, <2>4, <2>5, <2>6 DEF map2
  <1>4. CASE e.op = "append"
    <2>1. e.key \in Keys /\ e.value \in Values
      BY <1>4, OpKinds
    <2>2. map2 = With(map, key, Append(ValuesAt(map, key), e.value))
      BY <1>4 DEF Applied, Pushed
    <2>3. \A k : ~Resets(e, k) /\ (Adds(e, k) <=> key = k)
      BY <1>2, <1>4, <2>1 DEF Resets, Adds
    <2>4. /\ Append(ValuesAt(map, key), e.value) \in Seq(Values)
          /\ Append(ValuesAt(map, key), e.value) # <<>>
      BY <2>1, ValuesAtTyped
    <2>5. MapOK(map2)
      BY <1>2, <2>1, <2>2, <2>4, WithOK
    <2>6. \A k : ValuesAt(map2, k) = IF k = key THEN Append(ValuesAt(map, key), e.value) ELSE ValuesAt(map, k)
      BY <2>2, ValuesAtWith
    <2> HIDE DEF map2, key
    <2> QED
      BY <1>1, <2>1, <2>3, <2>5, <2>6 DEF map2
  <1>5. CASE e.op = "remove"
    <2>1. e.key \in Keys
      BY <1>5, OpKinds
    <2>2. map2 = Without(map, key)
      BY <1>5 DEF Applied
    <2>3. \A k : (Resets(e, k) <=> key = k) /\ ~Adds(e, k)
      BY <1>2, <1>5, <2>1 DEF Resets, Adds
    <2>4. MapOK(map2)
      BY <2>2 DEF Without, MapOK
    <2>5. \A k : ValuesAt(map2, k) = IF k = key THEN <<>> ELSE ValuesAt(map, k)
      BY <2>2 DEF Without, ValuesAt
    <2> HIDE DEF map2, key
    <2> QED
      BY <1>1, <2>3, <2>4, <2>5 DEF map2
  <1>6. CASE e.op = "clear"
    <2>1. map2 = NoData
      BY <1>6 DEF Applied
    <2>2. \A k : Resets(e, k) /\ ~Adds(e, k)
      BY <1>6 DEF Resets, Adds
    <2>3. MapOK(map2) /\ \A k : ValuesAt(map2, k) = <<>>
      BY <2>1 DEF NoData, MapOK, ValuesAt
    <2> HIDE DEF map2, key
    <2> QED
      BY <1>1, <2>2, <2>3 DEF map2
  <1> QED
    BY <1>3, <1>4, <1>5, <1>6, OpKinds

LEMMA MapStep == MapInv /\ [Next]_vars => MapInv'
  <1> SUFFICES ASSUME MapInv, [Next]_vars PROVE MapInv'
    OBVIOUS
  <1>1. ASSUME NEW e \in Ops, data' = Applied(data, e), log' = Append(log, e) PROVE MapInv'
    <2>1. MapOK(data') /\ AllHold(data', log')
      BY <1>1, AppliedOK DEF MapInv
    <2>2. log' \in Seq(Ops)
      BY <1>1 DEF MapInv
    <2> QED
      BY <2>1, <2>2 DEF MapInv, MapOK, AllHold, Holds, Held, Added, Resets, Adds, Lower, ValuesAt
  <1>2. ASSUME NEW key \in Keys, NEW value \in Values, InsertValue(key, value) PROVE MapInv'
    <2> DEFINE e == [op |-> "insert", key |-> key, value |-> value]
    <2>1. e \in Ops
      BY DEF Ops
    <2>2. data' = Applied(data, e) /\ log' = Append(log, e)
      BY <1>2 DEF InsertValue, Applied, Log
    <2> QED
      BY <1>1, <2>1, <2>2
  <1>3. ASSUME NEW key \in Keys, NEW value \in Values, AppendValue(key, value) PROVE MapInv'
    <2> DEFINE e == [op |-> "append", key |-> key, value |-> value]
    <2>1. e \in Ops
      BY DEF Ops
    <2>2. data' = Applied(data, e) /\ log' = Append(log, e)
      BY <1>3 DEF AppendValue, Applied, Log
    <2> QED
      BY <1>1, <2>1, <2>2
  <1>4. ASSUME NEW key \in Keys, RemoveKey(key) PROVE MapInv'
    <2> DEFINE e == [op |-> "remove", key |-> key]
    <2>1. e \in Ops
      BY DEF Ops
    <2>2. data' = Applied(data, e) /\ log' = Append(log, e)
      BY <1>4 DEF RemoveKey, Applied, Log
    <2> QED
      BY <1>1, <2>1, <2>2
  <1>5. CASE Clear
    <2> DEFINE e == [op |-> "clear"]
    <2>1. e \in Ops
      BY DEF Ops
    <2>2. data' = Applied(data, e) /\ log' = Append(log, e)
      BY <1>5 DEF Clear, Applied, Log
    <2> QED
      BY <1>1, <2>1, <2>2
  <1>6. CASE UNCHANGED vars
    BY <1>6 DEF vars, MapInv
  <1> QED
    BY <1>2, <1>3, <1>4, <1>5, <1>6 DEF Next

-----------------------------------------------------------------------------
(* The headers a call begins with.                                         *)

Entries == [key : Keys, value : Values]

\* An entry of the packet is one append.
Appending(entry) == [op |-> "append", key |-> entry.key, value |-> entry.value]

LogOf(s) == [i \in DOMAIN s |-> Appending(s[i])]

LEMMA EmptyMap == MapOK(NoData) /\ AllHold(NoData, <<>>)
  <1>1. MapOK(NoData)
    BY DEF MapOK, NoData
  <1>2. ASSUME NEW k PROVE Holds(NoData, <<>>, k)
    <2>1. Added(<<>>, k) = {}
      BY DEF Added
    <2>2. ValuesAt(NoData, k) = <<>>
      BY DEF ValuesAt, NoData
    <2> QED
      BY <2>1, <2>2, FS_EmptySet DEF Holds, Held
  <1> QED
    BY <1>1, <1>2 DEF AllHold

LEMMA AppendIs ==
    ASSUME NEW T, NEW q \in Seq(T), NEW x \in T
    PROVE  Append(q, x) = [i \in 1..Len(q) + 1 |-> IF i = Len(q) + 1 THEN x ELSE q[i]]
  <1> DEFINE n == Len(q) + 1
             t == [i \in 1..n |-> IF i = n THEN x ELSE q[i]]
  <1>1. n \in Nat /\ \A i \in 1..n : t[i] \in T
    OBVIOUS
  <1>2. t \in Seq(T) /\ Len(t) = n
    BY <1>1
  <1>3. /\ Append(q, x) \in Seq(T) /\ Len(Append(q, x)) = n
        /\ \A i \in 1..n : Append(q, x)[i] = t[i]
    OBVIOUS
  <1> HIDE DEF t
  <1>4. Append(q, x) = t
    BY <1>2, <1>3, SeqEqual
  <1> QED
    BY <1>4 DEF t

LEMMA LogAppend ==
    ASSUME NEW s \in Seq(Entries), NEW e \in Entries, LogOf(s) \in Seq(Ops)
    PROVE  /\ LogOf(Append(s, e)) = Append(LogOf(s), Appending(e))
           /\ LogOf(Append(s, e)) \in Seq(Ops)
           /\ Appending(e) \in Ops
  <1> DEFINE n == Len(s)
             t == Append(s, e)
             L == LogOf(s)
             A(x) == Appending(x)
  <1>1. Appending(e) \in Ops
    BY DEF Appending, Ops, Entries
  <1>2. /\ n \in Nat /\ DOMAIN s = 1..n /\ DOMAIN t = 1..n + 1 /\ t[n + 1] = e
        /\ \A i \in 1..n : t[i] = s[i]
    OBVIOUS
  <1>3. L = [i \in 1..n |-> A(s[i])] /\ LogOf(t) = [i \in 1..n + 1 |-> A(t[i])]
    BY <1>2 DEF LogOf
  <1>0. L \in Seq(Ops)
    OBVIOUS
  <1> HIDE DEF t, A, L
  <1>4. Len(L) = n
    BY <1>2, <1>3
  <1>5. Append(L, A(e)) = [i \in 1..n + 1 |-> IF i = n + 1 THEN A(e) ELSE L[i]]
    <2>1. A(e) \in Ops
      BY <1>1 DEF A
    <2> QED
      BY <1>0, <1>4, <2>1, AppendIs
  <1>6. \A i \in 1..n + 1 : A(t[i]) = IF i = n + 1 THEN A(e) ELSE L[i]
    BY <1>2, <1>3
  <1>7. LogOf(t) = Append(L, A(e))
    BY <1>3, <1>5, <1>6
  <1>8. Append(L, A(e)) \in Seq(Ops)
    BY <1>1 DEF L, A
  <1> QED
    BY <1>1, <1>7, <1>8 DEF t, A, L

\* Whatever the packet says, the map it becomes is a good one, and holds just that.
LEMMA ReadOK ==
    ASSUME NEW entries \in Seq(Entries)
    PROVE  MapOK(Read(entries)) /\ LogOf(entries) \in Seq(Ops) /\ AllHold(Read(entries), LogOf(entries))
  <1> DEFINE OK(s) == MapOK(Read(s)) /\ LogOf(s) \in Seq(Ops) /\ AllHold(Read(s), LogOf(s))
             S == {n \in Nat : \A s \in Seq(Entries) : Len(s) = n => OK(s)}
  <1>1. 0 \in S
    <2>1. LogOf(<<>>) = <<>>
      BY DEF LogOf
    <2>2. <<>> \in Seq(Ops)
      OBVIOUS
    <2>3. OK(<<>>)
      BY <2>1, <2>2, ReadEmpty, EmptyMap
    <2>4. \A s \in Seq(Entries) : Len(s) = 0 => s = <<>>
      OBVIOUS
    <2> HIDE DEF OK
    <2> QED
      BY <2>3, <2>4
  <1>2. ASSUME NEW n \in Nat, n \in S PROVE n + 1 \in S
    <2> SUFFICES ASSUME NEW s \in Seq(Entries), Len(s) = n + 1 PROVE OK(s)
      OBVIOUS
    <2> DEFINE t == [i \in 1..n |-> s[i]]
               e == s[n + 1]
    <2>1. /\ t \in Seq(Entries) /\ Len(t) = n /\ e \in Entries /\ s = Append(t, e)
      OBVIOUS
    <2> HIDE DEF t, e
    <2>2. OK(t)
      BY <1>2, <2>1
    <2>3. /\ LogOf(s) = Append(LogOf(t), Appending(e))
          /\ LogOf(s) \in Seq(Ops) /\ Appending(e) \in Ops
      BY <2>1, <2>2, LogAppend
    <2>4. Read(s) = Turn(Read(t), e)
      BY <2>1, ReadAppend
    <2>5. Turn(Read(t), e) = Applied(Read(t), Appending(e))
      BY DEF Turn, Applied, Appending
    <2> QED
      BY <2>2, <2>3, <2>4, <2>5, AppliedOK
  <1> HIDE DEF S
  <1>3. Len(entries) \in S
    BY <1>1, <1>2, Induction
  <1> QED
    BY <1>3 DEF S

LEMMA CallStarts == CallInit => MapInv
  <1> SUFFICES ASSUME CallInit PROVE MapInv
    OBVIOUS
  <1>1. PICK entries \in Begins :
            /\ data = FromPacket([entries |-> entries])
            /\ log = [i \in DOMAIN entries |->
                         [op |-> "append", key |-> entries[i].key, value |-> entries[i].value]]
    BY DEF CallInit
  <1>2. data = Read(entries) /\ log = LogOf(entries)
    BY <1>1 DEF Read, LogOf, Appending
  <1>3. entries \in Seq(Entries)
    BY AttachmentsAssumption DEF Entries
  <1> QED
    BY <1>2, <1>3, ReadOK DEF MapInv

-----------------------------------------------------------------------------
(* There and back.                                                         *)

LEMMA WithWith ==
    ASSUME NEW map, NEW k, NEW a, NEW b
    PROVE  With(With(map, k, a), k, b) = With(map, k, b)
BY DEF With

\* The pairs of a key that was not there yet, read after others, make the key
\* again, with its values in order.
LEMMA ReadPairs ==
    ASSUME NEW map, MapOK(map), NEW k \in DOMAIN map,
           NEW s \in Seq([key : LowKeys, value : Values]), k \notin DOMAIN Read(s)
    PROVE  /\ s \o PairsOf(map, k) \in Seq([key : LowKeys, value : Values])
           /\ Read(s \o PairsOf(map, k)) = With(Read(s), k, map[k])
  <1> DEFINE E == [key : LowKeys, value : Values]
             v == map[k]
             n == Len(v)
             pair(j) == [key |-> k, value |-> v[j]]
             first(j) == [i \in 1..j |-> v[i]]
             P(j) == s \o [i \in 1..j |-> pair(i)]
             S == {j \in Nat : j \in 1..n => P(j) \in Seq(E) /\ Read(P(j)) = With(Read(s), k, first(j))}
  <1>0. s \in Seq(E)
    OBVIOUS
  <1>1. /\ k \in LowKeys /\ v \in Seq(Values) /\ n \in Nat /\ n # 0 /\ v = first(n)
        /\ \A j \in 1..n : v[j] \in Values
    BY DEF MapOK
  <1>2. PairsOf(map, k) = [i \in 1..n |-> pair(i)]
    BY <1>1 DEF PairsOf, ValuesAt
  <1>3. \A j \in 1..n : pair(j) \in E
    BY <1>1
  <1>4. Normalize(k) = k
    BY <1>1, LowIsNormal
  <1>5. \A j \in 1..n : Turn(Read(s), pair(j)) = With(Read(s), k, <<v[j]>>)
    <2>1. ValuesAt(Read(s), k) = <<>>
      BY DEF ValuesAt
    <2>2. \A x : Append(<<>>, x) = <<x>>
      OBVIOUS
    <2> QED
      BY <1>4, <2>1, <2>2 DEF Turn, Pushed
  <1>6. ASSUME NEW j \in 1..n, NEW values, NEW q, q = With(Read(s), k, values)
        PROVE  Turn(q, pair(j)) = With(Read(s), k, Append(values, v[j]))
    BY <1>4, <1>6, WithWith, ValuesAtWith DEF Turn, Pushed
  <1> HIDE DEF v, n
  <1>7. 0 \in S
    OBVIOUS
  <1>8. ASSUME NEW j \in Nat, j \in S PROVE j + 1 \in S
    <2> SUFFICES ASSUME j + 1 \in 1..n
                 PROVE  P(j + 1) \in Seq(E) /\ Read(P(j + 1)) = With(Read(s), k, first(j + 1))
      OBVIOUS
    <2>1. CASE j = 0
      <3>1. P(1) = Append(s, pair(1)) /\ first(1) = <<v[1]>>
        OBVIOUS
      <3>2. pair(1) \in E
        BY <1>3, <2>1
      <3> HIDE DEF P, first, pair, E
      <3>3. Append(s, pair(1)) \in Seq(E) /\ Read(Append(s, pair(1))) = Turn(Read(s), pair(1))
        BY <1>0, <3>2, ReadAppend
      <3>4. j + 1 = 1 /\ 1 \in 1..n
        BY <1>1, <2>1
      <3>5. Turn(Read(s), pair(1)) = With(Read(s), k, <<v[1]>>)
        BY <1>5, <3>4
      <3> QED
        BY <3>1, <3>3, <3>4, <3>5
    <2>2. CASE j # 0
      <3>1. j \in 1..n
        BY <1>1, <2>2
      <3>2. P(j) \in Seq(E) /\ Read(P(j)) = With(Read(s), k, first(j))
        BY <1>8, <3>1
      <3>3. pair(j + 1) \in E
        BY <1>3
      <3>4. first(j + 1) = Append(first(j), v[j + 1])
        OBVIOUS
      <3>5. P(j + 1) = Append(P(j), pair(j + 1))
        <4> HIDE DEF pair
        <4>1. [i \in 1..j + 1 |-> pair(i)] = Append([i \in 1..j |-> pair(i)], pair(j + 1))
          OBVIOUS
        <4> QED
          BY <4>1
      <3>6. Turn(Read(P(j)), pair(j + 1)) = With(Read(s), k, Append(first(j), v[j + 1]))
        BY <1>6, <3>2
      <3> HIDE DEF P, first, pair, E
      <3>7. /\ Append(P(j), pair(j + 1)) \in Seq(E)
            /\ Read(Append(P(j), pair(j + 1))) = Turn(Read(P(j)), pair(j + 1))
        BY <3>2, <3>3, ReadAppend
      <3> QED
        BY <3>4, <3>5, <3>6, <3>7
    <2> QED
      BY <2>1, <2>2
  <1> HIDE DEF S
  <1>9. n \in S
    BY <1>1, <1>7, <1>8, Induction
  <1>10. P(n) \in Seq(E) /\ Read(P(n)) = With(Read(s), k, first(n))
    BY <1>1, <1>9 DEF S
  <1> QED
    BY <1>1, <1>2, <1>10 DEF v

Below(map, c) == [q \in {q \in DOMAIN map : q < c} |-> map[q]]

\* A good map survives the wire.
LEMMA Survives ==
    ASSUME NEW map, MapOK(map)
    PROVE  FromPacket(ToPacket(map)) = map
  <1> DEFINE E == [key : LowKeys, value : Values]
             Y == Yielded(map)
             S == {c \in Nat : c <= 128 => Y[c] \in Seq(E) /\ Read(Y[c]) = Below(map, c)}
  <1>0. DOMAIN map \subseteq 0..127
    BY LowIsNormal DEF MapOK
  <1>1. Y[0] = <<>> /\ \A c \in 0..127 : Y[c + 1] = Y[c] \o PairsOf(map, c)
    BY YieldedIs
  <1> HIDE DEF Y
  <1>2. 0 \in S
    <2>1. Below(map, 0) = NoData
      <3>1. {q \in DOMAIN map : q < 0} = {}
        BY <1>0
      <3> QED
        BY <3>1 DEF Below, NoData
    <2> HIDE DEF E
    <2>2. <<>> \in Seq(E)
      OBVIOUS
    <2> QED
      BY <1>1, <2>1, <2>2, ReadEmpty
  <1>3. ASSUME NEW c \in Nat, c \in S PROVE c + 1 \in S
    <2> SUFFICES ASSUME c + 1 <= 128
                 PROVE  Y[c + 1] \in Seq(E) /\ Read(Y[c + 1]) = Below(map, c + 1)
      OBVIOUS
    <2>1. Y[c] \in Seq(E) /\ Read(Y[c]) = Below(map, c)
      BY <1>3
    <2>2. Y[c + 1] = Y[c] \o PairsOf(map, c)
      <3>1. c \in 0..127
        OBVIOUS
      <3> QED
        BY <1>1, <3>1
    <2>3. CASE c \in DOMAIN map
      <3>1. c \notin DOMAIN Read(Y[c])
        BY <2>1 DEF Below
      <3>2. /\ Y[c + 1] \in Seq(E)
            /\ Read(Y[c + 1]) = With(Below(map, c), c, map[c])
        BY <2>1, <2>2, <2>3, <3>1, ReadPairs
      <3>3. With(Below(map, c), c, map[c]) = Below(map, c + 1)
        <4>1. {q \in DOMAIN map : q < c} \cup {c} = {q \in DOMAIN map : q < c + 1}
          BY <1>0, <2>3
        <4> QED
          BY <4>1 DEF With, Below
      <3> QED
        BY <3>2, <3>3
    <2>4. CASE c \notin DOMAIN map
      <3>1. PairsOf(map, c) = <<>>
        BY <2>4 DEF PairsOf, ValuesAt
      <3>2. Y[c + 1] = Y[c]
        BY <2>1, <2>2, <3>1
      <3>3. {q \in DOMAIN map : q < c} = {q \in DOMAIN map : q < c + 1}
        BY <1>0, <2>4
      <3>4. Below(map, c) = Below(map, c + 1)
        BY <3>3 DEF Below
      <3> QED
        BY <2>1, <3>2, <3>4
    <2> QED
      BY <2>3, <2>4
  <1> HIDE DEF S
  <1>4. 128 \in S
    BY <1>2, <1>3, Induction
  <1>5. Read(Y[128]) = Below(map, 128)
    BY <1>4 DEF S
  <1>6. Below(map, 128) = map
    <2>1. {q \in DOMAIN map : q < 128} = DOMAIN map
      BY <1>0
    <2> QED
      BY <2>1 DEF Below, MapOK
  <1> QED
    BY <1>5, <1>6 DEF Read, ToPacket, IterFlat, Y

-----------------------------------------------------------------------------
(* The theorems: of a map that starts empty, as one made for a response    *)
(* does, and of the headers of a call.                                     *)

LEMMA MapInvariant == (Spec => []MapInv) /\ (CallSpec => []MapInv)
  <1>1. Init => MapInv
    BY EmptyMap DEF Init, MapInv
  <1>2. CallInit => MapInv
    BY CallStarts
  <1>3. MapInv /\ [Next]_vars => MapInv'
    BY MapStep
  <1>4. [CallNext]_attachments => [Next]_vars
    BY DEF CallNext, attachments, vars
  <1> QED
    BY <1>1, <1>2, <1>3, <1>4, PTL DEF Spec, CallSpec

\* Every stored key is in lower case, whatever case insert, append and remove were
\* called with and whatever case the peer sent its headers in.
THEOREM MetadataTypes == (Spec => []TypeOK) /\ (CallSpec => []TypeOK)
  <1>1. MapInv => TypeOK
    BY DEF MapInv, MapOK, TypeOK, LowKeys
  <1> QED
    BY <1>1, MapInvariant, PTL

\* Positions have a least one.
LEMMA LeastOf ==
    ASSUME NEW S, S \in SUBSET Nat, S # {}
    PROVE  \E i \in S : \A j \in S : i <= j
  <1> DEFINE R == {ss \in Nat \X Nat : ss[1] < ss[2]}
  <1>1. IsWellFoundedOn(R, Nat)
    BY NatLessThanWellFounded DEF OpToRel
  <1>2. PICK i \in S : \A j \in S : ~(<<j, i>> \in R)
    <2> HIDE DEF R
    <2> QED
      BY <1>1, WFMin
  <1>3. \A j \in S : ~(j < i)
    BY <1>2
  <1> QED
    BY <1>3

\* The first of the values is that of the least position.
LEMMA FirstIsLeast ==
    ASSUME NEW map, NEW key \in Keys, NEW ops \in Seq(Ops), MapOK(map),
           Held(GetAll(map, key), Added(ops, Lower[key]), ops)
    PROVE  GetFirst(map, key) =
               {ops[i].value : i \in {i \in Added(ops, Lower[key]) : \A j \in Added(ops, Lower[key]) : i <= j}}
  <1> DEFINE v == GetAll(map, key)
             A == Added(ops, Lower[key])
             Least == {i \in A : \A j \in A : i <= j}
  <1>1. v \in Seq(Values) /\ GetFirst(map, key) = {v[i] : i \in DOMAIN v \cap {1}}
    BY ValuesAtTyped DEF GetAll, GetFirst
  <1>2. Len(v) = Cardinality(A) /\ \A i \in A : v[Cardinality({j \in A : j <= i})] = ops[i].value
    BY DEF Held
  <1>3. A \subseteq 1..Len(ops) /\ IsFiniteSet(A)
    <2>1. A \subseteq 1..Len(ops) /\ IsFiniteSet(1..Len(ops))
      BY FS_Interval DEF Added
    <2> QED
      BY <2>1, FS_Subset
  <1>0. Len(ops) \in Nat
    OBVIOUS
  <1> HIDE DEF v, A
  <1>4. CASE A = {}
    <2>1. Len(v) = 0
      BY <1>2, <1>4, FS_EmptySet
    <2>2. {v[i] : i \in DOMAIN v \cap {1}} = {}
      BY <1>1, <2>1
    <2> QED
      BY <1>1, <1>4, <2>2 DEF A
  <1>5. CASE A # {}
    <2>0. A \in SUBSET Nat
      BY <1>0, <1>3
    <2>1. PICK i \in A : \A j \in A : i <= j
      <3> HIDE DEF Least
      <3> QED
        BY <1>5, <2>0, LeastOf
    <2>2. {j \in A : j <= i} = {i}
      <3>1. \A j \in A : j <= i => j = i
        BY <2>0, <2>1
      <3>2. i <= i
        BY <2>0
      <3> QED
        BY <3>1, <3>2
    <2>3. Cardinality({i}) = 1
      BY FS_Singleton
    <2>4. v[1] = ops[i].value
      BY <1>2, <2>1, <2>2, <2>3
    <2>5. Cardinality(A) \in Nat /\ Cardinality(A) # 0
      BY <1>3, <1>5, FS_CardinalityType, FS_EmptySet
    <2>6. DOMAIN v \cap {1} = {1}
      BY <1>1, <1>2, <2>5
    <2>7. Least = {i}
      <3>1. \A m \in A : (\A j \in A : m <= j) => m = i
        BY <2>0, <2>1
      <3> QED
        BY <2>1, <3>1
    <2>8. {v[n] : n \in {1}} = {ops[n].value : n \in {i}}
      BY <2>4
    <2>9. {v[n] : n \in DOMAIN v \cap {1}} = {ops[n].value : n \in Least}
      BY <2>6, <2>7, <2>8
    <2> QED
      BY <1>1, <2>9 DEF A
  <1> QED
    BY <1>4, <1>5

\* A key looked up in any case gives, in order, what was added to it in any case
\* since it was last reset, and first the earliest of it: the headers of the Begin,
\* then what middleware did, for any headers and any number of operations.
THEOREM MetadataHolds == (Spec => []HoldsWhatWasAdded) /\ (CallSpec => []HoldsWhatWasAdded)
  <1>1. MapInv => HoldsWhatWasAdded
    <2> SUFFICES ASSUME MapInv, NEW key \in Keys
                 PROVE  /\ Held(GetAll(data, key), Added(log, Lower[key]), log)
                        /\ GetFirst(data, key) = {log[i].value :
                              i \in {i \in Added(log, Lower[key]) : \A j \in Added(log, Lower[key]) : i <= j}}
      BY DEF HoldsWhatWasAdded
    <2>1. Normalize(key) \in LowKeys /\ Lower[key] = Normalize(key)
      BY NormalKey
    <2>2. Held(ValuesAt(data, Normalize(key)), Added(log, Normalize(key)), log)
      BY <2>1 DEF MapInv, AllHold, Holds
    <2>3. Held(GetAll(data, key), Added(log, Lower[key]), log)
      BY <2>1, <2>2 DEF GetAll
    <2> QED
      BY <2>3, FirstIsLeast DEF MapInv
  <1> QED
    BY <1>1, MapInvariant, PTL

\* Whatever has been done to it, the map comes over the wire as it was: no key is
\* ever without a value, so that none is lost, and none is in upper case, so that no
\* two become one.
THEOREM MetadataSurvives == (Spec => []RoundTrip) /\ (CallSpec => []RoundTrip)
  <1>1. MapInv => RoundTrip
    BY Survives DEF MapInv, RoundTrip
  <1> QED
    BY <1>1, MapInvariant, PTL

\* What middleware does to the headers in between never shows in the extensions:
\* those of a call are still one register per type.
THEOREM CallExtensions == CallSpec => RegisterPerType
  <1>1. CallInit => Registers!Init /\ ExtTypeOK
    BY DEF CallInit, ExtInit, NoExt, Stored, ExtTypeOK, Registers!Init
  <1>2. [CallNext]_attachments => [ExtNext]_extVars
    BY DEF CallNext, attachments, extVars
  <1>3. ExtTypeOK /\ [ExtNext]_extVars => ExtTypeOK'
    BY BoxesStayKeyed
  <1>4. ExtTypeOK /\ ExtTypeOK' /\ [ExtNext]_extVars => [Registers!Next]_(Registers!vars)
    BY RegisterStep
  <1> QED
    BY <1>1, <1>2, <1>3, <1>4, PTL DEF CallSpec, RegisterPerType, Registers!Spec
=============================================================================
