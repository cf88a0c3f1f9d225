---------------------------- MODULE ResultsRunProofs ----------------------------
(***************************************************************************)
(* Theorems about the results of runs, for any workers, nodes and events.    *)
(***************************************************************************)
EXTENDS ResultsRun, FoldTheorems, TLAPS

-------------------------------------------------------------------------------
(* Dictionaries.                                                              *)

\* What a step or an error may be called.
Name == STRING \cup {OtherErrors, OtherSteps}

Entries(V) == [key : Name, value : V]

\* Every key has one place.
Dict(d, V) ==
  /\ d \in Seq(Entries(V))
  /\ \A i, j \in DOMAIN d : d[i].key = d[j].key => i = j

LEMMA EntryOfIndex ==
  ASSUME NEW V, NEW d, Dict(d, V), NEW i \in DOMAIN d, NEW none
  PROVE  /\ Entry(d, d[i].key) = i /\ d[i].key \in Keys(d) /\ d[i].key \in Name
         /\ ValueAt(d, d[i].key, none) = d[i].value /\ d[i].value \in V
<1>1. d[i].key \in Keys(d)
  BY DEF Keys
<1>2. Entry(d, d[i].key) = i
  BY DEF Dict, Entry
<1>3. d[i] \in Entries(V)
  BY DEF Dict
<1>4. QED
  BY <1>1, <1>2, <1>3 DEF ValueAt, Entries

LEMMA EntryOfKey ==
  ASSUME NEW V, NEW d, Dict(d, V), NEW k \in Keys(d), NEW none
  PROVE  /\ Entry(d, k) \in DOMAIN d /\ d[Entry(d, k)].key = k
         /\ ValueAt(d, k, none) = d[Entry(d, k)].value /\ ValueAt(d, k, none) \in V
<1>1. PICK i \in DOMAIN d : d[i].key = k
  BY DEF Keys
<1>2. QED
  BY <1>1, EntryOfIndex DEF ValueAt

\* Where a stored value is: in the place of its key, or at the end.
LEMMA StoredInPlace ==
  ASSUME NEW V, NEW d, Dict(d, V), NEW k \in Keys(d), NEW v \in V
  PROVE  /\ DOMAIN Stored(d, k, v) = DOMAIN d /\ Len(Stored(d, k, v)) = Len(d)
         /\ \A i \in DOMAIN d : Stored(d, k, v)[i] = IF i = Entry(d, k) THEN [key |-> k, value |-> v] ELSE d[i]
         /\ Stored(d, k, v) \in Seq(Entries(V))
<1> DEFINE e == Entry(d, k)
<1>1. e \in DOMAIN d /\ d[e].key = k
  BY EntryOfKey
<1>2. Stored(d, k, v) = [d EXCEPT ![e].value = v]
  BY DEF Stored
<1>3. d \in Seq(Entries(V)) /\ d[e] \in Entries(V)
  BY <1>1 DEF Dict
<1>4. [d[e] EXCEPT !.value = v] = [key |-> k, value |-> v] /\ [key |-> k, value |-> v] \in Entries(V)
  BY <1>1, <1>3 DEF Entries
<1> HIDE DEF e
<1>5. Stored(d, k, v) = [d EXCEPT ![e] = [key |-> k, value |-> v]]
  BY <1>2, <1>4
<1>6. Stored(d, k, v) \in Seq(Entries(V)) /\ DOMAIN Stored(d, k, v) = DOMAIN d /\ Len(Stored(d, k, v)) = Len(d)
  BY <1>1, <1>3, <1>4, <1>5
<1>7. \A i \in DOMAIN d : Stored(d, k, v)[i] = IF i = e THEN [key |-> k, value |-> v] ELSE d[i]
  BY <1>5
<1>8. QED
  BY <1>6, <1>7 DEF e

\* T is d with e behind it.
Longer(T, d, e) ==
  /\ DOMAIN T = DOMAIN d \cup {Len(d) + 1} /\ Len(T) = Len(d) + 1
  /\ \A i \in DOMAIN d : T[i] = d[i]
  /\ T[Len(d) + 1] = e

LEMMA StoredAtEnd ==
  ASSUME NEW V, NEW d, Dict(d, V), NEW k \in Name, k \notin Keys(d), NEW v \in V
  PROVE  Longer(Stored(d, k, v), d, [key |-> k, value |-> v]) /\ Stored(d, k, v) \in Seq(Entries(V))
<1> DEFINE x == [key |-> k, value |-> v]
<1>1. Stored(d, k, v) = Append(d, x)
  BY DEF Stored
<1>2. d \in Seq(Entries(V)) /\ x \in Entries(V)
  BY DEF Dict, Entries
<1> HIDE DEF x
<1>3. Append(d, x) \in Seq(Entries(V)) /\ Longer(Append(d, x), d, x)
  BY <1>2 DEF Longer
<1>4. QED
  BY <1>1, <1>3 DEF x

LEMMA StoredIsDict ==
  ASSUME NEW V, NEW d, Dict(d, V), NEW k \in Name, NEW v \in V
  PROVE  /\ Dict(Stored(d, k, v), V) /\ Keys(Stored(d, k, v)) = Keys(d) \cup {k}
         /\ \A j, none : ValueAt(Stored(d, k, v), j, none) = IF j = k THEN v ELSE ValueAt(d, j, none)
<1> DEFINE T == Stored(d, k, v)
<1>2. CASE k \in Keys(d)
  <2>1. /\ DOMAIN T = DOMAIN d /\ T \in Seq(Entries(V))
        /\ \A i \in DOMAIN d : T[i] = IF i = Entry(d, k) THEN [key |-> k, value |-> v] ELSE d[i]
    BY <1>2, StoredInPlace
  <2>2. Entry(d, k) \in DOMAIN d /\ d[Entry(d, k)].key = k
    BY <1>2, EntryOfKey
  <2> HIDE DEF T
  <2>3. \A i \in DOMAIN d : T[i].key = d[i].key
    BY <2>1, <2>2
  <2>4. Keys(T) = Keys(d)
    BY <2>1, <2>3 DEF Keys
  <2>5. Dict(T, V)
    BY <2>1, <2>3 DEF Dict
  <2>6. ASSUME NEW j, NEW none PROVE ValueAt(T, j, none) = IF j = k THEN v ELSE ValueAt(d, j, none)
    <3>1. CASE j \notin Keys(d)
      BY <1>2, <2>4, <3>1 DEF ValueAt
    <3>2. CASE j \in Keys(d)
      <4>1. PICK i \in DOMAIN d : d[i].key = j
        BY <3>2 DEF Keys
      <4>2. ValueAt(T, j, none) = T[i].value /\ ValueAt(d, j, none) = d[i].value
        BY <2>1, <2>3, <2>5, <4>1, EntryOfIndex
      <4>3. j = k <=> i = Entry(d, k)
        BY <2>2, <4>1, EntryOfIndex
      <4>4. QED
        BY <2>1, <4>1, <4>2, <4>3
    <3>3. QED
      BY <3>1, <3>2
  <2>7. QED
    BY <1>2, <2>4, <2>5, <2>6 DEF T
<1>3. CASE k \notin Keys(d)
  <2>1. /\ DOMAIN T = DOMAIN d \cup {Len(d) + 1}
        /\ \A i \in DOMAIN d : T[i] = d[i]
        /\ T[Len(d) + 1] = [key |-> k, value |-> v]
        /\ T \in Seq(Entries(V))
    <3>1. Longer(T, d, [key |-> k, value |-> v]) /\ T \in Seq(Entries(V))
      BY <1>3, StoredAtEnd
    <3> HIDE DEF T
    <3>2. QED
      BY <3>1 DEF Longer
  <2>2. \A i \in DOMAIN d : d[i].key # k
    BY <1>3 DEF Keys
  <2> HIDE DEF T
  <2>3. Keys(T) = Keys(d) \cup {k}
    BY <2>1 DEF Keys
  <2>4. Dict(T, V)
    BY <2>1, <2>2 DEF Dict
  <2>5. ASSUME NEW j, NEW none PROVE ValueAt(T, j, none) = IF j = k THEN v ELSE ValueAt(d, j, none)
    <3>1. CASE j \notin Keys(T)
      BY <2>3, <3>1 DEF ValueAt
    <3>2. CASE j = k
      <4>1. ValueAt(T, T[Len(d) + 1].key, none) = T[Len(d) + 1].value
        BY <2>1, <2>4, EntryOfIndex
      <4>2. QED
        BY <2>1, <3>2, <4>1
    <3>3. CASE j \in Keys(d) /\ j # k
      <4>1. PICK i \in DOMAIN d : d[i].key = j
        BY <3>3 DEF Keys
      <4>2. ValueAt(T, j, none) = T[i].value /\ ValueAt(d, j, none) = d[i].value
        BY <2>1, <2>4, <4>1, EntryOfIndex
      <4>3. QED
        BY <2>1, <3>3, <4>2
    <3>4. QED
      BY <2>3, <3>1, <3>2, <3>3
  <2>6. QED
    BY <2>3, <2>4, <2>5 DEF T
<1>4. QED
  BY <1>2, <1>3

LEMMA NothingIsDict ==
  ASSUME NEW V
  PROVE  Dict(<<>>, V) /\ Keys(<<>>) = {} /\ SumValues(<<>>) = 0 /\ \A k, none : ValueAt(<<>>, k, none) = none
<1>1. Keys(<<>>) = {}
  BY DEF Keys
<1>2. SumValues(<<>>) = 0
  BY SumOfNothing DEF SumValues, SumOf
<1>3. Dict(<<>>, V)
  BY DEF Dict
<1>4. QED
  BY <1>1, <1>2, <1>3 DEF ValueAt

\* The sum of the values of a dictionary of numbers.
Numbers(d) == [i \in DOMAIN d |-> d[i].value]

LEMMA SumOfNumbers ==
  ASSUME NEW d, Dict(d, Nat)
  PROVE  /\ SumValues(d) = SumFunctionOnSet(Numbers(d), DOMAIN d) /\ SumValues(d) \in Nat
         /\ IsFiniteSet(DOMAIN d) /\ \A i \in DOMAIN d : Numbers(d)[i] = d[i].value /\ Numbers(d)[i] \in Nat
<1>1. SumValues(d) = SumFunctionOnSet(Numbers(d), DOMAIN d)
  BY DEF SumValues, SumOf, Numbers
<1>2. DOMAIN d = 1..Len(d) /\ Len(d) \in Nat
  BY DEF Dict
<1>3. IsFiniteSet(DOMAIN d)
  BY <1>2, FS_Interval
<1>4. \A i \in DOMAIN d : Numbers(d)[i] = d[i].value /\ Numbers(d)[i] \in Nat
  BY EntryOfIndex DEF Numbers
<1>5. SumFunctionOnSet(Numbers(d), DOMAIN d) \in Nat
  BY <1>3, <1>4, SumIsNatural
<1>6. QED
  BY <1>1, <1>3, <1>4, <1>5

LEMMA StoredSum ==
  ASSUME NEW d, Dict(d, Nat), NEW k \in Name, NEW n \in Nat
  PROVE  SumValues(Stored(d, k, ValueAt(d, k, 0) + n)) = SumValues(d) + n /\ ValueAt(d, k, 0) \in Nat
<1> DEFINE v == ValueAt(d, k, 0) + n
           T == Stored(d, k, v)
<1>1. ValueAt(d, k, 0) \in Nat /\ v \in Nat
  BY EntryOfKey DEF ValueAt
<1> HIDE DEF v
<1>2. Dict(T, Nat)
  BY <1>1, StoredIsDict
<1>3. CASE k \in Keys(d)
  <2> DEFINE e == Entry(d, k)
             rest == DOMAIN d \ {e}
  <2>1. e \in DOMAIN d /\ d[e].value = ValueAt(d, k, 0)
    BY <1>3, EntryOfKey
  <2>2. DOMAIN T = DOMAIN d /\ \A i \in DOMAIN d : T[i] = IF i = e THEN [key |-> k, value |-> v] ELSE d[i]
    BY <1>1, <1>3, StoredInPlace
  <2> HIDE DEF e, T
  <2>3. SumValues(d) = Numbers(d)[e] + SumFunctionOnSet(Numbers(d), rest)
    <3>1. SumValues(d) = SumFunctionOnSet(Numbers(d), DOMAIN d) /\ IsFiniteSet(DOMAIN d)
      BY SumOfNumbers
    <3>2. \A i \in DOMAIN d : Numbers(d)[i] \in Int
      BY SumOfNumbers
    <3>3. QED
      BY <2>1, <3>1, <3>2, SumRemovesElement
  <2>4. SumValues(T) = Numbers(T)[e] + SumFunctionOnSet(Numbers(T), rest)
    <3>1. SumValues(T) = SumFunctionOnSet(Numbers(T), DOMAIN d)
      BY <1>2, <2>2, SumOfNumbers
    <3>2. IsFiniteSet(DOMAIN d)
      BY SumOfNumbers
    <3>3. \A i \in DOMAIN d : Numbers(T)[i] \in Int
      BY <1>2, <2>2, SumOfNumbers
    <3>4. QED
      BY <2>1, <3>1, <3>2, <3>3, SumRemovesElement
  <2>5. \A i \in rest : Numbers(T)[i] = Numbers(d)[i]
    BY <2>2 DEF Numbers
  <2>6. IsFiniteSet(rest)
    BY SumOfNumbers, FS_RemoveElement
  <2>7. SumFunctionOnSet(Numbers(T), rest) = SumFunctionOnSet(Numbers(d), rest)
    BY <2>5, <2>6, SumIsExtensional
  <2>8. SumFunctionOnSet(Numbers(d), rest) \in Nat
    BY <2>6, SumOfNumbers, SumIsNatural
  <2>9. Numbers(d)[e] = ValueAt(d, k, 0) /\ Numbers(T)[e] = v
    BY <2>1, <2>2 DEF Numbers
  <2>10. v = ValueAt(d, k, 0) + n
    BY DEF v
  <2>11. SumValues(T) = SumValues(d) + n
    <3> DEFINE s == SumFunctionOnSet(Numbers(d), rest)
               was == ValueAt(d, k, 0)
    <3>1. SumValues(d) = was + s /\ SumValues(T) = v + s /\ s \in Nat /\ was \in Nat /\ v = was + n
      BY <1>1, <2>3, <2>4, <2>7, <2>8, <2>9, <2>10
    <3> HIDE DEF s, was
    <3>2. QED
      BY <3>1
  <2>12. QED
    BY <1>1, <2>11 DEF T, v
<1>4. CASE k \notin Keys(d)
  <2> DEFINE e == Len(d) + 1
  <2>1. Longer(T, d, [key |-> k, value |-> v])
    BY <1>1, <1>4, StoredAtEnd
  <2>2. DOMAIN d = 1..Len(d) /\ Len(d) \in Nat
    BY DEF Dict
  <2>3. e \notin DOMAIN d
    BY <2>2
  <2> HIDE DEF T
  <2>4. DOMAIN T = DOMAIN d \cup {e} /\ T[e].value = v /\ \A i \in DOMAIN d : T[i] = d[i]
    BY <2>1 DEF Longer
  <2> HIDE DEF e
  <2>5. SumValues(T) = Numbers(T)[e] + SumFunctionOnSet(Numbers(T), DOMAIN d)
    <3>1. e \in DOMAIN T /\ DOMAIN T \ {e} = DOMAIN d
      BY <2>3, <2>4
    <3>2. QED
      BY <1>2, <3>1, SumOfNumbers, SumRemovesElement
  <2>6. \A i \in DOMAIN d : Numbers(T)[i] = Numbers(d)[i]
    BY <2>4 DEF Numbers
  <2>7. SumFunctionOnSet(Numbers(T), DOMAIN d) = SumFunctionOnSet(Numbers(d), DOMAIN d)
    BY <2>6, SumOfNumbers, SumIsExtensional
  <2>8. Numbers(T)[e] = v
    BY <2>4 DEF Numbers
  <2>9. v = n
    BY <1>4 DEF v, ValueAt
  <2>10. QED
    BY <1>1, <2>5, <2>7, <2>8, <2>9, SumOfNumbers DEF T, v
<1>5. QED
  BY <1>3, <1>4

-------------------------------------------------------------------------------
(* The capped dictionary of error types.                                      *)

\* The rest is the last entry, behind as many as there is room for.
Capped(d) ==
  /\ Dict(d, Nat)
  /\ \A i \in DOMAIN d : d[i].key = OtherErrors => i = MaxTypes + 1
  /\ Len(d) <= MaxTypes + 1
  /\ OtherErrors \notin Keys(d) => Len(d) <= MaxTypes

\* T counts n more of k than d.
CountsMore(T, d, k, n) ==
  /\ Capped(T) /\ SumValues(T) = SumValues(d) + n
  /\ \A j \in Name \ {OtherErrors} : ValueAt(T, j, 0) <= ValueAt(d, j, 0) + IF j = k THEN n ELSE 0
  /\ OtherErrors \notin Keys(T) =>
       /\ OtherErrors \notin Keys(d) /\ k # OtherErrors /\ Keys(T) = Keys(d) \cup {k}
       /\ \A j \in Name : ValueAt(T, j, 0) = ValueAt(d, j, 0) + IF j = k THEN n ELSE 0

LEMMA ValueIsNat ==
  ASSUME NEW d, Dict(d, Nat), NEW k
  PROVE  ValueAt(d, k, 0) \in Nat
<1>1. CASE k \in Keys(d)
  BY <1>1, EntryOfKey
<1>2. CASE k \notin Keys(d)
  BY <1>2 DEF ValueAt
<1>3. QED
  BY <1>1, <1>2

LEMMA StoredIsCapped ==
  ASSUME NEW d, Capped(d), NEW k \in Name, NEW v \in Nat,
         k \notin Keys(d) => IF k = OtherErrors THEN Len(d) = MaxTypes ELSE Len(d) < MaxTypes
  PROVE  Capped(Stored(d, k, v))
<1> DEFINE T == Stored(d, k, v)
<1>0. Len(d) \in Nat /\ DOMAIN d = 1..Len(d) /\ MaxTypes \in Nat
  BY StatisticsAssumption DEF Capped, Dict
<1>1. Dict(d, Nat)
  BY DEF Capped
<1>2. Dict(T, Nat) /\ Keys(T) = Keys(d) \cup {k}
  BY <1>1, StoredIsDict
<1>3. CASE k \in Keys(d)
  <2>1. /\ DOMAIN T = DOMAIN d /\ Len(T) = Len(d)
        /\ \A i \in DOMAIN d : T[i] = IF i = Entry(d, k) THEN [key |-> k, value |-> v] ELSE d[i]
    BY <1>1, <1>3, StoredInPlace
  <2>2. Entry(d, k) \in DOMAIN d /\ d[Entry(d, k)].key = k
    BY <1>1, <1>3, EntryOfKey
  <2> HIDE DEF T
  <2>3. \A i \in DOMAIN d : T[i].key = d[i].key
    BY <2>1, <2>2
  <2>4. QED
    BY <1>2, <1>3, <2>1, <2>3 DEF Capped, T
<1>4. CASE k \notin Keys(d)
  <2>1. Longer(T, d, [key |-> k, value |-> v])
    BY <1>1, <1>4, StoredAtEnd
  <2> HIDE DEF T
  <2>2. DOMAIN T = DOMAIN d \cup {Len(d) + 1} /\ Len(T) = Len(d) + 1 /\ T[Len(d) + 1].key = k /\ \A i \in DOMAIN d : T[i] = d[i]
    BY <2>1 DEF Longer
  <2>3. CASE k = OtherErrors
    <3>1. Len(d) = MaxTypes
      BY <1>4, <2>3
    <3>2. Len(T) <= MaxTypes + 1 /\ OtherErrors \in Keys(T)
      BY <1>0, <1>2, <2>2, <2>3, <3>1
    <3>3. \A i \in DOMAIN T : T[i].key = OtherErrors => i = MaxTypes + 1
      BY <2>2, <3>1 DEF Capped
    <3>4. QED
      BY <1>2, <3>2, <3>3 DEF Capped, T
  <2>4. CASE k # OtherErrors
    <3>1. Len(d) < MaxTypes
      BY <1>4, <2>4
    <3>2. Len(T) <= MaxTypes
      <4> DEFINE m == Len(d)
      <4>1. Len(T) = m + 1 /\ m \in Nat /\ m < MaxTypes /\ MaxTypes \in Nat
        BY <1>0, <2>2, <3>1
      <4> HIDE DEF m
      <4>2. QED
        BY <4>1
    <3>3. \A i \in DOMAIN T : T[i].key = OtherErrors => i = MaxTypes + 1
      BY <2>2, <2>4 DEF Capped
    <3>4. Len(T) \in Nat /\ Len(T) <= MaxTypes + 1
      BY <1>0, <2>2, <3>2
    <3>5. QED
      BY <1>2, <3>2, <3>3, <3>4 DEF Capped, T
  <2>5. QED
    BY <2>3, <2>4
<1>5. QED
  BY <1>3, <1>4

LEMMA CountedStep ==
  ASSUME NEW d, Capped(d), NEW k \in Name, NEW n \in Nat,
         k = OtherErrors => OtherErrors \in Keys(d) \/ Len(d) = MaxTypes
  PROVE  CountsMore(Counted(d, k, n), d, k, n)
<1> DEFINE slot == Slot(d, k, MaxTypes, OtherErrors)
           v == ValueAt(d, slot, 0) + n
           T == Stored(d, slot, v)
<1>1. Counted(d, k, n) = T
  BY DEF Counted
<1>0. Len(d) \in Nat /\ MaxTypes \in Nat
  BY StatisticsAssumption DEF Capped, Dict
<1>2. Dict(d, Nat)
  BY DEF Capped
<1>3. slot \in Name /\ (slot = k \/ slot = OtherErrors)
  <2>1. OtherErrors \in Name
    BY DEF Name
  <2>2. slot = k \/ slot = OtherErrors
    BY DEF Slot
  <2>3. QED
    BY <2>1, <2>2
<1>4. slot \notin Keys(d) => IF slot = OtherErrors THEN Len(d) = MaxTypes ELSE Len(d) < MaxTypes
  BY <1>0 DEF Slot, Capped
<1>5. slot # k => slot = OtherErrors
  BY <1>3
<1> HIDE DEF slot
<1>6. v \in Nat /\ SumValues(T) = SumValues(d) + n
  <2>1. SumValues(T) = SumValues(d) + n /\ ValueAt(d, slot, 0) \in Nat
    BY <1>2, <1>3, StoredSum
  <2>2. v \in Nat
    BY <2>1
  <2>3. QED
    BY <2>1, <2>2
<1>7. Capped(T)
  <2> HIDE DEF v
  <2> QED BY <1>3, <1>4, <1>6, StoredIsCapped
<1>8. Keys(T) = Keys(d) \cup {slot} /\ \A j : ValueAt(T, j, 0) = IF j = slot THEN v ELSE ValueAt(d, j, 0)
  <2> HIDE DEF v
  <2> QED BY <1>2, <1>3, <1>6, StoredIsDict
<1> HIDE DEF T
<1>9. ASSUME NEW j \in Name \ {OtherErrors}
      PROVE  ValueAt(T, j, 0) <= ValueAt(d, j, 0) + IF j = k THEN n ELSE 0
  <2> DEFINE was == ValueAt(d, j, 0)
             more == IF j = k THEN n ELSE 0
             is == ValueAt(T, j, 0)
  <2>1. was \in Nat /\ more \in Nat
    BY <1>2, ValueIsNat
  <2>2. is = was + more \/ is = was
    BY <1>5, <1>8 DEF v
  <2> HIDE DEF was, more, is
  <2>3. is <= was + more
    BY <2>1, <2>2
  <2>4. QED
    BY <2>3 DEF was, more, is
<1>10. ASSUME OtherErrors \notin Keys(T)
       PROVE  /\ OtherErrors \notin Keys(d) /\ k # OtherErrors /\ Keys(T) = Keys(d) \cup {k}
              /\ \A j \in Name : ValueAt(T, j, 0) = ValueAt(d, j, 0) + IF j = k THEN n ELSE 0
  <2>1. slot = k /\ OtherErrors \notin Keys(d) /\ k # OtherErrors
    BY <1>5, <1>8, <1>10
  <2>3. ASSUME NEW j \in Name
        PROVE  ValueAt(T, j, 0) = ValueAt(d, j, 0) + IF j = k THEN n ELSE 0
    <3> DEFINE was == ValueAt(d, j, 0)
    <3>1. was \in Nat
      BY <1>2, ValueIsNat
    <3>2. CASE j = k
      BY <1>8, <2>1, <3>2 DEF v
    <3>3. CASE j # k
      <4>1. ValueAt(T, j, 0) = was
        BY <1>8, <2>1, <3>3
      <4> HIDE DEF was
      <4>2. was = was + 0
        BY <3>1
      <4>3. QED
        BY <3>3, <4>1, <4>2 DEF was
    <3>4. QED
      BY <3>2, <3>3
  <2>4. QED
    BY <1>8, <2>1, <2>3
<1>11. QED
  BY <1>1, <1>6, <1>7, <1>9, <1>10 DEF CountsMore

-------------------------------------------------------------------------------
(* The entries of a dictionary, taken one by one.                             *)

Prefix(d, i) == SubSeq(d, 1, i)

LEMMA PrefixSteps ==
  ASSUME NEW V, NEW d, Dict(d, V)
  PROVE  /\ Prefix(d, 0) = <<>> /\ Prefix(d, Len(d)) = d
         /\ \A i \in 0..Len(d) : Dict(Prefix(d, i), V) /\ Len(Prefix(d, i)) = i
         /\ \A i \in 1..Len(d) :
              /\ d[i].key \notin Keys(Prefix(d, i - 1)) /\ d[i].key \in Name /\ d[i].value \in V
              /\ Prefix(d, i) = Stored(Prefix(d, i - 1), d[i].key, d[i].value)
<1>1. d \in Seq(Entries(V)) /\ Len(d) \in Nat /\ DOMAIN d = 1..Len(d)
  BY DEF Dict
<1>2. Prefix(d, 0) = <<>> /\ Prefix(d, Len(d)) = d
  BY <1>1 DEF Prefix
<1>3. ASSUME NEW i \in 0..Len(d)
      PROVE  /\ Prefix(d, i) \in Seq(Entries(V)) /\ Len(Prefix(d, i)) = i /\ DOMAIN Prefix(d, i) = 1..i
             /\ \A j \in 1..i : Prefix(d, i)[j] = d[j]
  BY <1>1 DEF Prefix
<1>4. ASSUME NEW i \in 0..Len(d) PROVE Dict(Prefix(d, i), V)
  <2> DEFINE p == Prefix(d, i)
  <2>1. p \in Seq(Entries(V)) /\ DOMAIN p = 1..i /\ \A j \in 1..i : p[j] = d[j] /\ j \in DOMAIN d
    BY <1>1, <1>3
  <2> HIDE DEF p
  <2>2. Dict(p, V)
    BY <2>1 DEF Dict
  <2>3. QED
    BY <2>2 DEF p
<1>5. ASSUME NEW i \in 1..Len(d)
      PROVE  /\ d[i].key \notin Keys(Prefix(d, i - 1)) /\ d[i].key \in Name /\ d[i].value \in V
             /\ Prefix(d, i) = Stored(Prefix(d, i - 1), d[i].key, d[i].value)
  <2>1. i - 1 \in 0..Len(d) /\ i \in 0..Len(d) /\ i \in DOMAIN d
    BY <1>1
  <2>2. d[i] \in Entries(V)
    BY <1>1, <2>1
  <2>3. d[i].key \in Name /\ d[i].value \in V /\ d[i] = [key |-> d[i].key, value |-> d[i].value]
    BY <2>2 DEF Entries
  <2>4. d[i].key \notin Keys(Prefix(d, i - 1))
    <3>1. \A j \in 1..(i - 1) : j \in DOMAIN d /\ j # i
      BY <1>1, <2>1
    <3>2. DOMAIN Prefix(d, i - 1) = 1..(i - 1) /\ \A j \in 1..(i - 1) : Prefix(d, i - 1)[j] = d[j]
      BY <1>3, <2>1
    <3>3. QED
      BY <2>1, <3>1, <3>2 DEF Keys, Dict
  <2>5. Prefix(d, i) = Append(Prefix(d, i - 1), d[i])
    BY <1>1, <2>1 DEF Prefix
  <2>6. QED
    BY <2>3, <2>4, <2>5 DEF Stored
<1>6. QED
  BY <1>2, <1>3, <1>4, <1>5

\* There are as many keys as entries.
LEMMA KeysAreCounted ==
  ASSUME NEW V, NEW d, Dict(d, V)
  PROVE  IsFiniteSet(Keys(d)) /\ Cardinality(Keys(d)) = Len(d)
<1> DEFINE f == [i \in 1..Len(d) |-> d[i].key]
<1>1. DOMAIN d = 1..Len(d) /\ Len(d) \in Nat
  BY DEF Dict
<1>2. IsFiniteSet(1..Len(d)) /\ Cardinality(1..Len(d)) = Len(d)
  <2> DEFINE n == Len(d)
  <2>1. n \in Nat
    BY <1>1
  <2> HIDE DEF n
  <2>2. IsFiniteSet(1..n) /\ Cardinality(1..n) = n
    BY <2>1, FS_Interval
  <2>3. QED
    BY <2>2 DEF n
<1>3. f \in Bijection(1..Len(d), Keys(d))
  BY <1>1 DEF Bijection, Injection, Surjection, IsInjective, Keys, Dict
<1>4. ExistsBijection(1..Len(d), Keys(d))
  BY <1>3 DEF ExistsBijection
<1>5. QED
  BY <1>2, <1>4, FS_Bijection

-------------------------------------------------------------------------------
(* Error types are merged.                                                    *)

\* d is what m becomes with the entries of q.
TypesOf(d, m, q) ==
  /\ Capped(d) /\ SumValues(d) = SumValues(m) + SumValues(q)
  /\ \A j \in Name \ {OtherErrors} : ValueAt(d, j, 0) <= ValueAt(m, j, 0) + ValueAt(q, j, 0)
  /\ OtherErrors \notin Keys(d) =>
       /\ OtherErrors \notin Keys(m) \cup Keys(q) /\ Keys(d) = Keys(m) \cup Keys(q)
       /\ \A j \in Name : ValueAt(d, j, 0) = ValueAt(m, j, 0) + ValueAt(q, j, 0)

TypesSoFar(m, p, i, d) == TypesOf(d, m, Prefix(p, i))
PutType(c, d, e) == Counted(d, e.key, e.value)
Types == INSTANCE FoldTheorems WITH Op <- PutType, Claim <- TypesSoFar

LEMMA TypesStep ==
  ASSUME NEW m, Capped(m), NEW p, Capped(p), NEW i \in 1..Len(p), NEW d, TypesSoFar(m, p, i - 1, d)
  PROVE  TypesSoFar(m, p, i, PutType(m, d, p[i]))
<1> DEFINE q == Prefix(p, i - 1)
           r == Prefix(p, i)
           k == p[i].key
           n == p[i].value
           T == Counted(d, k, n)
<1>1. Dict(p, Nat) /\ Dict(m, Nat)
  BY DEF Capped
<1>2. Len(p) \in Nat /\ MaxTypes \in Nat /\ i - 1 \in 0..Len(p) /\ i \in DOMAIN p
  BY <1>1, StatisticsAssumption DEF Dict
<1>3. k \notin Keys(q) /\ k \in Name /\ n \in Nat /\ r = Stored(q, k, n)
  BY <1>1, PrefixSteps
<1>4. Dict(q, Nat) /\ Len(q) = i - 1
  BY <1>1, <1>2, PrefixSteps
<1>5. TypesOf(d, m, q) /\ Capped(d) /\ Dict(d, Nat)
  BY DEF TypesSoFar, TypesOf, Capped
<1>6. k = OtherErrors => OtherErrors \in Keys(d) \/ Len(d) = MaxTypes
  <2> SUFFICES ASSUME k = OtherErrors, OtherErrors \notin Keys(d) PROVE Len(d) = MaxTypes
    OBVIOUS
  <2>1. Keys(q) \subseteq Keys(d) /\ Len(d) <= MaxTypes
    BY <1>5 DEF TypesOf, Capped
  <2>2. i - 1 = MaxTypes
    BY <1>2 DEF Capped
  <2>3. /\ IsFiniteSet(Keys(d)) /\ Cardinality(Keys(d)) = Len(d)
        /\ Cardinality(Keys(q)) = Len(q)
    BY <1>4, <1>5, KeysAreCounted
  <2>4. Cardinality(Keys(q)) <= Cardinality(Keys(d))
    BY <2>1, <2>3, FS_Subset
  <2>5. Len(d) \in Nat
    BY <1>5 DEF Dict
  <2>6. QED
    BY <1>2, <1>4, <2>1, <2>2, <2>3, <2>4, <2>5
<1> HIDE DEF q, r, k, n
<1>7. CountsMore(T, d, k, n)
  BY <1>3, <1>5, <1>6, CountedStep
<1>8. /\ Keys(r) = Keys(q) \cup {k}
      /\ \A j : ValueAt(r, j, 0) = IF j = k THEN n ELSE ValueAt(q, j, 0)
  BY <1>3, <1>4, StoredIsDict
<1>9. ValueAt(q, k, 0) = 0
  BY <1>3 DEF ValueAt
<1>10. SumValues(r) = SumValues(q) + n
  <2>1. n = 0 + n
    BY <1>3
  <2>2. SumValues(Stored(q, k, ValueAt(q, k, 0) + n)) = SumValues(q) + n
    BY <1>3, <1>4, StoredSum
  <2>3. QED
    BY <1>3, <1>9, <2>1, <2>2
<1>11. ASSUME NEW j \in Name
       PROVE  /\ ValueAt(r, j, 0) = ValueAt(q, j, 0) + IF j = k THEN n ELSE 0
              /\ ValueAt(r, j, 0) \in Nat /\ ValueAt(q, j, 0) \in Nat /\ ValueAt(m, j, 0) \in Nat /\ ValueAt(d, j, 0) \in Nat
  <2>1. ValueAt(q, j, 0) \in Nat /\ ValueAt(m, j, 0) \in Nat /\ ValueAt(d, j, 0) \in Nat
    BY <1>1, <1>4, <1>5, ValueIsNat
  <2>2. CASE j = k
    BY <1>3, <1>8, <1>9, <2>1, <2>2
  <2>3. CASE j # k
    BY <1>8, <2>1, <2>3
  <2>4. QED
    BY <2>1, <2>2, <2>3
<1> HIDE DEF T
<1>12. SumValues(T) = SumValues(m) + SumValues(r)
  <2>1. SumValues(m) \in Nat /\ SumValues(q) \in Nat
    BY <1>1, <1>4, SumOfNumbers
  <2>2. SumValues(T) = SumValues(d) + n /\ SumValues(d) = SumValues(m) + SumValues(q)
    BY <1>5, <1>7 DEF CountsMore, TypesOf
  <2>3. QED
    BY <1>3, <1>10, <2>1, <2>2
<1>13. ASSUME NEW j \in Name \ {OtherErrors}
       PROVE  ValueAt(T, j, 0) <= ValueAt(m, j, 0) + ValueAt(r, j, 0)
  <2> DEFINE more == IF j = k THEN n ELSE 0
  <2>1. more \in Nat
    BY <1>3
  <2>2. ValueAt(T, j, 0) <= ValueAt(d, j, 0) + more /\ ValueAt(d, j, 0) <= ValueAt(m, j, 0) + ValueAt(q, j, 0)
    BY <1>5, <1>7 DEF CountsMore, TypesOf
  <2>3. ValueAt(r, j, 0) = ValueAt(q, j, 0) + more
    BY <1>11
  <2>4. ValueAt(T, j, 0) \in Nat
    BY <1>7, ValueIsNat DEF CountsMore, Capped
  <2> HIDE DEF more
  <2>5. QED
    BY <1>11, <2>1, <2>2, <2>3, <2>4
<1>14. ASSUME OtherErrors \notin Keys(T)
       PROVE  /\ OtherErrors \notin Keys(m) \cup Keys(r) /\ Keys(T) = Keys(m) \cup Keys(r)
              /\ \A j \in Name : ValueAt(T, j, 0) = ValueAt(m, j, 0) + ValueAt(r, j, 0)
  <2>1. /\ OtherErrors \notin Keys(d) /\ k # OtherErrors /\ Keys(T) = Keys(d) \cup {k}
        /\ \A j \in Name : ValueAt(T, j, 0) = ValueAt(d, j, 0) + IF j = k THEN n ELSE 0
    BY <1>7, <1>14 DEF CountsMore
  <2>2. /\ OtherErrors \notin Keys(m) \cup Keys(q) /\ Keys(d) = Keys(m) \cup Keys(q)
        /\ \A j \in Name : ValueAt(d, j, 0) = ValueAt(m, j, 0) + ValueAt(q, j, 0)
    BY <1>5, <2>1 DEF TypesOf
  <2>3. ASSUME NEW j \in Name PROVE ValueAt(T, j, 0) = ValueAt(m, j, 0) + ValueAt(r, j, 0)
    <3> DEFINE more == IF j = k THEN n ELSE 0
    <3>1. more \in Nat
      BY <1>3
    <3>2. /\ ValueAt(T, j, 0) = ValueAt(d, j, 0) + more /\ ValueAt(d, j, 0) = ValueAt(m, j, 0) + ValueAt(q, j, 0)
          /\ ValueAt(r, j, 0) = ValueAt(q, j, 0) + more
      BY <1>11, <2>1, <2>2
    <3> HIDE DEF more
    <3>3. QED
      BY <1>11, <3>1, <3>2
  <2>4. QED
    BY <1>8, <2>1, <2>2, <2>3
<1>15. TypesOf(T, m, r)
  BY <1>7, <1>12, <1>13, <1>14 DEF TypesOf, CountsMore
<1>16. QED
  BY <1>15 DEF TypesSoFar, PutType, T, r, k, n

LEMMA TypesMerge ==
  ASSUME NEW m, Capped(m), NEW p, Capped(p)
  PROVE  TypesOf(FoldLeft(LAMBDA d, e : Counted(d, e.key, e.value), m, p), m, p)
<1>1. Dict(m, Nat) /\ Dict(p, Nat) /\ p \in Seq(Entries(Nat)) /\ Prefix(p, 0) = <<>> /\ Prefix(p, Len(p)) = p
  <2>1. Dict(m, Nat) /\ Dict(p, Nat)
    BY DEF Capped
  <2>2. QED
    BY <2>1, PrefixSteps DEF Dict
<1>2. TypesSoFar(m, p, 0, m)
  <2>1. SumValues(m) \in Nat /\ \A j : ValueAt(m, j, 0) \in Nat
    BY <1>1, SumOfNumbers, ValueIsNat
  <2>2. Keys(<<>>) = {} /\ SumValues(<<>>) = 0 /\ \A j : ValueAt(<<>>, j, 0) = 0
    BY NothingIsDict
  <2>3. SumValues(m) = SumValues(m) + 0 /\ \A j : ValueAt(m, j, 0) = ValueAt(m, j, 0) + 0 /\ ValueAt(m, j, 0) <= ValueAt(m, j, 0) + 0
    BY <2>1
  <2>4. TypesOf(m, m, <<>>)
    BY <2>2, <2>3 DEF TypesOf
  <2>5. QED
    BY <1>1, <2>4 DEF TypesSoFar
<1>3. \A i \in 1..Len(p) : \A d : TypesSoFar(m, p, i - 1, d) => TypesSoFar(m, p, i, PutType(m, d, p[i]))
  BY TypesStep
<1>4. TypesSoFar(m, p, Len(p), Types!Along(m, m, p))
  BY <1>1, <1>2, <1>3, Types!FoldClaim
<1>5. FoldLeft(LAMBDA d, e : Counted(d, e.key, e.value), m, p) = Types!Along(m, m, p)
  BY DEF Types!Along, Types!Top, Types!MapThenFoldSet, FoldLeft, MapThenFoldSet, Max, PutType
<1>6. QED
  BY <1>1, <1>4, <1>5 DEF TypesSoFar

-------------------------------------------------------------------------------
(* The keys of one event.                                                     *)

Given(ks, i, k) == Cardinality({h \in 1..i : ks[h] = k})

\* d is what m becomes with the first i keys.
KeysSoFar(m, ks, i, d) ==
  /\ Capped(d) /\ SumValues(d) = SumValues(m) + i
  /\ \A j \in Name \ {OtherErrors} : ValueAt(d, j, 0) <= ValueAt(m, j, 0) + Given(ks, i, j)
  /\ OtherErrors \notin Keys(d) =>
       /\ OtherErrors \notin Keys(m) /\ Keys(d) = Keys(m) \cup {ks[h] : h \in 1..i}
       /\ \A j \in Name : ValueAt(d, j, 0) = ValueAt(m, j, 0) + Given(ks, i, j)

PutKey(c, d, k) == Counted(d, k, 1)
EventKeys == INSTANCE FoldTheorems WITH Op <- PutKey, Claim <- KeysSoFar

LEMMA GivenSteps ==
  ASSUME NEW ks, NEW k
  PROVE  /\ Given(ks, 0, k) = 0
         /\ \A i \in Nat : Given(ks, i, k) \in Nat
         /\ \A i \in Nat \ {0} : Given(ks, i, k) = Given(ks, i - 1, k) + IF k = ks[i] THEN 1 ELSE 0
<1> DEFINE S(i) == {h \in 1..i : ks[h] = k}
<1>1. Given(ks, 0, k) = 0
  <2>1. S(0) = {}
    OBVIOUS
  <2>2. QED
    BY <2>1, FS_EmptySet DEF Given
<1>2. ASSUME NEW i \in Nat PROVE IsFiniteSet(S(i)) /\ Cardinality(S(i)) \in Nat
  <2>1. IsFiniteSet(1..i)
    BY FS_Interval
  <2>2. IsFiniteSet(S(i))
    BY <2>1, FS_Subset
  <2>3. QED
    BY <2>2, FS_CardinalityType
<1>3. ASSUME NEW i \in Nat \ {0} PROVE Cardinality(S(i)) = Cardinality(S(i - 1)) + IF k = ks[i] THEN 1 ELSE 0
  <2>1. i - 1 \in Nat /\ 1..i = (1..(i - 1)) \cup {i} /\ i \notin 1..(i - 1)
    OBVIOUS
  <2>2. IsFiniteSet(S(i - 1)) /\ Cardinality(S(i - 1)) \in Nat
    BY <1>2, <2>1
  <2>3. CASE k = ks[i]
    <3>1. S(i) = S(i - 1) \cup {i} /\ i \notin S(i - 1)
      BY <2>1, <2>3
    <3> HIDE DEF S
    <3>2. Cardinality(S(i)) = Cardinality(S(i - 1)) + 1
      BY <2>2, <3>1, FS_AddElement
    <3>3. QED
      BY <2>3, <3>2
  <2>4. CASE k # ks[i]
    <3>1. S(i) = S(i - 1)
      BY <2>1, <2>4
    <3> HIDE DEF S
    <3>2. QED
      BY <2>2, <2>4, <3>1
  <2>5. QED
    BY <2>3, <2>4
<1>4. QED
  BY <1>1, <1>2, <1>3 DEF Given

LEMMA KeysStep ==
  ASSUME NEW m, Dict(m, Nat), NEW ks \in Seq(Name \ {OtherErrors}), NEW i \in 1..Len(ks), NEW d, KeysSoFar(m, ks, i - 1, d)
  PROVE  KeysSoFar(m, ks, i, PutKey(m, d, ks[i]))
<1> DEFINE k == ks[i]
           T == Counted(d, k, 1)
<1>1. k \in Name \ {OtherErrors}
  OBVIOUS
<1>2. i \in Nat \ {0} /\ i - 1 \in Nat
  OBVIOUS
<1>3. Capped(d) /\ Dict(d, Nat)
  BY DEF KeysSoFar, Capped
<1> HIDE DEF k
<1>4. CountsMore(T, d, k, 1)
  BY <1>1, <1>3, CountedStep
<1>5. ASSUME NEW j \in Name
      PROVE  /\ Given(ks, i, j) = Given(ks, i - 1, j) + IF j = k THEN 1 ELSE 0
             /\ Given(ks, i, j) \in Nat /\ Given(ks, i - 1, j) \in Nat
             /\ ValueAt(m, j, 0) \in Nat /\ ValueAt(d, j, 0) \in Nat /\ ValueAt(T, j, 0) \in Nat
  <2>1. Dict(T, Nat)
    BY <1>4 DEF CountsMore, Capped
  <2>2. QED
    BY <1>2, <1>3, <2>1, GivenSteps, ValueIsNat DEF k
<1> HIDE DEF T
<1>6. SumValues(T) = SumValues(m) + i
  <2>1. SumValues(m) \in Nat
    BY SumOfNumbers
  <2>2. SumValues(T) = SumValues(d) + 1 /\ SumValues(d) = SumValues(m) + (i - 1)
    BY <1>4 DEF CountsMore, KeysSoFar
  <2>3. QED
    BY <1>2, <2>1, <2>2
<1>7. ASSUME NEW j \in Name \ {OtherErrors}
      PROVE  ValueAt(T, j, 0) <= ValueAt(m, j, 0) + Given(ks, i, j)
  <2> DEFINE more == IF j = k THEN 1 ELSE 0
  <2>1. more \in Nat
    OBVIOUS
  <2>2. /\ ValueAt(T, j, 0) <= ValueAt(d, j, 0) + more /\ ValueAt(d, j, 0) <= ValueAt(m, j, 0) + Given(ks, i - 1, j)
        /\ Given(ks, i, j) = Given(ks, i - 1, j) + more
    BY <1>4, <1>5 DEF CountsMore, KeysSoFar
  <2> HIDE DEF more
  <2>3. QED
    BY <1>5, <2>1, <2>2
<1>8. ASSUME OtherErrors \notin Keys(T)
      PROVE  /\ OtherErrors \notin Keys(m) /\ Keys(T) = Keys(m) \cup {ks[h] : h \in 1..i}
             /\ \A j \in Name : ValueAt(T, j, 0) = ValueAt(m, j, 0) + Given(ks, i, j)
  <2>1. /\ OtherErrors \notin Keys(d) /\ Keys(T) = Keys(d) \cup {k}
        /\ \A j \in Name : ValueAt(T, j, 0) = ValueAt(d, j, 0) + IF j = k THEN 1 ELSE 0
    BY <1>4, <1>8 DEF CountsMore
  <2>2. /\ OtherErrors \notin Keys(m) /\ Keys(d) = Keys(m) \cup {ks[h] : h \in 1..(i - 1)}
        /\ \A j \in Name : ValueAt(d, j, 0) = ValueAt(m, j, 0) + Given(ks, i - 1, j)
    BY <2>1 DEF KeysSoFar
  <2>3. {ks[h] : h \in 1..i} = {ks[h] : h \in 1..(i - 1)} \cup {k}
    <3>1. 1..i = (1..(i - 1)) \cup {i}
      BY <1>2
    <3>2. QED
      BY <3>1 DEF k
  <2>4. ASSUME NEW j \in Name PROVE ValueAt(T, j, 0) = ValueAt(m, j, 0) + Given(ks, i, j)
    <3> DEFINE more == IF j = k THEN 1 ELSE 0
    <3>1. more \in Nat
      OBVIOUS
    <3>2. /\ ValueAt(T, j, 0) = ValueAt(d, j, 0) + more /\ ValueAt(d, j, 0) = ValueAt(m, j, 0) + Given(ks, i - 1, j)
          /\ Given(ks, i, j) = Given(ks, i - 1, j) + more
      BY <1>5, <2>1, <2>2
    <3> HIDE DEF more
    <3>3. QED
      BY <1>5, <3>1, <3>2
  <2>5. QED
    BY <2>1, <2>2, <2>3, <2>4
<1>9. KeysSoFar(m, ks, i, T)
  BY <1>4, <1>6, <1>7, <1>8 DEF KeysSoFar, CountsMore
<1>10. QED
  BY <1>9 DEF PutKey, T, k

LEMMA KeysFold ==
  ASSUME NEW m, Capped(m), NEW ks \in Seq(Name \ {OtherErrors})
  PROVE  KeysSoFar(m, ks, Len(ks), FoldLeft(LAMBDA d, k : Counted(d, k, 1), m, ks))
<1>1. Dict(m, Nat)
  BY DEF Capped
<1>2. KeysSoFar(m, ks, 0, m)
  <2>1. SumValues(m) \in Nat /\ \A j : ValueAt(m, j, 0) \in Nat
    BY <1>1, SumOfNumbers, ValueIsNat
  <2>2. \A j : Given(ks, 0, j) = 0
    BY GivenSteps
  <2>3. SumValues(m) = SumValues(m) + 0 /\ \A j : ValueAt(m, j, 0) = ValueAt(m, j, 0) + 0 /\ ValueAt(m, j, 0) <= ValueAt(m, j, 0) + 0
    BY <2>1
  <2>4. {ks[h] : h \in 1..0} = {}
    OBVIOUS
  <2>5. QED
    BY <2>2, <2>3, <2>4 DEF KeysSoFar
<1>3. \A i \in 1..Len(ks) : \A d : KeysSoFar(m, ks, i - 1, d) => KeysSoFar(m, ks, i, PutKey(m, d, ks[i]))
  BY <1>1, KeysStep
<1>4. KeysSoFar(m, ks, Len(ks), EventKeys!Along(m, m, ks))
  BY <1>2, <1>3, EventKeys!FoldClaim
<1>5. FoldLeft(LAMBDA d, k : Counted(d, k, 1), m, ks) = EventKeys!Along(m, m, ks)
  BY DEF EventKeys!Along, EventKeys!Top, EventKeys!MapThenFoldSet, FoldLeft, MapThenFoldSet, Max, PutKey
<1>6. QED
  BY <1>4, <1>5

-------------------------------------------------------------------------------
(* A dictionary of error types comes out of a message as it went in.          *)

PlacedSoFar(c, p, i, d) == d = Prefix(p, i)
PutPlaced(c, d, e) == Placed(d, e.key, e.value)
Arrival == INSTANCE FoldTheorems WITH Op <- PutPlaced, Claim <- PlacedSoFar

LEMMA PlacedInOrder ==
  ASSUME NEW p, Capped(p)
  PROVE  FoldLeft(LAMBDA d, e : Placed(d, e.key, e.value), <<>>, p) = p
<1>1. Dict(p, Nat)
  BY DEF Capped
<1>2. p \in Seq(Entries(Nat)) /\ Prefix(p, 0) = <<>> /\ Prefix(p, Len(p)) = p /\ Len(p) \in Nat /\ DOMAIN p = 1..Len(p)
  BY <1>1, PrefixSteps DEF Dict
<1>3. ASSUME NEW i \in 1..Len(p)
      PROVE  Placed(Prefix(p, i - 1), p[i].key, p[i].value) = Prefix(p, i)
  <2>1. i - 1 \in 0..Len(p) /\ i \in DOMAIN p /\ MaxTypes \in Nat /\ i \in Nat
    BY <1>2, StatisticsAssumption
  <2>2. Len(Prefix(p, i - 1)) = i - 1
    BY <1>1, <2>1, PrefixSteps
  <2>3. Prefix(p, i) = Stored(Prefix(p, i - 1), p[i].key, p[i].value)
    BY <1>1, PrefixSteps
  <2>4. i - 1 < MaxTypes \/ p[i].key = OtherErrors
    <3>1. CASE i <= MaxTypes
      BY <2>1, <3>1
    <3>2. CASE i > MaxTypes
      <4>1. i = MaxTypes + 1 /\ Len(p) = MaxTypes + 1
        <5> DEFINE n == Len(p)
        <5>1. n \in Nat /\ i <= n /\ n <= MaxTypes + 1
          BY <1>2 DEF Capped
        <5> HIDE DEF n
        <5>2. i = MaxTypes + 1 /\ n = MaxTypes + 1
          BY <2>1, <3>2, <5>1
        <5>3. QED
          BY <5>2 DEF n
      <4>2. OtherErrors \in Keys(p)
        BY <2>1, <4>1 DEF Capped
      <4>3. PICK j \in DOMAIN p : p[j].key = OtherErrors
        BY <4>2 DEF Keys
      <4>4. j = i
        BY <4>1, <4>3 DEF Capped
      <4>5. QED
        BY <4>3, <4>4
    <3>3. QED
      BY <2>1, <3>1, <3>2
  <2>5. Slot(Prefix(p, i - 1), p[i].key, MaxTypes, OtherErrors) = p[i].key
    BY <2>2, <2>4 DEF Slot
  <2>6. QED
    BY <2>3, <2>5 DEF Placed
<1>4. \A i \in 1..Len(p) : \A d : PlacedSoFar(0, p, i - 1, d) => PlacedSoFar(0, p, i, PutPlaced(0, d, p[i]))
  BY <1>3 DEF PlacedSoFar, PutPlaced
<1>5. PlacedSoFar(0, p, 0, <<>>)
  BY <1>2 DEF PlacedSoFar
<1>6. PlacedSoFar(0, p, Len(p), Arrival!Along(0, <<>>, p))
  BY <1>2, <1>4, <1>5, Arrival!FoldClaim
<1>7. FoldLeft(LAMBDA d, e : Placed(d, e.key, e.value), <<>>, p) = Arrival!Along(0, <<>>, p)
  BY DEF Arrival!Along, Arrival!Top, Arrival!MapThenFoldSet, FoldLeft, MapThenFoldSet, Max, PutPlaced
<1>8. QED
  BY <1>2, <1>6, <1>7 DEF PlacedSoFar

-------------------------------------------------------------------------------
(* The samples and the errors of steps.                                       *)

Sample == [by : Worker, no : Nat, step : STRING, value : Nat]

\* A dictionary of samples, each with its step or with the rest.
Filed(d) ==
  /\ Dict(d, SUBSET Sample)
  /\ \A s \in Keys(d) \ {OtherSteps} : \A x \in ValueAt(d, s, {}) : x.step = s

SamplesOf(d) == UNION {d[i].value : i \in DOMAIN d}

LEMMA SamplesByKey ==
  ASSUME NEW V, NEW d, Dict(d, V)
  PROVE  SamplesOf(d) = UNION {ValueAt(d, k, {}) : k \in Keys(d)}
<1>1. ASSUME NEW i \in DOMAIN d PROVE d[i].key \in Keys(d) /\ ValueAt(d, d[i].key, {}) = d[i].value
  BY EntryOfIndex
<1>2. ASSUME NEW k \in Keys(d) PROVE \E i \in DOMAIN d : ValueAt(d, k, {}) = d[i].value
  BY EntryOfKey
<1>3. QED
  BY <1>1, <1>2 DEF SamplesOf

LEMMA TimedStep ==
  ASSUME NEW d, Filed(d), NEW s \in Name, NEW S \in SUBSET Sample, s # OtherSteps => \A x \in S : x.step = s
  PROVE  Filed(Timed(d, s, S)) /\ SamplesOf(Timed(d, s, S)) = SamplesOf(d) \cup S
<1> DEFINE slot == Slot(d, s, MaxSteps, OtherSteps)
           was == ValueAt(d, slot, {})
           v == was \cup S
           T == Stored(d, slot, v)
<1>1. Timed(d, s, S) = T
  BY DEF Timed
<1>2. Dict(d, SUBSET Sample)
  BY DEF Filed
<1>3. slot \in Name /\ (slot = s \/ slot = OtherSteps)
  <2>1. OtherSteps \in Name
    BY DEF Name
  <2>2. slot = s \/ slot = OtherSteps
    BY DEF Slot
  <2>3. QED
    BY <2>1, <2>2
<1> HIDE DEF slot
<1>4. v \in SUBSET Sample
  <2>1. CASE slot \in Keys(d)
    <3>1. was \in SUBSET Sample
      BY <1>2, <2>1, EntryOfKey
    <3>2. QED
      BY <3>1
  <2>2. CASE slot \notin Keys(d)
    BY <2>2 DEF ValueAt
  <2>3. QED
    BY <2>1, <2>2
<1> HIDE DEF v
<1>5. /\ Dict(T, SUBSET Sample) /\ Keys(T) = Keys(d) \cup {slot}
      /\ \A j : ValueAt(T, j, {}) = IF j = slot THEN v ELSE ValueAt(d, j, {})
  BY <1>2, <1>3, <1>4, StoredIsDict
<1> HIDE DEF T
<1>6. SamplesOf(T) = SamplesOf(d) \cup S
  <2>1. SamplesOf(T) = UNION {ValueAt(T, k, {}) : k \in Keys(T)} /\ SamplesOf(d) = UNION {ValueAt(d, k, {}) : k \in Keys(d)}
    BY <1>2, <1>5, SamplesByKey
  <2>2. slot \notin Keys(d) => was = {}
    BY DEF ValueAt
  <2>3. ASSUME NEW x \in SamplesOf(T) PROVE x \in SamplesOf(d) \cup S
    <3>1. PICK k \in Keys(T) : x \in ValueAt(T, k, {})
      BY <2>1
    <3>2. CASE k = slot
      <4>1. x \in was \cup S
        BY <1>5, <3>1, <3>2 DEF v
      <4>2. x \in was => slot \in Keys(d)
        BY <2>2
      <4>3. QED
        BY <2>1, <4>1, <4>2
    <3>3. CASE k # slot
      BY <1>5, <2>1, <3>1, <3>3
    <3>4. QED
      BY <3>2, <3>3
  <2>4. ASSUME NEW x \in SamplesOf(d) \cup S PROVE x \in SamplesOf(T)
    <3>1. CASE x \in S
      BY <1>5, <2>1, <3>1 DEF v
    <3>2. CASE x \in SamplesOf(d)
      <4>1. PICK k \in Keys(d) : x \in ValueAt(d, k, {})
        BY <2>1, <3>2
      <4>2. x \in ValueAt(T, k, {}) /\ k \in Keys(T)
        BY <1>5, <4>1 DEF v
      <4>3. QED
        BY <2>1, <4>2
    <3>3. QED
      BY <3>1, <3>2
  <2>5. QED
    BY <2>3, <2>4
<1>7. ASSUME NEW k \in Keys(T) \ {OtherSteps}, NEW x \in ValueAt(T, k, {}) PROVE x.step = k
  <2>1. CASE k = slot
    <3>1. k = s /\ x \in was \cup S
      BY <1>3, <1>5, <1>7, <2>1 DEF v
    <3>2. x \in was => slot \in Keys(d)
      BY DEF ValueAt
    <3>3. QED
      BY <1>7, <2>1, <3>1, <3>2 DEF Filed
  <2>2. CASE k # slot
    BY <1>5, <1>7, <2>2 DEF Filed
  <2>3. QED
    BY <2>1, <2>2
<1>8. Filed(T)
  BY <1>5, <1>7 DEF Filed
<1>9. QED
  BY <1>1, <1>6, <1>8

FiledSoFar(m, p, i, d) == Filed(d) /\ SamplesOf(d) = SamplesOf(m) \cup SamplesOf(Prefix(p, i))
PutSamples(c, d, e) == Timed(d, e.key, e.value)
Samples == INSTANCE FoldTheorems WITH Op <- PutSamples, Claim <- FiledSoFar

LEMMA SamplesMerge ==
  ASSUME NEW m, Filed(m), NEW p, Filed(p)
  PROVE  LET d == FoldLeft(LAMBDA d, e : Timed(d, e.key, e.value), m, p)
         IN  Filed(d) /\ SamplesOf(d) = SamplesOf(m) \cup SamplesOf(p)
<1>1. Dict(p, SUBSET Sample)
  BY DEF Filed
<1>2. p \in Seq(Entries(SUBSET Sample)) /\ Prefix(p, 0) = <<>> /\ Prefix(p, Len(p)) = p /\ Len(p) \in Nat /\ DOMAIN p = 1..Len(p)
  BY <1>1, PrefixSteps DEF Dict
<1>3. ASSUME NEW i \in 1..Len(p), NEW d, FiledSoFar(m, p, i - 1, d)
      PROVE  FiledSoFar(m, p, i, PutSamples(m, d, p[i]))
  <2> DEFINE k == p[i].key
             v == p[i].value
             q == Prefix(p, i - 1)
  <2>1. i - 1 \in 0..Len(p) /\ i \in DOMAIN p
    BY <1>2
  <2>2. k \notin Keys(q) /\ k \in Name /\ v \in SUBSET Sample /\ Prefix(p, i) = Stored(q, k, v) /\ Dict(q, SUBSET Sample)
    BY <1>1, <2>1, PrefixSteps
  <2>3. k # OtherSteps => \A x \in v : x.step = k
    <3>1. k \in Keys(p) /\ ValueAt(p, k, {}) = v
      BY <1>1, <2>1, EntryOfIndex
    <3>2. QED
      BY <3>1 DEF Filed
  <2>4. Filed(Timed(d, k, v)) /\ SamplesOf(Timed(d, k, v)) = SamplesOf(d) \cup v
    <3> HIDE DEF k, v
    <3> QED BY <1>3, <2>2, <2>3, TimedStep DEF FiledSoFar
  <2>5. SamplesOf(Stored(q, k, v)) = SamplesOf(q) \cup v
    <3> HIDE DEF k, v, q
    <3>1. Longer(Stored(q, k, v), q, [key |-> k, value |-> v])
      BY <2>2, StoredAtEnd
    <3> DEFINE T == Stored(q, k, v)
    <3> HIDE DEF T
    <3>2. DOMAIN T = DOMAIN q \cup {Len(q) + 1} /\ T[Len(q) + 1].value = v /\ \A j \in DOMAIN q : T[j] = q[j]
      BY <3>1 DEF Longer, T
    <3>3. SamplesOf(T) = SamplesOf(q) \cup v
      BY <3>2 DEF SamplesOf
    <3>4. QED
      BY <3>3 DEF T
  <2>6. QED
    BY <1>3, <2>2, <2>4, <2>5 DEF FiledSoFar, PutSamples
<1>4. \A i \in 1..Len(p) : \A d : FiledSoFar(m, p, i - 1, d) => FiledSoFar(m, p, i, PutSamples(m, d, p[i]))
  BY <1>3
<1>5. FiledSoFar(m, p, 0, m)
  <2>1. SamplesOf(<<>>) = {}
    BY DEF SamplesOf
  <2>2. QED
    BY <1>2, <2>1 DEF FiledSoFar
<1>6. FiledSoFar(m, p, Len(p), Samples!Along(m, m, p))
  BY <1>2, <1>4, <1>5, Samples!FoldClaim
<1>7. FoldLeft(LAMBDA d, e : Timed(d, e.key, e.value), m, p) = Samples!Along(m, m, p)
  BY DEF Samples!Along, Samples!Top, Samples!MapThenFoldSet, FoldLeft, MapThenFoldSet, Max, PutSamples
<1>8. QED
  BY <1>2, <1>6, <1>7 DEF FiledSoFar

BlamedSoFar(m, p, i, d) == Dict(d, Nat) /\ SumValues(d) = SumValues(m) + SumValues(Prefix(p, i))
PutBlame(c, d, e) == Blamed(d, e.key, e.value)
StepErrors == INSTANCE FoldTheorems WITH Op <- PutBlame, Claim <- BlamedSoFar

LEMMA BlamedStep ==
  ASSUME NEW d, Dict(d, Nat), NEW s \in Name, NEW n \in Nat
  PROVE  Dict(Blamed(d, s, n), Nat) /\ SumValues(Blamed(d, s, n)) = SumValues(d) + n
<1> DEFINE slot == Slot(d, s, MaxSteps, OtherSteps)
           v == ValueAt(d, slot, 0) + n
<1>1. slot \in Name
  <2>1. OtherSteps \in Name
    BY DEF Name
  <2>2. slot = s \/ slot = OtherSteps
    BY DEF Slot
  <2>3. QED
    BY <2>1, <2>2
<1>2. Blamed(d, s, n) = Stored(d, slot, v)
  BY DEF Blamed
<1> HIDE DEF slot
<1>3. SumValues(Stored(d, slot, v)) = SumValues(d) + n /\ ValueAt(d, slot, 0) \in Nat
  BY <1>1, StoredSum
<1>4. v \in Nat
  BY <1>3
<1>5. Dict(Stored(d, slot, v), Nat)
  <2> HIDE DEF v
  <2> QED BY <1>1, <1>4, StoredIsDict
<1>6. QED
  BY <1>2, <1>3, <1>5

LEMMA BlamesMerge ==
  ASSUME NEW m, Dict(m, Nat), NEW p, Dict(p, Nat)
  PROVE  LET d == FoldLeft(LAMBDA d, e : Blamed(d, e.key, e.value), m, p)
         IN  Dict(d, Nat) /\ SumValues(d) = SumValues(m) + SumValues(p)
<1>1. p \in Seq(Entries(Nat)) /\ Prefix(p, 0) = <<>> /\ Prefix(p, Len(p)) = p /\ Len(p) \in Nat
  BY PrefixSteps DEF Dict
<1>2. ASSUME NEW i \in 1..Len(p), NEW d, BlamedSoFar(m, p, i - 1, d)
      PROVE  BlamedSoFar(m, p, i, PutBlame(m, d, p[i]))
  <2> DEFINE k == p[i].key
             n == p[i].value
             q == Prefix(p, i - 1)
  <2>1. i - 1 \in 0..Len(p)
    BY <1>1
  <2>2. k \notin Keys(q) /\ k \in Name /\ n \in Nat /\ Prefix(p, i) = Stored(q, k, n) /\ Dict(q, Nat)
    BY <2>1, PrefixSteps
  <2> HIDE DEF k, n, q
  <2>3. Dict(Blamed(d, k, n), Nat) /\ SumValues(Blamed(d, k, n)) = SumValues(d) + n
    BY <1>2, <2>2, BlamedStep DEF BlamedSoFar
  <2>4. ValueAt(q, k, 0) = 0 /\ n = 0 + n
    BY <2>2 DEF ValueAt
  <2>5. SumValues(Stored(q, k, ValueAt(q, k, 0) + n)) = SumValues(q) + n
    BY <2>2, StoredSum
  <2>6. SumValues(Prefix(p, i)) = SumValues(q) + n
    BY <2>2, <2>4, <2>5
  <2>7. SumValues(q) \in Nat /\ SumValues(m) \in Nat /\ SumValues(d) = SumValues(m) + SumValues(q)
    BY <1>2, <2>2, SumOfNumbers DEF BlamedSoFar, q
  <2>8. SumValues(Blamed(d, k, n)) = SumValues(m) + SumValues(Prefix(p, i))
    BY <2>2, <2>3, <2>6, <2>7
  <2>9. QED
    BY <2>3, <2>8 DEF BlamedSoFar, PutBlame, k, n
<1>3. \A i \in 1..Len(p) : \A d : BlamedSoFar(m, p, i - 1, d) => BlamedSoFar(m, p, i, PutBlame(m, d, p[i]))
  BY <1>2
<1>4. BlamedSoFar(m, p, 0, m)
  <2>1. SumValues(m) \in Nat /\ SumValues(<<>>) = 0
    BY SumOfNumbers, NothingIsDict
  <2>2. QED
    BY <1>1, <2>1 DEF BlamedSoFar
<1>5. BlamedSoFar(m, p, Len(p), StepErrors!Along(m, m, p))
  BY <1>1, <1>3, <1>4, StepErrors!FoldClaim
<1>6. FoldLeft(LAMBDA d, e : Blamed(d, e.key, e.value), m, p) = StepErrors!Along(m, m, p)
  BY DEF StepErrors!Along, StepErrors!Top, StepErrors!MapThenFoldSet, FoldLeft, MapThenFoldSet, Max, PutBlame
<1>7. QED
  BY <1>1, <1>5, <1>6 DEF BlamedSoFar

-------------------------------------------------------------------------------
(* What happened, counted.                                                    *)

LEMMA DisjointSets ==
  ASSUME NEW S, NEW T, IsFiniteSet(S), IsFiniteSet(T), S \cap T = {}
  PROVE  IsFiniteSet(S \cup T) /\ Cardinality(S \cup T) = Cardinality(S) + Cardinality(T)
<1>1. Cardinality(S \cap T) = 0 /\ Cardinality(S) \in Nat /\ Cardinality(T) \in Nat
  BY FS_EmptySet, FS_CardinalityType
<1>2. IsFiniteSet(S \cup T) /\ Cardinality(S \cup T) = Cardinality(S) + Cardinality(T) - Cardinality(S \cap T)
  BY FS_Union
<1>3. QED
  BY <1>1, <1>2

OfKind(D, kind) == {d \in D : d.event.kind = kind}
Charged(D) == {d \in D : d.event.charged}
Stepped(D) == {d \in OfKind(D, "answer") : d.event.step # NoStep}
GivingsOf(k, D) == {g \in Givings(D) : Key(g) = k}

Happened(d) == EventKind(d.event) /\ d.sample \in Sample /\ d.sample.step = d.event.step
History(D) == IsFiniteSet(D) /\ \A d \in D : Happened(d)

LEMMA HistoryParts ==
  ASSUME NEW D, History(D), NEW E, E \subseteq D
  PROVE  History(E)
BY FS_Subset DEF History

LEMMA HistoryUnion ==
  ASSUME NEW D, History(D), NEW E, History(E)
  PROVE  History(D \cup E)
BY FS_Union DEF History

LEMMA OneGivings ==
  ASSUME NEW d, Happened(d)
  PROVE  LET n == Len(d.event.keys)
             one == {d} \X DOMAIN d.event.keys
         IN  /\ IsFiniteSet(one) /\ Cardinality(one) = n /\ n \in Nat
             /\ \A k : Cardinality({g \in one : Key(g) = k}) = Given(d.event.keys, n, k)
             /\ d.event.keys \in Seq(Name \ {OtherErrors})
<1> DEFINE ks == d.event.keys
           n == Len(ks)
           one == {d} \X DOMAIN ks
           f == [i \in 1..n |-> <<d, i>>]
<1>0. ks \in Seq(Name \ {OtherErrors})
  <2>1. ks \in Seq(STRING \ {OtherErrors})
    BY DEF Happened, EventKind
  <2>2. STRING \ {OtherErrors} \subseteq Name \ {OtherErrors}
    BY DEF Name
  <2> HIDE DEF ks
  <2>3. QED
    BY <2>1, <2>2
<1>1. DOMAIN ks = 1..n /\ n \in Nat
  <2> HIDE DEF ks
  <2> QED BY <1>0
<1> HIDE DEF n
<1>2. IsFiniteSet(1..n) /\ Cardinality(1..n) = n
  BY <1>1, FS_Interval
<1>3. f \in Bijection(1..n, one)
  BY <1>1 DEF Bijection, Injection, Surjection, IsInjective
<1>4. IsFiniteSet(one) /\ Cardinality(one) = n
  BY <1>2, <1>3, FS_Bijection DEF ExistsBijection
<1>5. ASSUME NEW k PROVE Cardinality({g \in one : Key(g) = k}) = Given(ks, n, k)
  <2> DEFINE S == {h \in 1..n : ks[h] = k}
             U == {g \in one : Key(g) = k}
             r == [i \in S |-> <<d, i>>]
  <2>1. IsFiniteSet(S)
    BY <1>2, FS_Subset
  <2>2. \A i \in 1..n : Key(<<d, i>>) = ks[i]
    BY DEF Key
  <2>3. U = {<<d, i>> : i \in S}
    BY <1>1, <2>2
  <2> HIDE DEF U, S
  <2>4. r \in Bijection(S, U)
    BY <2>3 DEF Bijection, Injection, Surjection, IsInjective
  <2>5. Cardinality(U) = Cardinality(S)
    BY <2>1, <2>4, FS_Bijection DEF ExistsBijection
  <2>6. QED
    BY <2>5 DEF U, S, Given
<1>6. QED
  BY <1>0, <1>1, <1>4, <1>5 DEF n

LEMMA GivingsUnion ==
  ASSUME NEW D, NEW E
  PROVE  /\ Givings(D \cup E) = Givings(D) \cup Givings(E)
         /\ D \cap E = {} => Givings(D) \cap Givings(E) = {}
         /\ Givings({}) = {} /\ \A d : Givings({d}) = {d} \X DOMAIN d.event.keys
BY DEF Givings

LEMMA GivingsFinite ==
  ASSUME NEW D, History(D)
  PROVE  IsFiniteSet(Givings(D)) /\ \A k : IsFiniteSet(GivingsOf(k, D)) /\ \A g \in Givings(D) : Key(g) \in Name \ {OtherErrors}
<1>1. IsFiniteSet(Givings(D))
  <2> DEFINE C == {T \in SUBSET D : ~IsFiniteSet(Givings(T))}
  <2>1. SUFFICES ASSUME C # {} PROVE FALSE
    OBVIOUS
  <2>2. PICK M \in C : \A U \in C : U \subseteq M => U = M
    <3>1. C \subseteq SUBSET D /\ IsFiniteSet(D)
      BY DEF History
    <3> HIDE DEF C
    <3>2. QED
      BY <2>1, <3>1, SmallestSubset
  <2>3. M # {}
    BY GivingsUnion, FS_EmptySet
  <2>4. PICK d \in M : Happened(d)
    BY <2>3 DEF History
  <2>5. IsFiniteSet(Givings(M \ {d}))
    BY <2>2
  <2>6. Givings(M) = Givings(M \ {d}) \cup Givings({d}) /\ Givings({d}) = {d} \X DOMAIN d.event.keys
    <3> DEFINE R == M \ {d}
    <3>1. M = R \cup {d}
      OBVIOUS
    <3> HIDE DEF R
    <3>2. Givings(R \cup {d}) = Givings(R) \cup Givings({d}) /\ Givings({d}) = {d} \X DOMAIN d.event.keys
      BY GivingsUnion
    <3>3. QED
      BY <3>1, <3>2 DEF R
  <2>7. IsFiniteSet(Givings({d}))
    BY <2>4, <2>6, OneGivings
  <2> DEFINE X == Givings(M \ {d})
             Y == Givings({d})
  <2>8. IsFiniteSet(Givings(M)) /\ ~IsFiniteSet(Givings(M))
    <3>1. ~IsFiniteSet(Givings(M))
      OBVIOUS
    <3>2. Givings(M) = X \cup Y /\ IsFiniteSet(X) /\ IsFiniteSet(Y)
      BY <2>5, <2>6, <2>7
    <3> HIDE DEF X, Y
    <3>3. IsFiniteSet(X \cup Y)
      BY <3>2, FS_Union
    <3>4. QED
      BY <3>1, <3>2, <3>3
  <2>9. QED
    BY <2>8
<1>2. ASSUME NEW k PROVE IsFiniteSet(GivingsOf(k, D))
  BY <1>1, FS_Subset DEF GivingsOf
<1>3. ASSUME NEW g \in Givings(D) PROVE Key(g) \in Name \ {OtherErrors}
  <2>1. PICK d \in D : g \in {d} \X DOMAIN d.event.keys
    BY DEF Givings
  <2>2. d.event.keys \in Seq(Name \ {OtherErrors})
    BY OneGivings DEF History
  <2>3. g[1] = d /\ g[2] \in DOMAIN d.event.keys
    BY <2>1
  <2>4. QED
    BY <2>2, <2>3 DEF Key
<1>4. QED
  BY <1>1, <1>2, <1>3

LEMMA GivingsAdd ==
  ASSUME NEW D, History(D), NEW E, History(E), D \cap E = {}
  PROVE  /\ Cardinality(Givings(D \cup E)) = Cardinality(Givings(D)) + Cardinality(Givings(E))
         /\ \A k : Times(k, D \cup E) = Times(k, D) + Times(k, E)
         /\ Cardinality(Givings(D)) \in Nat /\ \A k : Times(k, D) \in Nat
<1>1. Givings(D \cup E) = Givings(D) \cup Givings(E) /\ Givings(D) \cap Givings(E) = {}
  BY GivingsUnion
<1>2. IsFiniteSet(Givings(D)) /\ IsFiniteSet(Givings(E))
  BY GivingsFinite
<1>3. ASSUME NEW k PROVE Times(k, D \cup E) = Times(k, D) + Times(k, E) /\ Times(k, D) \in Nat
  <2>1. GivingsOf(k, D \cup E) = GivingsOf(k, D) \cup GivingsOf(k, E) /\ GivingsOf(k, D) \cap GivingsOf(k, E) = {}
    BY <1>1 DEF GivingsOf
  <2>2. IsFiniteSet(GivingsOf(k, D)) /\ IsFiniteSet(GivingsOf(k, E))
    BY GivingsFinite
  <2>3. Cardinality(GivingsOf(k, D \cup E)) = Cardinality(GivingsOf(k, D)) + Cardinality(GivingsOf(k, E)) /\ Cardinality(GivingsOf(k, D)) \in Nat
    BY <2>1, <2>2, DisjointSets, FS_CardinalityType
  <2>4. QED
    BY <2>3 DEF GivingsOf, Times
<1>4. QED
  BY <1>1, <1>2, <1>3, DisjointSets, FS_CardinalityType

LEMMA KindsAdd ==
  ASSUME NEW D, History(D), NEW E, History(E), D \cap E = {}, NEW kind
  PROVE  /\ Cardinality(OfKind(D \cup E, kind)) = Cardinality(OfKind(D, kind)) + Cardinality(OfKind(E, kind))
         /\ Cardinality(OfKind(D, kind)) \in Nat /\ History(OfKind(D, kind)) /\ History(OfKind(E, kind))
         /\ OfKind(D \cup E, kind) = OfKind(D, kind) \cup OfKind(E, kind)
         /\ OfKind(D, kind) \cap OfKind(E, kind) = {}
<1>1. /\ OfKind(D \cup E, kind) = OfKind(D, kind) \cup OfKind(E, kind)
      /\ OfKind(D, kind) \subseteq D /\ OfKind(E, kind) \subseteq E
  BY DEF OfKind
<1>2. OfKind(D, kind) \cap OfKind(E, kind) = {}
  BY <1>1
<1>3. History(OfKind(D, kind)) /\ History(OfKind(E, kind))
  BY <1>1, HistoryParts
<1>4. QED
  BY <1>1, <1>2, <1>3, DisjointSets, FS_CardinalityType DEF History

LEMMA FaultsAdd ==
  ASSUME NEW D, History(D), NEW E, History(E), D \cap E = {}
  PROVE  /\ Errors(D \cup E) = Errors(D) + Errors(E) /\ Errors(D) \in Nat
         /\ Cardinality(Blames(D \cup E)) = Cardinality(Blames(D)) + Cardinality(Blames(E))
         /\ Cardinality(Blames(D)) \in Nat
<1>1. ASSUME NEW F, NEW G, F \subseteq D, G \subseteq E
      PROVE  Cardinality(F \cup G) = Cardinality(F) + Cardinality(G) /\ Cardinality(F) \in Nat
  <2>1. IsFiniteSet(F) /\ IsFiniteSet(G) /\ F \cap G = {}
    BY <1>1, FS_Subset DEF History
  <2>2. QED
    BY <2>1, DisjointSets, FS_CardinalityType
<1>2. Errors(D \cup E) = Errors(D) + Errors(E) /\ Errors(D) \in Nat
  <2>1. Charged(D \cup E) = Charged(D) \cup Charged(E) /\ Charged(D) \subseteq D /\ Charged(E) \subseteq E
    BY DEF Charged
  <2>2. QED
    BY <1>1, <2>1 DEF Errors, Charged
<1>3. Cardinality(Blames(D \cup E)) = Cardinality(Blames(D)) + Cardinality(Blames(E)) /\ Cardinality(Blames(D)) \in Nat
  <2>1. Blames(D \cup E) = Blames(D) \cup Blames(E) /\ Blames(D) \subseteq D /\ Blames(E) \subseteq E
    BY DEF Blames
  <2>2. QED
    BY <1>1, <2>1
<1>4. QED
  BY <1>2, <1>3

-------------------------------------------------------------------------------
(* Statistics that tell what happened.                                        *)

Figures ==
  [requests : Nat, errors : Nat, extractFailures : Nat, templateErrors : Nat, types : Seq(Entries(Nat)),
   sample : SUBSET Sample, seen : Nat, steps : Seq(Entries(SUBSET Sample)), stepErrors : Seq(Entries(Nat))]

NumbersTell(s, D) ==
  /\ s.requests = Cardinality(OfKind(D, "answer")) /\ s.seen = s.requests
  /\ s.errors = Errors(D)
  /\ s.templateErrors = Cardinality(OfKind(D, "unrendered"))
  /\ s.extractFailures = Cardinality(Givings(OfKind(D, "unextracted")))

TypesTell(t, D) ==
  /\ Capped(t) /\ SumValues(t) = Cardinality(Givings(D))
  /\ \A k \in Name \ {OtherErrors} : ValueAt(t, k, 0) <= Times(k, D)
  /\ OtherErrors \notin Keys(t) => \A k \in Name : ValueAt(t, k, 0) = Times(k, D)

StepsTell(t, D) == Filed(t) /\ SamplesOf(t) = {d.sample : d \in Stepped(D)}
BlamesTell(t, D) == Dict(t, Nat) /\ SumValues(t) = Cardinality(Blames(D))

Taken(D) == {d.sample : d \in OfKind(D, "answer")}

Tells(s, D) ==
  /\ s \in Figures /\ History(D)
  /\ NumbersTell(s, D) /\ TypesTell(s.types, D) /\ StepsTell(s.steps, D) /\ BlamesTell(s.stepErrors, D)
  /\ s.sample \subseteq Taken(D)

LEMMA NothingTold == Tells(NoStats, {})
<1>1. History({}) /\ Givings({}) = {} /\ Cardinality({}) = 0
  BY FS_EmptySet, GivingsUnion DEF History
<1>2. OfKind({}, "answer") = {} /\ OfKind({}, "unrendered") = {} /\ OfKind({}, "unextracted") = {} /\ Stepped({}) = {} /\ Blames({}) = {}
  BY DEF OfKind, Stepped, Blames
<1>3. Errors({}) = 0
  BY <1>1 DEF Errors
<1>4. \A k : Times(k, {}) = 0
  <2>1. \A k : {g \in Givings({}) : Key(g) = k} = {}
    BY <1>1
  <2>2. QED
    BY <1>1, <2>1 DEF Times
<1>5. \A V : Dict(<<>>, V)
  BY NothingIsDict
<1>6. Keys(<<>>) = {} /\ SumValues(<<>>) = 0 /\ \A k, none : ValueAt(<<>>, k, none) = none
  BY NothingIsDict
<1>7. TypesTell(<<>>, {})
  <2>1. Capped(<<>>)
    BY <1>5, <1>6, StatisticsAssumption DEF Capped
  <2>2. SumValues(<<>>) = Cardinality(Givings({}))
    BY <1>1, <1>6
  <2>3. \A k : ValueAt(<<>>, k, 0) = 0 /\ Times(k, {}) = 0 /\ 0 <= 0
    BY <1>4, <1>6
  <2>4. \A k : ValueAt(<<>>, k, 0) = Times(k, {}) /\ ValueAt(<<>>, k, 0) <= Times(k, {})
    BY <2>3
  <2>5. QED
    BY <2>1, <2>2, <2>4 DEF TypesTell
<1>8. StepsTell(<<>>, {})
  BY <1>2, <1>5, <1>6 DEF StepsTell, Filed, SamplesOf
<1>9. BlamesTell(<<>>, {})
  BY <1>1, <1>2, <1>5, <1>6 DEF BlamesTell
<1>10. NoStats \in Figures /\ NumbersTell(NoStats, {})
  BY <1>1, <1>2, <1>3 DEF NoStats, Figures, NumbersTell
<1>11. QED
  BY <1>1, <1>7, <1>8, <1>9, <1>10 DEF Tells, NoStats

-------------------------------------------------------------------------------
(* The statistics of two make one.                                            *)

LEMMA TypesTellUnion ==
  ASSUME NEW D, History(D), NEW E, History(E), D \cap E = {},
         NEW m, TypesTell(m, D), NEW p, TypesTell(p, E), NEW t, TypesOf(t, m, p)
  PROVE  TypesTell(t, D \cup E)
<1>1. /\ Cardinality(Givings(D \cup E)) = Cardinality(Givings(D)) + Cardinality(Givings(E))
      /\ \A k : Times(k, D \cup E) = Times(k, D) + Times(k, E)
  BY GivingsAdd
<1>2. \A k : Times(k, D) \in Nat /\ Times(k, E) \in Nat
  BY GivingsAdd
<1>3. Capped(t) /\ SumValues(t) = Cardinality(Givings(D \cup E))
  BY <1>1 DEF TypesOf, TypesTell
<1>4. Dict(m, Nat) /\ Dict(p, Nat) /\ Dict(t, Nat)
  BY DEF TypesTell, TypesOf, Capped
<1>5. ASSUME NEW k \in Name \ {OtherErrors} PROVE ValueAt(t, k, 0) <= Times(k, D \cup E)
  <2>1. ValueAt(t, k, 0) <= ValueAt(m, k, 0) + ValueAt(p, k, 0)
    BY DEF TypesOf
  <2>2. ValueAt(m, k, 0) <= Times(k, D) /\ ValueAt(p, k, 0) <= Times(k, E)
    BY DEF TypesTell
  <2>3. ValueAt(t, k, 0) \in Nat /\ ValueAt(m, k, 0) \in Nat /\ ValueAt(p, k, 0) \in Nat
    BY <1>4, ValueIsNat
  <2>4. QED
    BY <1>1, <1>2, <2>1, <2>2, <2>3
<1>6. ASSUME OtherErrors \notin Keys(t), NEW k \in Name PROVE ValueAt(t, k, 0) = Times(k, D \cup E)
  <2>1. ValueAt(t, k, 0) = ValueAt(m, k, 0) + ValueAt(p, k, 0) /\ OtherErrors \notin Keys(m) /\ OtherErrors \notin Keys(p)
    BY <1>6 DEF TypesOf
  <2>2. ValueAt(m, k, 0) = Times(k, D) /\ ValueAt(p, k, 0) = Times(k, E)
    BY <2>1 DEF TypesTell
  <2>3. QED
    BY <1>1, <2>1, <2>2
<1>7. QED
  BY <1>3, <1>5, <1>6 DEF TypesTell

LEMMA PlusTells ==
  ASSUME NEW D, NEW E, D \cap E = {}, NEW m, Tells(m, D), NEW p, Tells(p, E)
  PROVE  Tells(Plus(m, p), D \cup E)
<1> DEFINE s == Plus(m, p)
           t == FoldLeft(LAMBDA d, e : Counted(d, e.key, e.value), m.types, p.types)
           u == FoldLeft(LAMBDA d, e : Timed(d, e.key, e.value), m.steps, p.steps)
           v == FoldLeft(LAMBDA d, e : Blamed(d, e.key, e.value), m.stepErrors, p.stepErrors)
<1>1. History(D) /\ History(E) /\ m \in Figures /\ p \in Figures
  BY DEF Tells
<1>2. History(D \cup E)
  BY <1>1, HistoryUnion
<1>3. TypesTell(t, D \cup E)
  <2>1. TypesOf(t, m.types, p.types)
    BY TypesMerge DEF Tells, TypesTell
  <2> HIDE DEF t
  <2>2. QED
    BY <1>1, <2>1, TypesTellUnion DEF Tells
<1>4. StepsTell(u, D \cup E)
  <2>1. Filed(u) /\ SamplesOf(u) = SamplesOf(m.steps) \cup SamplesOf(p.steps)
    BY SamplesMerge DEF Tells, StepsTell
  <2> HIDE DEF u
  <2>2. Stepped(D \cup E) = Stepped(D) \cup Stepped(E)
    BY DEF Stepped, OfKind
  <2>3. SamplesOf(m.steps) = {d.sample : d \in Stepped(D)} /\ SamplesOf(p.steps) = {d.sample : d \in Stepped(E)}
    BY DEF Tells, StepsTell
  <2>4. SamplesOf(u) = {d.sample : d \in Stepped(D \cup E)}
    BY <2>1, <2>2, <2>3
  <2>5. QED
    BY <2>1, <2>4 DEF StepsTell
<1>5. BlamesTell(v, D \cup E)
  <2>1. Dict(v, Nat) /\ SumValues(v) = SumValues(m.stepErrors) + SumValues(p.stepErrors)
    BY BlamesMerge DEF Tells, BlamesTell
  <2> HIDE DEF v
  <2>2. Cardinality(Blames(D \cup E)) = Cardinality(Blames(D)) + Cardinality(Blames(E))
    BY <1>1, FaultsAdd
  <2>3. QED
    BY <2>1, <2>2 DEF Tells, BlamesTell
<1>6. /\ t \in Seq(Entries(Nat)) /\ u \in Seq(Entries(SUBSET Sample)) /\ v \in Seq(Entries(Nat))
  <2> HIDE DEF t, u, v
  <2> QED BY <1>3, <1>4, <1>5 DEF TypesTell, Capped, StepsTell, Filed, BlamesTell, Dict
<1>7. s = [requests |-> m.requests + p.requests, errors |-> m.errors + p.errors,
           extractFailures |-> m.extractFailures + p.extractFailures,
           templateErrors |-> m.templateErrors + p.templateErrors, types |-> t, sample |-> {}, seen |-> m.seen + p.seen,
           steps |-> u, stepErrors |-> v]
  BY DEF Plus
<1> HIDE DEF s, t, u, v
<1>8. s \in Figures /\ s.types = t /\ s.steps = u /\ s.stepErrors = v /\ s.sample = {}
  <2>0. \A r \in Figures : /\ r.requests \in Nat /\ r.errors \in Nat /\ r.extractFailures \in Nat
                            /\ r.templateErrors \in Nat /\ r.seen \in Nat
    BY DEF Figures
  <2>1. /\ m.requests + p.requests \in Nat /\ m.errors + p.errors \in Nat /\ m.extractFailures + p.extractFailures \in Nat
        /\ m.templateErrors + p.templateErrors \in Nat /\ m.seen + p.seen \in Nat
    BY <1>1, <2>0
  <2>2. {} \in SUBSET Sample
    OBVIOUS
  <2>3. QED
    BY <1>6, <1>7, <2>1, <2>2 DEF Figures
<1>9. NumbersTell(s, D \cup E)
  <2>1. /\ s.requests = m.requests + p.requests /\ s.errors = m.errors + p.errors /\ s.seen = m.seen + p.seen
        /\ s.extractFailures = m.extractFailures + p.extractFailures /\ s.templateErrors = m.templateErrors + p.templateErrors
    BY <1>7
  <2>2. NumbersTell(m, D) /\ NumbersTell(p, E)
    BY DEF Tells
  <2>3. \A kind : Cardinality(OfKind(D \cup E, kind)) = Cardinality(OfKind(D, kind)) + Cardinality(OfKind(E, kind))
    BY <1>1, KindsAdd
  <2>6. Errors(D \cup E) = Errors(D) + Errors(E)
    BY <1>1, FaultsAdd
  <2>4. Cardinality(Givings(OfKind(D \cup E, "unextracted"))) =
          Cardinality(Givings(OfKind(D, "unextracted"))) + Cardinality(Givings(OfKind(E, "unextracted")))
    <3>1. /\ OfKind(D \cup E, "unextracted") = OfKind(D, "unextracted") \cup OfKind(E, "unextracted")
          /\ History(OfKind(D, "unextracted")) /\ History(OfKind(E, "unextracted"))
          /\ OfKind(D, "unextracted") \cap OfKind(E, "unextracted") = {}
      BY <1>1, KindsAdd
    <3>2. QED
      BY <3>1, GivingsAdd
  <2>5. QED
    BY <2>1, <2>2, <2>3, <2>4, <2>6 DEF NumbersTell
<1>10. QED
  BY <1>2, <1>3, <1>4, <1>5, <1>8, <1>9 DEF Tells, s

LEMMA ReceivedIsSent ==
  ASSUME NEW D, NEW s, Tells(s, D)
  PROVE  Received(s) = s
<1>1. FoldLeft(LAMBDA d, e : Placed(d, e.key, e.value), <<>>, s.types) = s.types
  BY PlacedInOrder DEF Tells, TypesTell
<1>2. s \in Figures
  BY DEF Tells
<1>3. [s EXCEPT !.types = s.types] = s
  BY <1>2 DEF Figures
<1>4. QED
  BY <1>1, <1>3 DEF Received

-------------------------------------------------------------------------------
(* The statistics of many make one: c[i] is what happened to the i-th.        *)

Together(c, i) == UNION {c[j] : j \in 1..i}
ToldSoFar(c, q, i, a) == Tells(a, Together(c, i))
PutFigures(c, a, x) == Plus(a, x)
Totals == INSTANCE FoldTheorems WITH Op <- PutFigures, Claim <- ToldSoFar

\* What is told to be merged.
Parts(q, n, c) ==
  /\ n \in Nat /\ q \in Seq(Figures) /\ Len(q) = n
  /\ \A i \in 1..n : Tells(q[i], c[i])
  /\ \A i, j \in 1..n : i # j => c[i] \cap c[j] = {}

LEMMA SumTells ==
  ASSUME NEW q, NEW n, NEW c, Parts(q, n, c)
  PROVE  Tells(FoldLeft(Plus, NoStats, q), Together(c, n))
<1>1. ToldSoFar(c, q, 0, NoStats)
  <2>1. Together(c, 0) = {}
    BY DEF Together
  <2>2. QED
    BY <2>1, NothingTold DEF ToldSoFar
<1>2. ASSUME NEW i \in 1..n, NEW a, ToldSoFar(c, q, i - 1, a)
      PROVE  ToldSoFar(c, q, i, PutFigures(c, a, q[i]))
  <2>1. i \in Nat /\ 1..i = (1..(i - 1)) \cup {i} /\ \A j \in 1..(i - 1) : j \in 1..n /\ j # i
    BY DEF Parts
  <2>2. Together(c, i) = Together(c, i - 1) \cup c[i]
    BY <2>1 DEF Together
  <2>3. Together(c, i - 1) \cap c[i] = {}
    BY <2>1 DEF Together, Parts
  <2>4. Tells(Plus(a, q[i]), Together(c, i - 1) \cup c[i])
    BY <1>2, <2>3, PlusTells DEF ToldSoFar, Parts
  <2>5. QED
    BY <2>2, <2>4 DEF ToldSoFar, PutFigures
<1>3. \A i \in 1..Len(q) : \A a : ToldSoFar(c, q, i - 1, a) => ToldSoFar(c, q, i, PutFigures(c, a, q[i]))
  BY <1>2 DEF Parts
<1>4. q \in Seq(Figures)
  BY DEF Parts
<1>5. ToldSoFar(c, q, Len(q), Totals!Along(c, NoStats, q))
  BY <1>1, <1>3, <1>4, Totals!FoldClaim
<1>6. FoldLeft(Plus, NoStats, q) = Totals!Along(c, NoStats, q)
  BY DEF Totals!Along, Totals!Top, Totals!MapThenFoldSet, FoldLeft, MapThenFoldSet, Max, PutFigures
<1>7. QED
  BY <1>5, <1>6 DEF ToldSoFar, Parts

\* The samples of the whole are samples of the parts.
LEMMA MergedFrom ==
  ASSUME NEW q, NEW r \in MergedSamples(q)
  PROVE  r \subseteq UNION {q[i].sample : i \in DOMAIN q}
<1>1. PICK pool \in Pools(q) : r \in IF Cardinality(pool) <= Capacity THEN {pool} ELSE Subsets(pool, Capacity)
  BY DEF MergedSamples
<1>2. r \subseteq pool
  BY <1>1 DEF Subsets
<1>3. pool \subseteq UNION {q[i].sample : i \in DOMAIN q}
  <2> DEFINE all == SumOf(q, LAMBDA p : p.seen)
             drawn == [i \in DOMAIN q |-> Drawn(q[i], all)]
  <2>1. ASSUME NEW i \in DOMAIN q, NEW t \in drawn[i] PROVE t \subseteq q[i].sample
    BY <2>1 DEF Drawn, Subsets
  <2>2. pool = {} \/ \E f \in [DOMAIN q -> UNION Range(drawn)] : (\A i \in DOMAIN q : f[i] \in drawn[i]) /\ pool = UNION Range(f)
    <3>1. pool \in IF all = 0 THEN {{}}
                   ELSE {UNION Range(f) : f \in {f \in [DOMAIN q -> UNION Range(drawn)] : \A i \in DOMAIN q : f[i] \in drawn[i]}}
      BY DEF Pools
    <3> HIDE DEF all, drawn
    <3>2. QED
      BY <3>1
  <2> HIDE DEF all, drawn
  <2>3. CASE pool = {}
    BY <2>3
  <2>4. ASSUME NEW f \in [DOMAIN q -> UNION Range(drawn)], \A i \in DOMAIN q : f[i] \in drawn[i], pool = UNION Range(f)
        PROVE  pool \subseteq UNION {q[i].sample : i \in DOMAIN q}
    <3>1. \A i \in DOMAIN q : f[i] \subseteq q[i].sample
      BY <2>1, <2>4
    <3>2. QED
      BY <2>4, <3>1 DEF Range
  <2>5. QED
    BY <2>2, <2>3, <2>4
<1>4. QED
  BY <1>2, <1>3

LEMMA MergeTells ==
  ASSUME NEW q, NEW n, NEW c, Parts(q, n, c), NEW s \in Merged(q)
  PROVE  Tells(s, Together(c, n))
<1> DEFINE sum == FoldLeft(Plus, NoStats, q)
           D == Together(c, n)
<1>1. Tells(sum, D)
  BY SumTells
<1>2. PICK r \in MergedSamples(q) : s = [sum EXCEPT !.sample = r]
  BY DEF Merged
<1> HIDE DEF sum
<1>3. r \subseteq Taken(D)
  <2>1. r \subseteq UNION {q[i].sample : i \in DOMAIN q}
    BY MergedFrom
  <2>2. DOMAIN q = 1..n
    BY DEF Parts
  <2>3. ASSUME NEW i \in 1..n PROVE q[i].sample \subseteq Taken(D)
    <3>1. q[i].sample \subseteq Taken(c[i])
      BY DEF Parts, Tells
    <3>2. c[i] \subseteq D
      BY DEF Together
    <3>3. Taken(c[i]) \subseteq Taken(D)
      BY <3>2 DEF Taken, OfKind
    <3>4. QED
      BY <3>1, <3>3
  <2>4. QED
    BY <2>1, <2>2, <2>3
<1> HIDE DEF D
<1>4. Taken(D) \subseteq Sample
  BY <1>1 DEF Tells, History, Happened, Taken, OfKind
<1>5. sum \in Figures
  BY <1>1 DEF Tells
<1>6. /\ s \in Figures /\ s.requests = sum.requests /\ s.errors = sum.errors /\ s.extractFailures = sum.extractFailures
      /\ s.templateErrors = sum.templateErrors /\ s.types = sum.types /\ s.seen = sum.seen /\ s.steps = sum.steps
      /\ s.stepErrors = sum.stepErrors /\ s.sample = r
  BY <1>2, <1>3, <1>4, <1>5 DEF Figures
<1>7. QED
  BY <1>1, <1>3, <1>6 DEF Tells, NumbersTell, D

-------------------------------------------------------------------------------
(* The statistics of a worker to which something happens.                     *)

LEMMA TypesTellOneMore ==
  ASSUME NEW D, History(D), NEW d, d \notin D, Happened(d), NEW m, TypesTell(m, D),
         NEW t, KeysSoFar(m, d.event.keys, Len(d.event.keys), t)
  PROVE  TypesTell(t, D \cup {d})
<1> DEFINE ks == d.event.keys
           n == Len(ks)
<1>1. n \in Nat /\ Cardinality(Givings({d})) = n /\ \A k : Times(k, {d}) = Given(ks, n, k)
  <2>1. Givings({d}) = {d} \X DOMAIN ks
    BY GivingsUnion
  <2> HIDE DEF ks
  <2>2. QED
    BY <2>1, OneGivings DEF Times, ks
<1>2. History({d})
  BY FS_Singleton DEF History
<1>3. /\ Cardinality(Givings(D \cup {d})) = Cardinality(Givings(D)) + n
      /\ \A k : Times(k, D \cup {d}) = Times(k, D) + Given(ks, n, k)
  <2>1. D \cap {d} = {}
    OBVIOUS
  <2>2. /\ Cardinality(Givings(D \cup {d})) = Cardinality(Givings(D)) + Cardinality(Givings({d}))
        /\ \A k : Times(k, D \cup {d}) = Times(k, D) + Times(k, {d})
    BY <1>2, <2>1, GivingsAdd
  <2> HIDE DEF n, ks
  <2>3. QED
    BY <1>1, <2>2
<1>4. \A k : Times(k, D) \in Nat /\ Given(ks, n, k) \in Nat
  <2>1. History({}) /\ D \cap {} = {}
    BY FS_EmptySet DEF History
  <2>2. \A k : Times(k, D) \in Nat
    BY <2>1, GivingsAdd
  <2> HIDE DEF n, ks
  <2>3. \A k : Given(ks, n, k) \in Nat
    BY <1>1, GivenSteps
  <2>4. QED
    BY <2>2, <2>3
<1>5. KeysSoFar(m, ks, n, t)
  OBVIOUS
<1> HIDE DEF n, ks
<1>6. Capped(t) /\ SumValues(t) = Cardinality(Givings(D \cup {d}))
  BY <1>3, <1>5 DEF KeysSoFar, TypesTell
<1>7. Dict(m, Nat) /\ Dict(t, Nat)
  BY <1>5 DEF TypesTell, KeysSoFar, Capped
<1>8. ASSUME NEW k \in Name \ {OtherErrors} PROVE ValueAt(t, k, 0) <= Times(k, D \cup {d})
  <2>1. ValueAt(t, k, 0) <= ValueAt(m, k, 0) + Given(ks, n, k)
    BY <1>5 DEF KeysSoFar
  <2>2. ValueAt(m, k, 0) <= Times(k, D)
    BY DEF TypesTell
  <2>3. ValueAt(t, k, 0) \in Nat /\ ValueAt(m, k, 0) \in Nat
    BY <1>7, ValueIsNat
  <2>4. Times(k, D \cup {d}) = Times(k, D) + Given(ks, n, k) /\ Times(k, D) \in Nat /\ Given(ks, n, k) \in Nat
    BY <1>3, <1>4
  <2>5. QED
    BY <2>1, <2>2, <2>3, <2>4
<1>9. ASSUME OtherErrors \notin Keys(t), NEW k \in Name PROVE ValueAt(t, k, 0) = Times(k, D \cup {d})
  <2>1. ValueAt(t, k, 0) = ValueAt(m, k, 0) + Given(ks, n, k) /\ OtherErrors \notin Keys(m)
    BY <1>5, <1>9 DEF KeysSoFar
  <2>2. ValueAt(m, k, 0) = Times(k, D)
    BY <2>1 DEF TypesTell
  <2>3. QED
    BY <1>3, <2>1, <2>2
<1>10. QED
  BY <1>6, <1>8, <1>9 DEF TypesTell

LEMMA NoKeys ==
  ASSUME NEW m, Capped(m)
  PROVE  KeysSoFar(m, <<>>, Len(<<>>), m)
<1>1. Dict(m, Nat) /\ Len(<<>>) = 0
  BY DEF Capped
<1>2. SumValues(m) \in Nat /\ \A j : ValueAt(m, j, 0) \in Nat
  BY <1>1, SumOfNumbers, ValueIsNat
<1>3. \A j : Given(<<>>, 0, j) = 0
  BY GivenSteps
<1>4. SumValues(m) = SumValues(m) + 0 /\ \A j : ValueAt(m, j, 0) = ValueAt(m, j, 0) + 0 /\ ValueAt(m, j, 0) <= ValueAt(m, j, 0) + 0
  BY <1>2
<1>5. {<<>>[h] : h \in 1..0} = {}
  OBVIOUS
<1>6. QED
  BY <1>1, <1>3, <1>4, <1>5 DEF KeysSoFar

\* One event more: what it adds to each number.
LEMMA OneMore ==
  ASSUME NEW D, History(D), NEW d, d \notin D, Happened(d)
  PROVE  /\ History(D \cup {d})
         /\ \A kind : Cardinality(OfKind(D \cup {d}, kind)) = Cardinality(OfKind(D, kind)) + IF d.event.kind = kind THEN 1 ELSE 0
         /\ Errors(D \cup {d}) = Errors(D) + IF d.event.charged THEN 1 ELSE 0
         /\ Cardinality(Blames(D \cup {d})) =
              Cardinality(Blames(D)) + IF d.event.step # NoStep /\ (d.event.kind = "unsent" \/ (d.event.kind = "answer" /\ d.event.charged))
                                       THEN 1 ELSE 0
         /\ Cardinality(Givings(OfKind(D \cup {d}, "unextracted"))) =
              Cardinality(Givings(OfKind(D, "unextracted"))) + IF d.event.kind = "unextracted" THEN Len(d.event.keys) ELSE 0
<1>1. History({d}) /\ D \cap {d} = {} /\ Cardinality({d}) = 1 /\ Cardinality({}) = 0
  BY FS_Singleton, FS_EmptySet DEF History
<1>2. History(D \cup {d})
  BY <1>1, HistoryUnion
<1>3. ASSUME NEW kind
      PROVE  /\ Cardinality(OfKind(D \cup {d}, kind)) = Cardinality(OfKind(D, kind)) + IF d.event.kind = kind THEN 1 ELSE 0
             /\ Cardinality(Givings(OfKind(D \cup {d}, kind))) =
                  Cardinality(Givings(OfKind(D, kind))) + IF d.event.kind = kind THEN Len(d.event.keys) ELSE 0
  <2>1. OfKind({d}, kind) = IF d.event.kind = kind THEN {d} ELSE {}
    BY DEF OfKind
  <2>2. Cardinality(OfKind({d}, kind)) = IF d.event.kind = kind THEN 1 ELSE 0
    BY <1>1, <2>1
  <2>3. Cardinality(OfKind(D \cup {d}, kind)) = Cardinality(OfKind(D, kind)) + Cardinality(OfKind({d}, kind))
    <3> DEFINE E == {d}
    <3>1. History(E) /\ D \cap E = {}
      BY <1>1
    <3> HIDE DEF E
    <3>2. Cardinality(OfKind(D \cup E, kind)) = Cardinality(OfKind(D, kind)) + Cardinality(OfKind(E, kind))
      BY <3>1, KindsAdd
    <3>3. QED
      BY <3>2 DEF E
  <2>4. Cardinality(Givings(OfKind({d}, kind))) = IF d.event.kind = kind THEN Len(d.event.keys) ELSE 0
    <3>1. Cardinality(Givings({d})) = Len(d.event.keys)
      BY GivingsUnion, OneGivings
    <3>2. Givings({}) = {}
      BY GivingsUnion
    <3>3. QED
      BY <1>1, <2>1, <3>1, <3>2
  <2>5. /\ OfKind(D \cup {d}, kind) = OfKind(D, kind) \cup OfKind({d}, kind)
        /\ History(OfKind(D, kind)) /\ History(OfKind({d}, kind))
        /\ OfKind(D, kind) \cap OfKind({d}, kind) = {}
    BY <1>1, KindsAdd
  <2>6. Cardinality(Givings(OfKind(D \cup {d}, kind))) = Cardinality(Givings(OfKind(D, kind))) + Cardinality(Givings(OfKind({d}, kind)))
    BY <2>5, GivingsAdd
  <2>7. QED
    BY <2>2, <2>3, <2>4, <2>6
<1>4. Errors(D \cup {d}) = Errors(D) + IF d.event.charged THEN 1 ELSE 0
  <2>1. Charged({d}) = IF d.event.charged THEN {d} ELSE {}
    BY DEF Charged
  <2>2. Errors({d}) = IF d.event.charged THEN 1 ELSE 0
    BY <1>1, <2>1 DEF Errors, Charged
  <2>3. QED
    BY <1>1, <2>2, FaultsAdd
<1>5. Cardinality(Blames(D \cup {d})) =
        Cardinality(Blames(D)) + IF d.event.step # NoStep /\ (d.event.kind = "unsent" \/ (d.event.kind = "answer" /\ d.event.charged))
                                 THEN 1 ELSE 0
  <2> DEFINE blame == d.event.step # NoStep /\ (d.event.kind = "unsent" \/ (d.event.kind = "answer" /\ d.event.charged))
  <2>1. Blames({d}) = IF blame THEN {d} ELSE {}
    BY DEF Blames
  <2> HIDE DEF blame
  <2>2. Cardinality(Blames({d})) = IF blame THEN 1 ELSE 0
    BY <1>1, <2>1
  <2>3. Cardinality(Blames(D \cup {d})) = Cardinality(Blames(D)) + IF blame THEN 1 ELSE 0
    BY <1>1, <2>2, FaultsAdd
  <2>4. QED
    BY <2>3 DEF blame
<1>6. QED
  BY <1>2, <1>3, <1>4, <1>5

IsBlame(d) == d.event.step # NoStep /\ (d.event.kind = "unsent" \/ (d.event.kind = "answer" /\ d.event.charged))

\* f is s but for its errors, which count charge more, and what tells of them.
FaultTold(f, s, charge, D) ==
  /\ f \in Figures /\ f.errors = s.errors + charge /\ TypesTell(f.types, D) /\ BlamesTell(f.stepErrors, D)
  /\ f.requests = s.requests /\ f.extractFailures = s.extractFailures /\ f.templateErrors = s.templateErrors
  /\ f.sample = s.sample /\ f.seen = s.seen /\ f.steps = s.steps

LEMMA FiguresTyped ==
  ASSUME NEW s \in Figures
  PROVE  /\ s.requests \in Nat /\ s.errors \in Nat /\ s.extractFailures \in Nat /\ s.templateErrors \in Nat /\ s.seen \in Nat
         /\ s.types \in Seq(Entries(Nat)) /\ s.sample \in SUBSET Sample /\ s.steps \in Seq(Entries(SUBSET Sample))
         /\ s.stepErrors \in Seq(Entries(Nat))
BY DEF Figures

LEMMA FaultedTells ==
  ASSUME NEW D, History(D), NEW d, d \notin D, Happened(d),
         NEW s \in Figures, TypesTell(s.types, D), BlamesTell(s.stepErrors, D),
         NEW step, IF IsBlame(d) THEN step = d.event.step ELSE step = NoStep, NEW charge \in Nat
  PROVE  FaultTold(Faulted(s, step, d.event.keys, charge), s, charge, D \cup {d})
<1> DEFINE t == FoldLeft(LAMBDA x, k : Counted(x, k, 1), s.types, d.event.keys)
           u == IF step = NoStep THEN s.stepErrors ELSE Blamed(s.stepErrors, step, 1)
           f == Faulted(s, step, d.event.keys, charge)
           D1 == D \cup {d}
<1>1. TypesTell(t, D1)
  <2>1. Capped(s.types)
    BY DEF TypesTell
  <2>2. d.event.keys \in Seq(Name \ {OtherErrors})
    BY OneGivings
  <2>3. KeysSoFar(s.types, d.event.keys, Len(d.event.keys), t)
    BY <2>1, <2>2, KeysFold
  <2> HIDE DEF t
  <2>4. QED
    BY <2>3, TypesTellOneMore
<1>2. BlamesTell(u, D1)
  <2>1. Cardinality(Blames(D1)) = Cardinality(Blames(D)) + IF IsBlame(d) THEN 1 ELSE 0
    BY OneMore DEF IsBlame
  <2>2. Cardinality(Blames(D)) \in Nat
    <3>1. History({}) /\ D \cap {} = {}
      BY FS_EmptySet DEF History
    <3>2. QED
      BY <3>1, FaultsAdd
  <2>3. CASE IsBlame(d)
    <3>1. step # NoStep /\ step \in Name
      <4>1. step = d.event.step /\ d.event.step # NoStep
        BY <2>3 DEF IsBlame
      <4>2. d.event.step \in STRING
        BY DEF Happened, EventKind
      <4>3. QED
        BY <4>1, <4>2 DEF Name
    <3>2. Dict(s.stepErrors, Nat) /\ SumValues(s.stepErrors) = Cardinality(Blames(D))
      BY DEF BlamesTell
    <3>3. Dict(Blamed(s.stepErrors, step, 1), Nat) /\ SumValues(Blamed(s.stepErrors, step, 1)) = SumValues(s.stepErrors) + 1
      BY <3>1, <3>2, BlamedStep
    <3>4. QED
      BY <2>1, <2>3, <3>1, <3>2, <3>3 DEF BlamesTell
  <2>4. CASE ~IsBlame(d)
    <3>1. u = s.stepErrors /\ Cardinality(Blames(D1)) = Cardinality(Blames(D))
      BY <2>1, <2>2, <2>4
    <3> HIDE DEF u, D1
    <3>2. QED
      BY <3>1 DEF BlamesTell
  <2>5. QED
    BY <2>3, <2>4
<1>3. t \in Seq(Entries(Nat)) /\ u \in Seq(Entries(Nat))
  <2> HIDE DEF t, u
  <2> QED BY <1>1, <1>2 DEF TypesTell, Capped, BlamesTell, Dict
<1>4. f = [s EXCEPT !.errors = @ + charge, !.types = t, !.stepErrors = u]
  BY DEF Faulted
<1> HIDE DEF f, t, u
<1>5. s.errors + charge \in Nat
  BY FiguresTyped
<1>6. f = [requests |-> s.requests, errors |-> s.errors + charge, extractFailures |-> s.extractFailures,
           templateErrors |-> s.templateErrors, types |-> t, sample |-> s.sample, seen |-> s.seen, steps |-> s.steps,
           stepErrors |-> u]
  BY <1>4 DEF Figures
<1>7. f \in Figures
  BY <1>3, <1>5, <1>6, FiguresTyped DEF Figures
<1>8. f.types = t /\ f.stepErrors = u
  BY <1>6
<1>9. QED
  BY <1>1, <1>2, <1>6, <1>7, <1>8 DEF FaultTold, f

Charge(e) == IF e.charged THEN 1 ELSE 0

\* What the statistics of a worker become with an event.
Outcomes(s, d) ==
  CASE d.event.kind = "answer"      -> Answered(s, d.sample, d.event.charged, d.event.keys)
    [] d.event.kind = "unrendered"  -> {Unrendered(s, d.event.keys, Charge(d.event))}
    [] d.event.kind = "unsent"      -> {Unsent(s, d.event.step, d.event.keys, Charge(d.event))}
    [] d.event.kind = "unextracted" -> {Unextracted(s, d.event.keys, Charge(d.event))}

LEMMA NoAnswerTells ==
  ASSUME NEW D, NEW d, d \notin D, Happened(d), d.event.kind # "answer", NEW s, Tells(s, D), NEW t \in Outcomes(s, d)
  PROVE  Tells(t, D \cup {d}) /\ t.sample = s.sample
<1> DEFINE D1 == D \cup {d}
           e == d.event
           step == IF e.kind = "unsent" THEN e.step ELSE NoStep
           f == Faulted(s, step, e.keys, Charge(e))
<1>1. History(D) /\ s \in Figures /\ NumbersTell(s, D) /\ History(D1)
  BY OneMore DEF Tells
<1>2. e.kind \in {"unrendered", "unsent", "unextracted"} /\ Charge(e) \in Nat /\ e.keys \in Seq(Name \ {OtherErrors})
  <2>1. e.keys \in Seq(Name \ {OtherErrors})
    BY OneGivings
  <2>2. e.kind \in {"unrendered", "unsent", "unextracted"} /\ Charge(e) \in Nat
    BY DEF Happened, EventKind, Charge
  <2>3. QED
    BY <2>1, <2>2
<1>3. FaultTold(f, s, Charge(e), D1)
  <2>1. IF IsBlame(d) THEN step = d.event.step ELSE step = NoStep
    BY DEF IsBlame
  <2>2. TypesTell(s.types, D) /\ BlamesTell(s.stepErrors, D)
    BY DEF Tells
  <2> HIDE DEF step, e
  <2>3. FaultTold(Faulted(s, step, d.event.keys, Charge(e)), s, Charge(e), D \cup {d})
    BY <1>1, <1>2, <2>1, <2>2, FaultedTells
  <2>4. QED
    BY <2>3 DEF e
<1>4. t = IF e.kind = "unrendered" THEN [f EXCEPT !.templateErrors = @ + 1]
          ELSE IF e.kind = "unsent" THEN f ELSE [f EXCEPT !.extractFailures = @ + Len(e.keys)]
  BY <1>2 DEF Outcomes, Unrendered, Unsent, Unextracted
<1> DEFINE noText == IF e.kind = "unrendered" THEN 1 ELSE 0
           noKeys == IF e.kind = "unextracted" THEN Len(e.keys) ELSE 0
<1>5. noText \in Nat /\ noKeys \in Nat
  <2>1. Len(e.keys) \in Nat
    <3> DEFINE ks == e.keys
    <3>1. ks \in Seq(Name \ {OtherErrors})
      BY <1>2
    <3> HIDE DEF ks
    <3>2. Len(ks) \in Nat
      BY <3>1
    <3>3. QED
      BY <3>2 DEF ks
  <2>2. QED
    BY <2>1
<1> HIDE DEF f, D1
<1>6. f \in Figures
  BY <1>3 DEF FaultTold
<1>7. /\ t \in Figures /\ t.requests = f.requests /\ t.errors = f.errors /\ t.types = f.types /\ t.sample = f.sample
      /\ t.seen = f.seen /\ t.steps = f.steps /\ t.stepErrors = f.stepErrors
      /\ t.templateErrors = f.templateErrors + noText /\ t.extractFailures = f.extractFailures + noKeys
  <2>1. CASE e.kind = "unrendered"
    <3>1. f.templateErrors + 1 \in Nat /\ f.extractFailures + 0 = f.extractFailures
      BY <1>6, FiguresTyped
    <3>2. t = [f EXCEPT !.templateErrors = f.templateErrors + 1] /\ noText = 1 /\ noKeys = 0
      BY <1>4, <2>1
    <3>3. QED
      BY <1>6, <3>1, <3>2 DEF Figures
  <2>2. CASE e.kind = "unsent"
    <3>1. f.templateErrors + 0 = f.templateErrors /\ f.extractFailures + 0 = f.extractFailures
      BY <1>6, FiguresTyped
    <3>2. t = f /\ noText = 0 /\ noKeys = 0
      BY <1>4, <2>2
    <3>3. QED
      BY <1>6, <3>1, <3>2
  <2>3. CASE e.kind = "unextracted"
    <3>1. f.templateErrors + 0 = f.templateErrors /\ f.extractFailures + noKeys \in Nat
      <4> HIDE DEF noKeys
      <4> QED BY <1>5, <1>6, FiguresTyped
    <3>2. t = [f EXCEPT !.extractFailures = f.extractFailures + noKeys] /\ noText = 0
      BY <1>4, <2>3
    <3> HIDE DEF noKeys
    <3>3. QED
      BY <1>6, <3>1, <3>2 DEF Figures
  <2>4. QED
    BY <1>2, <2>1, <2>2, <2>3
<1>8. NumbersTell(t, D1)
  <2>1. /\ Cardinality(OfKind(D1, "answer")) = Cardinality(OfKind(D, "answer")) + 0
        /\ Cardinality(OfKind(D1, "unrendered")) = Cardinality(OfKind(D, "unrendered")) + noText
        /\ Errors(D1) = Errors(D) + Charge(e)
        /\ Cardinality(Givings(OfKind(D1, "unextracted"))) = Cardinality(Givings(OfKind(D, "unextracted"))) + noKeys
    BY <1>1, OneMore DEF Charge, D1
  <2>2. /\ f.requests = s.requests /\ f.seen = s.seen /\ f.errors = s.errors + Charge(e)
        /\ f.templateErrors = s.templateErrors /\ f.extractFailures = s.extractFailures
    BY <1>3 DEF FaultTold
  <2>3. s.requests + 0 = s.requests
    BY <1>1, FiguresTyped
  <2> HIDE DEF noText, noKeys, e
  <2>4. QED
    BY <1>1, <1>7, <2>1, <2>2, <2>3 DEF NumbersTell
<1>9. StepsTell(t.steps, D1) /\ t.sample \subseteq Taken(D1) /\ t.sample = s.sample
  <2>1. OfKind(D1, "answer") = OfKind(D, "answer")
    BY DEF OfKind, D1
  <2>2. Stepped(D1) = Stepped(D) /\ Taken(D1) = Taken(D)
    BY <2>1 DEF Stepped, Taken
  <2>3. t.steps = s.steps /\ t.sample = s.sample
    BY <1>3, <1>7 DEF FaultTold
  <2>4. QED
    BY <2>2, <2>3 DEF Tells, StepsTell
<1>10. TypesTell(t.types, D1) /\ BlamesTell(t.stepErrors, D1)
  BY <1>3, <1>7 DEF FaultTold
<1>11. QED
  BY <1>1, <1>7, <1>8, <1>9, <1>10 DEF Tells, D1

LEMMA AnswerTells ==
  ASSUME NEW D, NEW d, d \notin D, Happened(d), d.event.kind = "answer", NEW s, Tells(s, D), NEW t \in Outcomes(s, d)
  PROVE  Tells(t, D \cup {d}) /\ t.sample \in Offered(s.sample, d.sample)
<1> DEFINE D1 == D \cup {d}
           e == d.event
           x == d.sample
           st == IF x.step = NoStep THEN s.steps ELSE Timed(s.steps, x.step, {x})
           a == [s EXCEPT !.requests = @ + 1, !.seen = @ + 1, !.steps = st]
           f == IF e.charged THEN Faulted(a, x.step, e.keys, 1) ELSE a
<1>1. History(D) /\ s \in Figures /\ NumbersTell(s, D) /\ History(D1)
  BY OneMore DEF Tells
<1>2. e.charged \in BOOLEAN /\ x \in Sample /\ x.step = e.step /\ e.step \in STRING /\ (~e.charged => e.keys = <<>>)
  BY DEF Happened, EventKind
<1>3. PICK r \in Offered(s.sample, x) : t = [f EXCEPT !.sample = r]
  BY DEF Outcomes, Answered
<1>4. StepsTell(st, D1)
  <2>1. Filed(s.steps) /\ SamplesOf(s.steps) = {c.sample : c \in Stepped(D)}
    BY DEF Tells, StepsTell
  <2>2. Stepped(D1) = IF e.step = NoStep THEN Stepped(D) ELSE Stepped(D) \cup {d}
    BY DEF Stepped, OfKind
  <2>3. CASE e.step = NoStep
    <3>1. st = s.steps /\ Stepped(D1) = Stepped(D)
      BY <1>2, <2>2, <2>3
    <3> HIDE DEF st, D1
    <3>2. QED
      BY <2>1, <3>1 DEF StepsTell
  <2>4. CASE e.step # NoStep
    <3>1. e.step \in Name /\ {x} \in SUBSET Sample /\ \A y \in {x} : y.step = e.step
      BY <1>2 DEF Name
    <3>2. st = Timed(s.steps, e.step, {x})
      BY <1>2, <2>4
    <3> HIDE DEF st, e, x
    <3>3. Filed(st) /\ SamplesOf(st) = SamplesOf(s.steps) \cup {x}
      BY <2>1, <3>1, <3>2, TimedStep
    <3>4. Stepped(D1) = Stepped(D) \cup {d}
      BY <2>2, <2>4
    <3> HIDE DEF D1
    <3>5. {c.sample : c \in Stepped(D1)} = {c.sample : c \in Stepped(D)} \cup {x}
      BY <3>4 DEF x
    <3>6. QED
      BY <2>1, <3>3, <3>5 DEF StepsTell
  <2>5. QED
    BY <2>3, <2>4
<1>5. st \in Seq(Entries(SUBSET Sample)) /\ s.requests + 1 \in Nat /\ s.seen + 1 \in Nat
  <2>1. st \in Seq(Entries(SUBSET Sample))
    <3> HIDE DEF st, D1
    <3> QED BY <1>4 DEF StepsTell, Filed, Dict
  <2>2. s.requests + 1 \in Nat /\ s.seen + 1 \in Nat
    BY <1>1, FiguresTyped
  <2>3. QED
    BY <2>1, <2>2
<1>6. /\ a \in Figures /\ a.requests = s.requests + 1 /\ a.seen = s.seen + 1 /\ a.steps = st /\ a.types = s.types
      /\ a.stepErrors = s.stepErrors /\ a.errors = s.errors /\ a.templateErrors = s.templateErrors
      /\ a.extractFailures = s.extractFailures /\ a.sample = s.sample
  <2> HIDE DEF st
  <2> QED BY <1>1, <1>5 DEF Figures
<1> HIDE DEF a, st
<1>7. FaultTold(f, a, Charge(e), D1)
  <2>1. TypesTell(s.types, D) /\ BlamesTell(s.stepErrors, D)
    BY DEF Tells
  <2>2. CASE e.charged
    <3>1. IF IsBlame(d) THEN x.step = d.event.step ELSE x.step = NoStep
      BY <1>2, <2>2 DEF IsBlame
    <3>2. TypesTell(a.types, D) /\ BlamesTell(a.stepErrors, D)
      BY <1>6, <2>1
    <3> DEFINE step == x.step
    <3>3. IF IsBlame(d) THEN step = d.event.step ELSE step = NoStep
      BY <3>1
    <3>4. f = Faulted(a, step, d.event.keys, 1) /\ Charge(e) = 1
      BY <2>2 DEF Charge
    <3> HIDE DEF step, f, e, x
    <3>5. FaultTold(Faulted(a, step, d.event.keys, 1), a, 1, D \cup {d})
      BY <1>1, <1>6, <3>2, <3>3, FaultedTells
    <3>6. QED
      BY <3>4, <3>5
  <2>3. CASE ~e.charged
    <3>1. f = a /\ Charge(e) = 0 /\ e.keys = <<>>
      BY <1>2, <2>3 DEF Charge
    <3>2. TypesTell(s.types, D1)
      <4>1. KeysSoFar(s.types, <<>>, Len(<<>>), s.types)
        BY <2>1, NoKeys DEF TypesTell
      <4>2. KeysSoFar(s.types, d.event.keys, Len(d.event.keys), s.types)
        BY <3>1, <4>1
      <4>3. QED
        BY <1>1, <2>1, <4>2, TypesTellOneMore
    <3>3. BlamesTell(s.stepErrors, D1)
      <4>1. Blames(D1) = Blames(D)
        BY <2>3 DEF Blames
      <4>2. QED
        BY <2>1, <4>1 DEF BlamesTell
    <3>4. a.errors = a.errors + 0
      BY <1>6, FiguresTyped
    <3> HIDE DEF f, D1
    <3>5. QED
      BY <1>6, <3>1, <3>2, <3>3, <3>4 DEF FaultTold
  <2>4. QED
    BY <1>2, <2>2, <2>3
<1> HIDE DEF f
<1>8. f \in Figures /\ r \in SUBSET Sample /\ r \subseteq Taken(D1)
  <2>1. s.sample \subseteq Taken(D) /\ s.sample \in SUBSET Sample
    BY <1>1, FiguresTyped DEF Tells
  <2>2. r \subseteq s.sample \cup {x}
    BY DEF Offered
  <2>3. Taken(D1) = Taken(D) \cup {x}
    BY DEF Taken, OfKind
  <2>4. QED
    BY <1>2, <1>7, <2>1, <2>2, <2>3 DEF FaultTold
<1>9. /\ t \in Figures /\ t.requests = f.requests /\ t.errors = f.errors /\ t.types = f.types /\ t.sample = r
      /\ t.seen = f.seen /\ t.steps = f.steps /\ t.stepErrors = f.stepErrors
      /\ t.templateErrors = f.templateErrors /\ t.extractFailures = f.extractFailures
  BY <1>3, <1>8 DEF Figures
<1>10. NumbersTell(t, D1)
  <2>1. /\ Cardinality(OfKind(D1, "answer")) = Cardinality(OfKind(D, "answer")) + 1
        /\ Cardinality(OfKind(D1, "unrendered")) = Cardinality(OfKind(D, "unrendered")) + 0
        /\ Errors(D1) = Errors(D) + Charge(e)
        /\ Cardinality(Givings(OfKind(D1, "unextracted"))) = Cardinality(Givings(OfKind(D, "unextracted"))) + 0
    BY <1>1, OneMore DEF Charge
  <2>2. /\ f.requests = s.requests + 1 /\ f.seen = s.seen + 1 /\ f.errors = s.errors + Charge(e)
        /\ f.templateErrors = s.templateErrors /\ f.extractFailures = s.extractFailures
    BY <1>6, <1>7 DEF FaultTold
  <2>3. s.templateErrors + 0 = s.templateErrors /\ s.extractFailures + 0 = s.extractFailures
    BY <1>1, FiguresTyped
  <2> HIDE DEF e, D1
  <2>4. QED
    BY <1>1, <1>9, <2>1, <2>2, <2>3 DEF NumbersTell
<1>11. TypesTell(t.types, D1) /\ BlamesTell(t.stepErrors, D1) /\ StepsTell(t.steps, D1)
  BY <1>4, <1>6, <1>7, <1>9 DEF FaultTold
<1>12. QED
  BY <1>1, <1>3, <1>8, <1>9, <1>10, <1>11 DEF Tells

-------------------------------------------------------------------------------
(* The inductive invariant.                                                   *)

OfWorker(w) == {d \in done : d.sample.by = w}
OfNode(n) == {d \in done : Works(d.sample.by, n)}

\* The plan, and what has happened.
DoneInv ==
  /\ plan \in Plans /\ nth \in DOMAIN plan /\ phase \in {"load", "judging", "judged", "reviewed"}
  /\ History(done)
  /\ \A d \in done : d.sample.no \in 1..Cardinality(done) /\ \E n \in DOMAIN run.nodes : Works(d.sample.by, n)

\* What workers have counted, and the nodes that have ended.
LoadInv ==
  phase = "load" =>
    /\ DOMAIN stats = Worker /\ DOMAIN parts = DOMAIN run.nodes
    /\ \A w \in Worker : Tells(stats[w], OfWorker(w))
    /\ \A n \in DOMAIN parts : parts[n] = <<>> \/ (parts[n] # <<>> /\ Tells(parts[n][1], OfNode(n)))

TotalInv == phase # "load" => Tells(total, done)

ToldInv == DoneInv /\ LoadInv /\ TotalInv

LEMMA RunIsPlanned ==
  ASSUME NEW s \in Plans, NEW i \in DOMAIN s
  PROVE  PlanKind(s[i]) /\ DOMAIN s = 1..Len(s) /\ Len(s) \in Nat
<1>1. PlanKind(s[i]) /\ s \in Seq(Range(s))
  BY ResultsAssumption
<1> DEFINE R == Range(s)
<1>2. s \in Seq(R)
  BY <1>1
<1> HIDE DEF R
<1>3. DOMAIN s = 1..Len(s) /\ Len(s) \in Nat
  BY <1>2
<1>4. QED
  BY <1>1, <1>3

\* A worker is in one place.
LEMMA OnePlace ==
  ASSUME NEW nodes, NodesKind(nodes)
  PROVE  /\ DOMAIN nodes = 1..Len(nodes) /\ Len(nodes) \in Nat
         /\ \A n \in DOMAIN nodes : /\ DOMAIN nodes[n] = 1..Len(nodes[n]) /\ Len(nodes[n]) \in Nat
                                    /\ \A i \in DOMAIN nodes[n] : nodes[n][i] \in Worker
         /\ \A m, n \in DOMAIN nodes : \A i \in DOMAIN nodes[m], j \in DOMAIN nodes[n] :
              nodes[m][i] = nodes[n][j] => m = n /\ i = j
<1>1. nodes \in Seq(Seq(Worker))
  BY DEF NodesKind
<1>2. ASSUME NEW n \in DOMAIN nodes
      PROVE  DOMAIN nodes[n] = 1..Len(nodes[n]) /\ Len(nodes[n]) \in Nat /\ \A i \in DOMAIN nodes[n] : nodes[n][i] \in Worker
  <2>1. nodes[n] \in Seq(Worker)
    BY <1>1
  <2>2. QED
    BY <2>1
<1>3. QED
  BY <1>1, <1>2 DEF NodesKind

LEMMA Start == Init => ToldInv
<1> SUFFICES ASSUME Init PROVE ToldInv
  OBVIOUS
<1>1. plan \in Plans /\ nth = 1 /\ 1 \in DOMAIN plan
  <2>1. plan \in Plans /\ nth = 1 /\ plan # <<>> /\ plan \in Seq(Range(plan))
    BY ResultsAssumption DEF Init
  <2> DEFINE R == Range(plan)
  <2>2. plan \in Seq(R)
    BY <2>1
  <2> HIDE DEF R
  <2>3. 1 \in DOMAIN plan
    BY <2>1, <2>2
  <2>4. QED
    BY <2>1, <2>3
<1>2. History(done) /\ done = {}
  BY FS_EmptySet DEF History, Init
<1>3. DoneInv
  BY <1>1, <1>2 DEF DoneInv, Init
<1>4. \A w : OfWorker(w) = {}
  BY <1>2 DEF OfWorker
<1>5. LoadInv
  BY <1>1, <1>4, NothingTold DEF LoadInv, Init, run
<1>6. QED
  BY <1>3, <1>5 DEF ToldInv, TotalInv, Init

\* One worker counts one event.
LEMMA RecordIsOneMore ==
  ASSUME ToldInv, NEW w \in Worker, Record(w)
  PROVE  \E d : /\ Happened(d) /\ d \notin done /\ done' = done \cup {d}
               /\ d.sample.by = w /\ d.sample.no = Cardinality(done) + 1
               /\ \E t \in Outcomes(stats[w], d) : stats' = [stats EXCEPT ![w] = t]
<1>1. /\ phase = "load" /\ phase' = phase /\ plan' = plan /\ nth' = nth /\ parts' = parts /\ run' = run
      /\ DoneInv /\ LoadInv
  BY DEF Record, ToldInv, run
<1>2. PICK e \in run.events :
        LET charge == IF e.charged THEN 1 ELSE 0
            x == [by |-> w, no |-> Cardinality(done) + 1, step |-> e.step, value |-> LatencyOf[w]]
        IN  /\ stats' \in {[stats EXCEPT ![w] = s] :
                             s \in CASE e.kind = "answer"      -> Answered(stats[w], x, e.charged, e.keys)
                                     [] e.kind = "unrendered"  -> {Unrendered(stats[w], e.keys, charge)}
                                     [] e.kind = "unsent"      -> {Unsent(stats[w], e.step, e.keys, charge)}
                                     [] e.kind = "unextracted" -> {Unextracted(stats[w], e.keys, charge)}}
            /\ e.kind # "answer" /\ ~e.charged => stats[w].errors > 0
            /\ done' = done \cup {[event |-> e, sample |-> x]}
  BY DEF Record
<1> DEFINE x == [by |-> w, no |-> Cardinality(done) + 1, step |-> e.step, value |-> LatencyOf[w]]
           d == [event |-> e, sample |-> x]
<1>4. PlanKind(run) /\ NodesKind(run.nodes)
  BY <1>1, RunIsPlanned DEF DoneInv, run, PlanKind
<1>5. Happened(d)
  <2>1. EventKind(e) /\ e.step \in STRING
    BY <1>4 DEF PlanKind, EventKind
  <2>2. Cardinality(done) + 1 \in Nat /\ LatencyOf[w] \in Nat
    <3>1. Cardinality(done) \in Nat
      BY <1>1, FS_CardinalityType DEF DoneInv, History
    <3>2. LatencyOf[w] \in Nat
      BY ResultsAssumption
    <3>3. QED
      BY <3>1, <3>2
  <2>3. x \in Sample
    BY <2>1, <2>2 DEF Sample
  <2>4. QED
    BY <2>1, <2>3 DEF Happened
<1>6. /\ d.event = e /\ d.sample = x /\ d.sample.by = w /\ d.sample.no = Cardinality(done) + 1
      /\ done' = done \cup {d}
  BY <1>2
<1>7. PICK t \in Outcomes(stats[w], d) : stats' = [stats EXCEPT ![w] = t]
  BY <1>2, <1>6 DEF Outcomes, Charge
<1> HIDE DEF d, x
<1>8. Cardinality(done) \in Nat /\ IsFiniteSet(done)
  BY <1>1, FS_CardinalityType DEF DoneInv, History
<1>9. d \notin done
  <2>1. d.sample.no \notin 1..Cardinality(done)
    BY <1>6, <1>8
  <2>2. QED
    BY <1>1, <2>1 DEF DoneInv
<1>10. QED
  BY <1>5, <1>6, <1>7, <1>9

LEMMA RecordKeeps == ASSUME ToldInv, NEW w \in Worker, Record(w) PROVE ToldInv'
<1>1. /\ phase = "load" /\ phase' = phase /\ plan' = plan /\ nth' = nth /\ parts' = parts /\ run' = run
      /\ DoneInv /\ LoadInv
  BY DEF Record, ToldInv, run
<1>2. PICK m \in DOMAIN parts : Works(w, m) /\ parts[m] = <<>>
  BY DEF Record
<1>3. PICK d : /\ Happened(d) /\ d \notin done /\ done' = done \cup {d}
               /\ d.sample.by = w /\ d.sample.no = Cardinality(done) + 1
               /\ \E t \in Outcomes(stats[w], d) : stats' = [stats EXCEPT ![w] = t]
  BY RecordIsOneMore
<1>4. PlanKind(run) /\ NodesKind(run.nodes)
  BY <1>1, RunIsPlanned DEF DoneInv, run, PlanKind
<1>5. Happened(d)
  BY <1>3
<1>6. d.sample.by = w /\ d.sample.no = Cardinality(done) + 1 /\ done' = done \cup {d}
  BY <1>3
<1>7. PICK t \in Outcomes(stats[w], d) : stats' = [stats EXCEPT ![w] = t]
  BY <1>3
<1>8. Cardinality(done) \in Nat /\ IsFiniteSet(done)
  BY <1>1, FS_CardinalityType DEF DoneInv, History
<1>9. d \notin done
  BY <1>3
<1>10. Cardinality(done') = Cardinality(done) + 1
  BY <1>6, <1>8, <1>9, FS_AddElement
<1>11. DoneInv'
  <2>1. History(done')
    BY <1>1, <1>5, <1>6, <1>9, OneMore DEF DoneInv
  <2>2. m \in DOMAIN run.nodes /\ Works(w, m)'
    BY <1>1, <1>2 DEF LoadInv, Works
  <2>3. ASSUME NEW c \in done' PROVE c.sample.no \in 1..Cardinality(done') /\ \E n \in DOMAIN run'.nodes : Works(c.sample.by, n)'
    <3>1. CASE c = d
      BY <1>1, <1>6, <1>8, <1>10, <2>2, <3>1 DEF Works
    <3>2. CASE c \in done
      <4>1. c.sample.no \in 1..Cardinality(done) /\ \E n \in DOMAIN run.nodes : Works(c.sample.by, n)
        BY <1>1, <3>2 DEF DoneInv
      <4>2. c.sample.no \in 1..(Cardinality(done) + 1)
        BY <1>8, <4>1
      <4>3. QED
        BY <1>1, <1>10, <4>1, <4>2 DEF Works
    <3>3. QED
      BY <1>6, <3>1, <3>2
  <2>4. QED
    BY <1>1, <2>1, <2>3 DEF DoneInv
<1>12. ASSUME NEW v \in Worker PROVE Tells(stats'[v], OfWorker(v)')
  <2>1. DOMAIN stats = Worker /\ Tells(stats[v], OfWorker(v)) /\ Tells(stats[w], OfWorker(w))
    BY <1>1 DEF LoadInv
  <2>2. CASE v = w
    <3>1. OfWorker(w)' = OfWorker(w) \cup {d} /\ d \notin OfWorker(w)
      BY <1>6, <1>9 DEF OfWorker
    <3>2. stats'[w] = t
      BY <1>7, <2>1
    <3>3. Tells(t, OfWorker(w) \cup {d})
      BY <1>5, <1>7, <2>1, <3>1, AnswerTells, NoAnswerTells
    <3>4. QED
      BY <2>2, <3>1, <3>2, <3>3
  <2>3. CASE v # w
    <3>1. OfWorker(v)' = OfWorker(v)
      BY <1>6, <2>3 DEF OfWorker
    <3>2. stats'[v] = stats[v]
      BY <1>7, <2>1, <2>3
    <3>3. QED
      BY <2>1, <3>1, <3>2
  <2>4. QED
    BY <2>2, <2>3
<1>13. ASSUME NEW n \in DOMAIN parts, parts[n] # <<>> PROVE Tells(parts[n][1], OfNode(n)')
  <2>1. Tells(parts[n][1], OfNode(n))
    BY <1>1, <1>13 DEF LoadInv
  <2>2. ~Works(w, n)
    <3>1. n # m /\ n \in DOMAIN run.nodes /\ m \in DOMAIN run.nodes
      BY <1>1, <1>2, <1>13 DEF LoadInv
    <3>2. QED
      BY <1>2, <1>4, <3>1 DEF Works, NodesKind
  <2>3. OfNode(n)' = OfNode(n)
    BY <1>1, <1>6, <2>2 DEF OfNode, Works
  <2>4. QED
    BY <2>1, <2>3
<1>14. LoadInv'
  <2>1. DOMAIN stats' = Worker
    BY <1>1, <1>7 DEF LoadInv
  <2>2. QED
    BY <1>1, <1>12, <1>13, <2>1 DEF LoadInv
<1>15. QED
  BY <1>1, <1>11, <1>14 DEF ToldInv, TotalInv

\* What the workers of a node counted.
LEMMA WorkersAreParts ==
  ASSUME ToldInv, phase = "load", NEW n \in DOMAIN run.nodes
  PROVE  LET q == [i \in DOMAIN run.nodes[n] |-> stats[run.nodes[n][i]]]
             c == [i \in DOMAIN run.nodes[n] |-> OfWorker(run.nodes[n][i])]
         IN  Parts(q, Len(run.nodes[n]), c) /\ Together(c, Len(run.nodes[n])) = OfNode(n)
<1> DEFINE ws == run.nodes[n]
           q == [i \in DOMAIN ws |-> stats[ws[i]]]
           c == [i \in DOMAIN ws |-> OfWorker(ws[i])]
<1>1. NodesKind(run.nodes)
  BY RunIsPlanned DEF ToldInv, DoneInv, run, PlanKind
<1>2. /\ DOMAIN ws = 1..Len(ws) /\ Len(ws) \in Nat /\ \A i \in DOMAIN ws : ws[i] \in Worker
      /\ \A i, j \in DOMAIN ws : ws[i] = ws[j] => i = j
  BY <1>1, OnePlace
<1>3. \A w \in Worker : Tells(stats[w], OfWorker(w))
  BY DEF ToldInv, LoadInv
<1>4. OfNode(n) = {d \in done : \E i \in DOMAIN ws : ws[i] = d.sample.by}
  BY DEF OfNode, Works
<1> HIDE DEF ws
<1>5. \A i \in DOMAIN ws : Tells(q[i], c[i]) /\ q[i] \in Figures
  BY <1>2, <1>3 DEF Tells
<1>6. q \in Seq(Figures) /\ Len(q) = Len(ws)
  <2> DEFINE k == Len(ws)
  <2>1. k \in Nat /\ q \in [1..k -> Figures]
    BY <1>2, <1>5
  <2> HIDE DEF k, q
  <2>2. q \in Seq(Figures) /\ Len(q) = k
    BY <2>1
  <2>3. QED
    BY <2>2 DEF k
<1>7. \A i, j \in DOMAIN ws : i # j => c[i] \cap c[j] = {}
  BY <1>2 DEF OfWorker
<1>8. Parts(q, Len(ws), c)
  <2> HIDE DEF q, c
  <2> QED BY <1>2, <1>5, <1>6, <1>7 DEF Parts
<1>9. Together(c, Len(ws)) = OfNode(n)
  BY <1>2, <1>4 DEF Together, OfWorker
<1>10. QED
  BY <1>8, <1>9 DEF ws

LEMMA EndNodeKeeps == ASSUME ToldInv, NEW n \in DOMAIN parts, EndNode(n) PROVE ToldInv'
<1>1. /\ phase = "load" /\ phase' = phase /\ plan' = plan /\ nth' = nth /\ stats' = stats /\ done' = done /\ run' = run
      /\ DoneInv /\ LoadInv
  BY DEF EndNode, ToldInv, run
<1>2. PICK s \in Merged([i \in DOMAIN run.nodes[n] |-> stats[run.nodes[n][i]]]) : parts' = [parts EXCEPT ![n] = <<s>>]
  BY DEF EndNode
<1>3. DOMAIN parts = DOMAIN run.nodes
  BY <1>1 DEF LoadInv
<1>4. Tells(s, OfNode(n))
  <2> DEFINE q == [i \in DOMAIN run.nodes[n] |-> stats[run.nodes[n][i]]]
             c == [i \in DOMAIN run.nodes[n] |-> OfWorker(run.nodes[n][i])]
             k == Len(run.nodes[n])
  <2>1. Parts(q, k, c) /\ Together(c, k) = OfNode(n)
    BY <1>1, <1>3, WorkersAreParts
  <2> HIDE DEF q, c, k
  <2>2. s \in Merged(q)
    BY <1>2 DEF q
  <2>3. QED
    BY <2>1, <2>2, MergeTells
<1>5. \A m : OfNode(m)' = OfNode(m)
  BY <1>1 DEF OfNode, Works
<1>6. \A w : OfWorker(w)' = OfWorker(w)
  BY <1>1 DEF OfWorker
<1>7. <<s>> # <<>> /\ <<s>>[1] = s
  OBVIOUS
<1>8. LoadInv'
  <2>1. ASSUME NEW m \in DOMAIN parts' PROVE parts'[m] = <<>> \/ (parts'[m] # <<>> /\ Tells(parts'[m][1], OfNode(m)'))
    <3>1. CASE m = n
      BY <1>2, <1>4, <1>5, <1>7, <3>1
    <3>2. CASE m # n
      BY <1>1, <1>2, <1>5, <3>2 DEF LoadInv
    <3>3. QED
      BY <3>1, <3>2
  <2>2. DOMAIN parts' = DOMAIN parts
    BY <1>2
  <2>3. QED
    BY <1>1, <1>6, <2>1, <2>2 DEF LoadInv
<1>9. DoneInv'
  BY <1>1 DEF DoneInv, Works
<1>10. QED
  BY <1>1, <1>8, <1>9 DEF ToldInv, TotalInv

\* What the nodes of a run report.
LEMMA NodesAreParts ==
  ASSUME ToldInv, phase = "load", \A n \in DOMAIN parts : parts[n] # <<>>
  PROVE  LET q == [n \in DOMAIN parts |-> Received(parts[n][1])]
             c == [n \in DOMAIN parts |-> OfNode(n)]
         IN  /\ Parts(q, Len(run.nodes), c) /\ Together(c, Len(run.nodes)) = done
             /\ \A n \in DOMAIN parts : q[n] = parts[n][1]
<1> DEFINE q == [n \in DOMAIN parts |-> Received(parts[n][1])]
           c == [n \in DOMAIN parts |-> OfNode(n)]
           k == Len(run.nodes)
<1>1. NodesKind(run.nodes)
  BY RunIsPlanned DEF ToldInv, DoneInv, run, PlanKind
<1>2. DOMAIN parts = 1..k /\ k \in Nat
  BY <1>1, OnePlace DEF ToldInv, LoadInv
<1>3. \A n \in DOMAIN parts : Tells(parts[n][1], OfNode(n))
  BY DEF ToldInv, LoadInv
<1>4. \A n \in DOMAIN parts : q[n] = parts[n][1]
  BY <1>3, ReceivedIsSent
<1>5. \A n \in DOMAIN parts : Tells(q[n], c[n]) /\ q[n] \in Figures
  <2> HIDE DEF q
  <2> QED BY <1>3, <1>4 DEF Tells
<1>6. q \in Seq(Figures) /\ Len(q) = k
  <2>1. q \in [1..k -> Figures]
    BY <1>2, <1>5
  <2> HIDE DEF k, q
  <2>2. QED
    BY <1>2, <2>1
<1>7. \A m, n \in DOMAIN parts : m # n => c[m] \cap c[n] = {}
  <2> SUFFICES ASSUME NEW m \in DOMAIN parts, NEW n \in DOMAIN parts, NEW d \in OfNode(m) \cap OfNode(n) PROVE m = n
    OBVIOUS
  <2>1. m \in DOMAIN run.nodes /\ n \in DOMAIN run.nodes
    BY DEF ToldInv, LoadInv
  <2>2. Works(d.sample.by, m) /\ Works(d.sample.by, n)
    BY DEF OfNode
  <2>3. QED
    BY <1>1, <2>1, <2>2 DEF Works, NodesKind
<1>8. Together(c, k) = done
  <2>1. ASSUME NEW d \in done PROVE \E n \in DOMAIN parts : d \in OfNode(n)
    BY DEF ToldInv, DoneInv, LoadInv, OfNode
  <2>2. \A n : OfNode(n) \subseteq done
    BY DEF OfNode
  <2>3. QED
    BY <1>2, <2>1, <2>2 DEF Together
<1>9. Parts(q, k, c)
  <2> HIDE DEF q, c, k
  <2> QED BY <1>2, <1>5, <1>6, <1>7 DEF Parts
<1>10. QED
  BY <1>4, <1>8, <1>9

LEMMA GatherKeeps == ASSUME ToldInv, Gather PROVE ToldInv'
<1>1. /\ phase = "load" /\ phase' = "judging" /\ plan' = plan /\ nth' = nth /\ done' = done /\ run' = run
      /\ \A n \in DOMAIN parts : parts[n] # <<>>
  BY DEF Gather, run
<1> DEFINE q == [n \in DOMAIN parts |-> Received(parts[n][1])]
           c == [n \in DOMAIN parts |-> OfNode(n)]
           k == Len(run.nodes)
<1>2. Parts(q, k, c) /\ Together(c, k) = done /\ \A n \in DOMAIN parts : q[n] = parts[n][1]
  BY <1>1, NodesAreParts
<1>3. total' \in IF k = 1 THEN {parts[1][1]} ELSE Merged(q)
  BY DEF Gather
<1>4. DOMAIN parts = DOMAIN run.nodes
  BY <1>1 DEF ToldInv, LoadInv
<1>5. Tells(total', done)
  <2>1. CASE k = 1
    <3>1. 1 \in 1..k /\ 1..k = {1}
      BY <2>1
    <3>2. Tells(q[1], c[1])
      BY <1>2, <3>1 DEF Parts
    <3>3. c[1] = done
      <4> HIDE DEF q, c, k
      <4> QED BY <1>2, <3>1 DEF Together
    <3>4. 1 \in DOMAIN parts
      <4>1. NodesKind(run.nodes)
        BY RunIsPlanned DEF ToldInv, DoneInv, run, PlanKind
      <4>2. QED
        BY <1>4, <3>1, <4>1, OnePlace
    <3>5. total' = q[1]
      BY <1>2, <1>3, <2>1, <3>4
    <3> HIDE DEF q, c, k
    <3>6. QED
      BY <3>2, <3>3, <3>5
  <2>2. CASE k # 1
    <3>1. total' \in Merged(q)
      BY <1>3, <2>2
    <3> HIDE DEF q, c, k
    <3>2. Tells(total', Together(c, k))
      BY <1>2, <3>1, MergeTells
    <3>3. QED
      BY <1>2, <3>2
  <2>3. QED
    BY <2>1, <2>2
<1>6. DoneInv'
  BY <1>1 DEF ToldInv, DoneInv, Works
<1>7. QED
  BY <1>1, <1>5, <1>6 DEF ToldInv, LoadInv, TotalInv

LEMMA NextRunKeeps == ASSUME ToldInv, NextRun PROVE ToldInv'
<1>1. /\ plan' = plan /\ nth' = nth + 1 /\ nth < Len(plan) /\ phase' = "load" /\ done' = {} /\ run' = plan[nth + 1]
      /\ stats' = [w \in Worker |-> NoStats] /\ parts' = [n \in DOMAIN plan[nth + 1].nodes |-> <<>>]
  BY DEF NextRun, Fresh, run
<1>2. plan \in Plans /\ nth \in DOMAIN plan
  BY DEF ToldInv, DoneInv
<1>3. nth + 1 \in DOMAIN plan
  <2>1. DOMAIN plan = 1..Len(plan) /\ Len(plan) \in Nat
    BY <1>2, RunIsPlanned
  <2> DEFINE k == Len(plan)
  <2>2. nth \in 1..k /\ k \in Nat /\ nth < k
    BY <1>1, <1>2, <2>1
  <2> HIDE DEF k
  <2>3. nth + 1 \in 1..k
    BY <2>2
  <2>4. QED
    BY <2>1, <2>3 DEF k
<1>4. History({})
  BY FS_EmptySet DEF History
<1>5. DoneInv'
  BY <1>1, <1>2, <1>3, <1>4 DEF DoneInv
<1>6. \A w : OfWorker(w)' = {}
  BY <1>1 DEF OfWorker
<1>7. LoadInv'
  BY <1>1, <1>6, NothingTold DEF LoadInv
<1>8. QED
  BY <1>1, <1>5, <1>7 DEF ToldInv, TotalInv

LEMMA ToldStep == ASSUME ToldInv, [Next]_vars PROVE ToldInv'
<1>1. ASSUME NEW w \in Worker, Record(w) PROVE ToldInv'
  BY <1>1, RecordKeeps
<1>2. ASSUME NEW n \in DOMAIN parts, EndNode(n) PROVE ToldInv'
  BY <1>2, EndNodeKeeps
<1>3. CASE Gather
  BY <1>3, GatherKeeps
<1>4. CASE Judge
  <2>1. phase = "judging" /\ phase' = "judged" /\ plan' = plan /\ nth' = nth /\ done' = done /\ total' = total /\ run' = run
    BY <1>4 DEF Judge, run
  <2>2. QED
    BY <2>1 DEF ToldInv, DoneInv, LoadInv, TotalInv, Works
<1>5. CASE NextRun
  BY <1>5, NextRunKeeps
<1>6. CASE Review
  <2>1. phase = "judged" /\ phase' = "reviewed" /\ plan' = plan /\ nth' = nth /\ done' = done /\ total' = total /\ run' = run
    BY <1>6 DEF Review, run
  <2>2. QED
    BY <2>1 DEF ToldInv, DoneInv, LoadInv, TotalInv, Works
<1>7. CASE UNCHANGED vars
  <2>1. /\ plan' = plan /\ nth' = nth /\ phase' = phase /\ stats' = stats /\ parts' = parts /\ total' = total
        /\ done' = done /\ run' = run
    BY <1>7 DEF vars, run
  <2>2. DoneInv' /\ TotalInv'
    BY <2>1 DEF ToldInv, DoneInv, TotalInv, Works
  <2>3. LoadInv'
    <3>1. (\A w : OfWorker(w)' = OfWorker(w)) /\ (\A n : OfNode(n)' = OfNode(n))
      BY <2>1 DEF OfWorker, OfNode, Works
    <3>2. QED
      BY <2>1, <3>1 DEF ToldInv, LoadInv
  <2>4. QED
    BY <2>2, <2>3 DEF ToldInv
<1>8. QED
  BY <1>1, <1>2, <1>3, <1>4, <1>5, <1>6, <1>7 DEF Next

LEMMA ToldAlways == Spec => []ToldInv
<1>1. ToldInv /\ [Next]_vars => ToldInv'
  BY ToldStep
<1>2. QED
  BY <1>1, Start, PTL DEF Spec

\* Nothing a worker counted is lost or counted twice on the way to the totals of the
\* run, whatever is merged first, for any workers, nodes, events and sizes of
\* dictionaries (merge_stats and CappedErrorDict, config.py).
THEOREM NothingLost == Spec => []NothingIsLost
<1>1. ToldInv => NothingIsLost
  <2> SUFFICES ASSUME ToldInv, phase # "load" PROVE NothingIsLost
    BY DEF NothingIsLost
  <2>1. Tells(total, done)
    BY DEF ToldInv, TotalInv
  <2>2. \A kind : Of(kind) = OfKind(done, kind)
    BY DEF Of, OfKind
  <2>3. NumbersTell(total, done) /\ TypesTell(total.types, done) /\ StepsTell(total.steps, done) /\ BlamesTell(total.stepErrors, done)
    BY <2>1 DEF Tells
  <2>4. Dict(total.types, Nat) /\ Capped(total.types)
    BY <2>3 DEF TypesTell, Capped
  <2>5. ASSUME NEW k \in Keys(total.types) \ {OtherErrors} PROVE ValueAt(total.types, k, 0) <= Times(k, done)
    <3>1. k \in Name
      BY <2>4, EntryOfIndex DEF Keys
    <3>2. QED
      BY <2>3, <3>1 DEF TypesTell
  <2>6. ASSUME Len(total.types) <= MaxTypes, NEW g \in Givings(done)
        PROVE  ValueAt(total.types, Key(g), 0) = Times(Key(g), done)
    <3>1. OtherErrors \notin Keys(total.types)
      <4>1. MaxTypes \in Nat /\ DOMAIN total.types = 1..Len(total.types) /\ Len(total.types) \in Nat
        BY <2>4, StatisticsAssumption DEF Dict
      <4>2. \A i \in DOMAIN total.types : total.types[i].key = OtherErrors => i = MaxTypes + 1
        BY <2>4 DEF Capped
      <4>3. MaxTypes + 1 \notin DOMAIN total.types
        <5> DEFINE k == Len(total.types)
        <5>1. k \in Nat /\ k <= MaxTypes /\ DOMAIN total.types = 1..k
          BY <2>6, <4>1
        <5> HIDE DEF k
        <5>2. QED
          BY <4>1, <5>1
      <4>4. QED
        BY <4>2, <4>3 DEF Keys
    <3>2. Key(g) \in Name
      BY GivingsFinite DEF ToldInv, DoneInv
    <3>3. QED
      BY <2>3, <3>1, <3>2 DEF TypesTell
  <2>7. ASSUME NEW s \in Keys(total.steps) \ {OtherSteps}, NEW x \in ValueAt(total.steps, s, {}) PROVE x.step = s
    BY <2>3 DEF StepsTell, Filed
  <2>8. /\ total.requests = Cardinality(Of("answer")) /\ total.seen = total.requests /\ total.errors = Errors(done)
        /\ total.templateErrors = Cardinality(Of("unrendered"))
        /\ total.extractFailures = Cardinality(Givings(Of("unextracted")))
    BY <2>2, <2>3 DEF NumbersTell
  <2>9. UNION {total.steps[i].value : i \in DOMAIN total.steps} = {d.sample : d \in {e \in Of("answer") : e.event.step # NoStep}}
    BY <2>2, <2>3 DEF StepsTell, SamplesOf, Stepped
  <2>10. SumValues(total.types) = Cardinality(Givings(done)) /\ SumValues(total.stepErrors) = Cardinality(Blames(done))
    BY <2>3 DEF TypesTell, BlamesTell
  <2>11. QED
    BY <2>5, <2>6, <2>7, <2>8, <2>9, <2>10 DEF NothingIsLost
<1>2. QED
  BY <1>1, ToldAlways, PTL

-------------------------------------------------------------------------------
(* Rounding.                                                                  *)

LEMMA Division ==
  ASSUME NEW n \in Int, NEW d \in Nat \ {0}
  PROVE  /\ n \div d \in Int /\ n % d \in 0..(d - 1) /\ n = d * (n \div d) + (n % d)
OBVIOUS

\* round() is off by half a unit at most.
LEMMA HalfEvenIsNear ==
  ASSUME NEW n \in Int, NEW d \in Nat \ {0}
  PROVE  /\ HalfEven(n, d) \in Int
         /\ 2 * (d * HalfEven(n, d)) <= 2 * n + d /\ 2 * n <= 2 * (d * HalfEven(n, d)) + d
<1> DEFINE q == n \div d
           r == n % d
           h == HalfEven(n, d)
<1>1. q \in Int /\ r \in 0..(d - 1) /\ n = d * q + r
  BY Division
<1>2. (h = q /\ 2 * r <= d) \/ (h = q + 1 /\ 2 * r >= d)
  <2> HIDE DEF q, r
  <2> QED BY <1>1 DEF HalfEven, q, r
<1> HIDE DEF q, r, h
<1>3. d * (q + 1) = d * q + d
  BY <1>1
<1> DEFINE w == d * q
<1>4. w \in Int
  BY <1>1
<1>5. d * h = w \/ d * h = w + d
  BY <1>2, <1>3
<1> HIDE DEF w
<1>6. CASE h = q /\ 2 * r <= d
  <2>1. d * h = w /\ n = w + r
    BY <1>1, <1>6 DEF w
  <2>2. 2 * (d * h) <= 2 * n + d /\ 2 * n <= 2 * (d * h) + d
    BY <1>1, <1>4, <1>6, <2>1
  <2>3. QED
    BY <1>1, <1>6, <2>2 DEF h
<1>7. CASE h = q + 1 /\ 2 * r >= d
  <2>1. d * h = w + d /\ n = w + r
    BY <1>1, <1>3, <1>7 DEF w
  <2>2. 2 * (d * h) <= 2 * n + d /\ 2 * n <= 2 * (d * h) + d
    BY <1>1, <1>4, <1>7, <2>1
  <2>3. h \in Int
    BY <1>1, <1>7
  <2>4. QED
    BY <2>2, <2>3 DEF h
<1>8. QED
  BY <1>2, <1>6, <1>7

Fraction == Int \X (Nat \ {0})

\* y is x but for half.
Near(y, x, half) ==
  /\ half[2] * (y[1] * x[2] - x[1] * y[2]) <= half[1] * (x[2] * y[2])
  /\ half[2] * (x[1] * y[2] - y[1] * x[2]) <= half[1] * (x[2] * y[2])

LEMMA RateIsNear ==
  ASSUME NEW x \in Fraction
  PROVE  RoundedRate(x) \in Fraction /\ Near(RoundedRate(x), x, <<1, 200>>)
<1> DEFINE a == x[1]
           k == x[2]
           h == HalfEven(100 * a, k)
           w == k * h
<1>1. a \in Int /\ k \in Nat \ {0}
  BY DEF Fraction
<1> HIDE DEF a, k
<1>2. h \in Int /\ 2 * w <= 2 * (100 * a) + k /\ 2 * (100 * a) <= 2 * w + k /\ w \in Int
  <2>1. 100 * a \in Int
    BY <1>1
  <2> DEFINE n == 100 * a
  <2> HIDE DEF n
  <2>2. HalfEven(n, k) \in Int /\ 2 * (k * HalfEven(n, k)) <= 2 * n + k /\ 2 * n <= 2 * (k * HalfEven(n, k)) + k
    BY <1>1, <2>1, HalfEvenIsNear DEF n
  <2>3. k * HalfEven(n, k) \in Int
    BY <1>1, <2>2
  <2>4. QED
    BY <2>2, <2>3 DEF n
<1>3. RoundedRate(x) = <<h, 100>>
  BY DEF RoundedRate, a, k
<1>4. h * k = w
  <2> HIDE DEF h
  <2> QED BY <1>1, <1>2
<1> HIDE DEF h, w
<1>5. 200 * (w - a * 100) <= 1 * (k * 100) /\ 200 * (a * 100 - w) <= 1 * (k * 100)
  BY <1>1, <1>2
<1>6. QED
  BY <1>2, <1>3, <1>4, <1>5 DEF Near, Fraction, a, k

LEMMA TimeIsNear ==
  ASSUME NEW x \in Fraction
  PROVE  RoundedTime(x) \in Fraction /\ Near(RoundedTime(x), x, Whole(5))
<1> DEFINE a == x[1]
           k == x[2]
           h == HalfEven(a, 10 * k)
           w == k * h
<1>1. a \in Int /\ k \in Nat \ {0}
  BY DEF Fraction
<1> HIDE DEF a, k
<1>2. h \in Int /\ 2 * (10 * w) <= 2 * a + 10 * k /\ 2 * a <= 2 * (10 * w) + 10 * k /\ w \in Int
  <2> DEFINE d == 10 * k
  <2>1. d \in Nat \ {0}
    BY <1>1
  <2> HIDE DEF d
  <2>2. HalfEven(a, d) \in Int /\ 2 * (d * HalfEven(a, d)) <= 2 * a + d /\ 2 * a <= 2 * (d * HalfEven(a, d)) + d
    BY <1>1, <2>1, HalfEvenIsNear
  <2> DEFINE g == HalfEven(a, d)
  <2> HIDE DEF g
  <2>3. g \in Int /\ 2 * (d * g) <= 2 * a + d /\ 2 * a <= 2 * (d * g) + d
    BY <2>2 DEF g
  <2>4. d * g = 10 * (k * g) /\ k * g \in Int /\ d = 10 * k
    BY <1>1, <2>3 DEF d
  <2>5. QED
    BY <2>3, <2>4 DEF g, d
<1>3. RoundedTime(x) = <<10 * h, 1>>
  BY DEF RoundedTime, Whole, a, k
<1>4. (10 * h) * k = 10 * w /\ 10 * h \in Int
  <2> HIDE DEF h
  <2> QED BY <1>1, <1>2
<1> HIDE DEF h, w
<1>5. 1 * (10 * w - a * 1) <= 5 * (k * 1) /\ 1 * (a * 1 - 10 * w) <= 5 * (k * 1)
  BY <1>1, <1>2
<1>6. QED
  BY <1>2, <1>3, <1>4, <1>5 DEF Near, Fraction, Whole, a, k

LEMMA TimesPositive ==
  ASSUME NEW a \in Int, NEW b \in Int, NEW k \in Nat \ {0}
  PROVE  (a < b <=> a * k < b * k) /\ (a <= b <=> a * k <= b * k) /\ a * k \in Int
OBVIOUS

LEMMA FarEnough ==
  ASSUME NEW a \in Int, NEW g \in Int, NEW n \in Int,
         NEW k \in Nat \ {0}, NEW l \in Nat \ {0}, NEW d \in Nat \ {0}, NEW p \in Nat \ {0}, NEW s \in Nat \ {0},
         p * (k * d) < s * (a * d - n * k), s * (a * l - g * k) <= p * (k * l)
  PROVE  n * k < a * d /\ n * l < g * d
<1>1. n * k < a * d
  <2> DEFINE u == a * d - n * k
             v == p * (k * d)
  <2>1. u \in Int /\ v \in Int /\ v < s * u /\ a * d \in Int /\ n * k \in Int
    OBVIOUS
  <2>2. v > 0
    <3>1. k * d > 0 /\ k * d \in Int
      OBVIOUS
    <3>2. QED
      BY <3>1
  <2>3. 0 * s < u * s
    <3> HIDE DEF u, v
    <3> QED BY <2>1, <2>2
  <2>4. 0 < u
    <3> HIDE DEF u, v
    <3> QED BY <2>1, <2>3, TimesPositive
  <2>5. QED
    BY <2>1, <2>4
<1>2. n * l < g * d
  <2> DEFINE A == (a * d) * l
             G == (g * d) * k
             M == (n * l) * k
             P == p * ((k * d) * l)
  <2>0. A \in Int /\ G \in Int /\ M \in Int /\ P \in Int
    OBVIOUS
  <2>1. P < (A - M) * s
    <3>1. (p * (k * d)) * l < (s * (a * d - n * k)) * l
      <4> DEFINE u == p * (k * d)
                 v == s * (a * d - n * k)
      <4>1. u \in Int /\ v \in Int /\ u < v
        OBVIOUS
      <4> HIDE DEF u, v
      <4>2. u * l < v * l
        BY <4>1, TimesPositive
      <4>3. QED
        BY <4>2 DEF u, v
    <3>2. (p * (k * d)) * l = P /\ (s * (a * d - n * k)) * l = (A - M) * s
      OBVIOUS
    <3>3. QED
      BY <3>1, <3>2
  <2>2. (A - G) * s <= P
    <3>1. (s * (a * l - g * k)) * d <= (p * (k * l)) * d
      <4> DEFINE u == s * (a * l - g * k)
                 v == p * (k * l)
      <4>1. u \in Int /\ v \in Int /\ u <= v
        OBVIOUS
      <4> HIDE DEF u, v
      <4>2. u * d <= v * d
        BY <4>1, TimesPositive
      <4>3. QED
        BY <4>2 DEF u, v
    <3>2. (p * (k * l)) * d = P /\ (s * (a * l - g * k)) * d = (A - G) * s
      OBVIOUS
    <3>3. QED
      BY <3>1, <3>2
  <2>3. (A - G) * s < (A - M) * s
    <3> DEFINE u == (A - G) * s
               v == (A - M) * s
    <3>1. u \in Int /\ v \in Int /\ P < v /\ u <= P
      BY <2>0, <2>1, <2>2
    <3> HIDE DEF u, v, P
    <3>2. u < v
      BY <2>0, <3>1
    <3>3. QED
      BY <3>2 DEF u, v
  <2> DEFINE x == n * l
             z == g * d
  <2>4. x \in Int /\ z \in Int /\ M = x * k /\ G = z * k
    OBVIOUS
  <2> HIDE DEF A, G, M, P, x, z
  <2>5. A - G \in Int /\ A - M \in Int
    BY <2>0
  <2>6. A - G < A - M
    BY <2>3, <2>5, TimesPositive
  <2>7. x * k < z * k
    BY <2>0, <2>4, <2>6
  <2>8. x < z
    BY <2>4, <2>7, TimesPositive
  <2>9. QED
    BY <2>8 DEF x, z
<1>3. QED
  BY <1>1, <1>2

LEMMA Gap ==
  ASSUME NEW x \in Fraction, NEW b \in Fraction, NEW half \in Fraction
  PROVE  /\ Below(half, Minus(x, b)) => half[1] * (x[2] * b[2]) < half[2] * (x[1] * b[2] - b[1] * x[2])
         /\ Below(Minus(x, b), Minus(Whole(0), half)) => half[1] * (x[2] * b[2]) < half[2] * (b[1] * x[2] - x[1] * b[2])
<1> DEFINE a == x[1]
           k == x[2]
           n == b[1]
           d == b[2]
           p == half[1]
           s == half[2]
           t == Minus(x, b)
<1>1. a \in Int /\ n \in Int /\ p \in Int /\ k \in Nat \ {0} /\ d \in Nat \ {0} /\ s \in Nat \ {0}
  BY DEF Fraction
<1>2. t = IF k = d THEN <<a - n, k>> ELSE <<a * d - n * k, k * d>>
  BY DEF Minus
<1>3. Minus(Whole(0), half) = <<-p, s>>
  <2>1. Minus(Whole(0), half) = IF 1 = s THEN <<0 - p, 1>> ELSE <<0 * s - p * 1, 1 * s>>
    BY DEF Minus, Whole
  <2> HIDE DEF p, s
  <2>2. 0 - p = -p /\ 0 * s - p * 1 = -p /\ 1 * s = s
    BY <1>1
  <2>3. QED
    BY <2>1, <2>2
<1>4. /\ Below(half, t) <=> p * t[2] < t[1] * s
      /\ Below(t, Minus(Whole(0), half)) <=> t[1] * s < (-p) * t[2]
  <2> HIDE DEF t, p, s
  <2> QED BY <1>3 DEF Below, p, s
<1> HIDE DEF a, k, n, d, p, s, t
<1>5. CASE k = d
  <2>1. t[1] = a - n /\ t[2] = k
    BY <1>2, <1>5
  <2> DEFINE u == p * k
             v == (a - n) * s
  <2>2. u \in Int /\ v \in Int
    BY <1>1
  <2>3. /\ Below(half, t) <=> u < v
        /\ Below(t, Minus(Whole(0), half)) <=> v < -u
    <3>1. (-p) * k = -u
      BY <1>1
    <3>2. QED
      BY <1>4, <2>1, <3>1
  <2>4. /\ p * (k * d) = u * k /\ s * (a * d - n * k) = v * k /\ s * (n * k - a * d) = (-v) * k
    BY <1>1, <1>5
  <2> HIDE DEF u, v
  <2>5. u < v => u * k < v * k
    BY <1>1, <2>2, TimesPositive
  <2>6. v < -u => u * k < (-v) * k
    <3>1. -v \in Int /\ (v < -u => u < -v)
      BY <2>2
    <3>2. QED
      BY <1>1, <2>2, <3>1, TimesPositive
  <2>7. QED
    BY <2>3, <2>4, <2>5, <2>6 DEF a, k, n, d, p, s, t
<1>6. CASE k # d
  <2>1. t[1] = a * d - n * k /\ t[2] = k * d
    BY <1>2, <1>6
  <2>2. (a * d - n * k) * s = s * (a * d - n * k)
    BY <1>1
  <2>3. (a * d - n * k) * s < (-p) * (k * d) => p * (k * d) < s * (n * k - a * d)
    <3> DEFINE v == (a * d - n * k) * s
               u == p * (k * d)
    <3>1. u \in Int /\ v \in Int /\ (-p) * (k * d) = -u /\ s * (n * k - a * d) = -v
      BY <1>1
    <3> HIDE DEF u, v
    <3>2. v < -u => u < -v
      BY <3>1
    <3>3. QED
      BY <3>1, <3>2 DEF u, v
  <2>4. QED
    BY <1>4, <2>1, <2>2, <2>3 DEF a, k, n, d, p, s, t
<1>7. QED
  BY <1>5, <1>6

\* What is further away from a bound than rounding can move it stays on its side.
LEMMA SideIsKept ==
  ASSUME NEW x \in Fraction, NEW y \in Fraction, NEW b \in Fraction, NEW half \in Fraction, half[1] > 0,
         Near(y, x, half)
  PROVE  /\ Below(half, Minus(x, b)) => Below(b, x) /\ Below(b, y)
         /\ Below(Minus(x, b), Minus(Whole(0), half)) => Below(x, b) /\ Below(y, b)
<1> DEFINE a == x[1]
           k == x[2]
           n == b[1]
           d == b[2]
           p == half[1]
           s == half[2]
           g == y[1]
           l == y[2]
<1>1. /\ a \in Int /\ n \in Int /\ g \in Int /\ k \in Nat \ {0} /\ d \in Nat \ {0} /\ s \in Nat \ {0} /\ l \in Nat \ {0}
      /\ p \in Nat \ {0}
  BY DEF Fraction
<1>2. s * (g * k - a * l) <= p * (k * l) /\ s * (a * l - g * k) <= p * (k * l)
  BY DEF Near
<1>3. /\ Below(half, Minus(x, b)) => p * (k * d) < s * (a * d - n * k)
      /\ Below(Minus(x, b), Minus(Whole(0), half)) => p * (k * d) < s * (n * k - a * d)
  BY Gap
<1>4. /\ Below(b, x) <=> n * k < a * d
      /\ Below(b, y) <=> n * l < g * d
      /\ Below(x, b) <=> a * d < n * k
      /\ Below(y, b) <=> g * d < n * l
  BY DEF Below
<1> HIDE DEF a, k, n, d, p, s, g, l
<1>5. p * (k * d) < s * (a * d - n * k) => n * k < a * d /\ n * l < g * d
  BY <1>1, <1>2, FarEnough
<1>6. p * (k * d) < s * (n * k - a * d) => a * d < n * k /\ g * d < n * l
  <2> SUFFICES ASSUME p * (k * d) < s * (n * k - a * d) PROVE a * d < n * k /\ g * d < n * l
    OBVIOUS
  <2> DEFINE A == -a
             N == -n
             G == -g
  <2>1. A \in Int /\ N \in Int /\ G \in Int
    BY <1>1
  <2>2. n * k - a * d = A * d - N * k /\ g * k - a * l = A * l - G * k
    BY <1>1
  <2>3. p * (k * d) < s * (A * d - N * k) /\ s * (A * l - G * k) <= p * (k * l)
    <3> HIDE DEF A, N, G
    <3> QED BY <1>2, <2>2
  <2>4. N * k < A * d /\ N * l < G * d
    <3> HIDE DEF A, N, G
    <3> QED BY <1>1, <2>1, <2>3, FarEnough
  <2>5. N * k = -(n * k) /\ A * d = -(a * d) /\ N * l = -(n * l) /\ G * d = -(g * d)
    BY <1>1
  <2>6. n * k \in Int /\ a * d \in Int /\ n * l \in Int /\ g * d \in Int
    BY <1>1
  <2> HIDE DEF A, N, G
  <2>7. QED
    BY <2>4, <2>5, <2>6
<1>7. QED
  BY <1>3, <1>4, <1>5, <1>6

-------------------------------------------------------------------------------
(* The metrics of a set of samples are numbers.                               *)

Valued(S) == S # {} /\ IsFiniteSet(S) /\ \A x \in S : x.value \in Nat

\* No sample is above the sum of all.
LEMMA ValuesAreBounded ==
  ASSUME NEW S, Valued(S)
  PROVE  SumFunctionOnSet([x \in S |-> x.value], S) \in Nat /\ \A y \in S : y.value <= SumFunctionOnSet([x \in S |-> x.value], S)
<1> DEFINE f == [x \in S |-> x.value]
<1>1. IsFiniteSet(S) /\ \A x \in S : f[x] = x.value /\ f[x] \in Nat /\ f[x] \in Int
  BY DEF Valued
<1> HIDE DEF f
<1>2. SumFunctionOnSet(f, S) \in Nat
  BY <1>1, SumIsNatural
<1>3. ASSUME NEW x \in S PROVE x.value <= SumFunctionOnSet(f, S)
  <2>1. f[x] <= SumFunctionOnSet(f, S)
    BY <1>1, TermIsBounded
  <2>2. QED
    BY <1>1, <2>1
<1>4. QED
  BY <1>2, <1>3 DEF f

AtMost(S, v) == {x \in S : x.value <= v}
Beneath(S, v) == {x \in S : x.value < v}

LEMMA PercentileIsValue ==
  ASSUME NEW S, Valued(S), NEW m \in DOMAIN Percentage
  PROVE  Percentile(m, S) \in {x.value : x \in S} /\ Percentile(m, S) \in Nat
<1> DEFINE n == Cardinality(S)
           rank == NearestRank(Percentage[m], n)
           V == {v \in Nat : rank <= Cardinality(AtMost(S, v))}
           b == SumFunctionOnSet([x \in S |-> x.value], S)
<1>1. n \in Nat \ {0} /\ IsFiniteSet(S)
  BY FS_CardinalityType, FS_EmptySet DEF Valued
<1>2. rank \in 1..n
  <2> DEFINE p == Percentage[m]
  <2>1. p \in 1..99
    BY DEF Percentage
  <2> HIDE DEF p, n
  <2> DEFINE u == p * n
  <2>2. u \in Int /\ u >= n /\ u <= 99 * n
    BY <1>1, <2>1
  <2> HIDE DEF u
  <2>3. (u + 99) \div 100 \in 1..n
    BY <1>1, <2>2
  <2>4. QED
    BY <2>3 DEF NearestRank, p, u
<1>3. \A v : IsFiniteSet(AtMost(S, v)) /\ IsFiniteSet(Beneath(S, v)) /\ Cardinality(AtMost(S, v)) \in Nat /\ Cardinality(Beneath(S, v)) \in Nat
  <2>1. \A v : AtMost(S, v) \in SUBSET S /\ Beneath(S, v) \in SUBSET S
    BY DEF AtMost, Beneath
  <2>2. QED
    BY <1>1, <2>1, FS_Subset, FS_CardinalityType
<1>4. b \in V
  <2>1. b \in Nat /\ \A x \in S : x.value <= b
    BY ValuesAreBounded
  <2> HIDE DEF b
  <2>2. AtMost(S, b) = S
    BY <2>1 DEF AtMost
  <2>3. rank <= n
    <3> HIDE DEF rank, n
    <3> QED BY <1>1, <1>2
  <2>4. QED
    BY <2>1, <2>2, <2>3
<1>5. PICK v \in V : \A u \in V : v <= u
  <2>1. V \subseteq Nat /\ V # {}
    BY <1>4
  <2> HIDE DEF V
  <2>2. QED
    BY <2>1, LeastNumber
<1>6. v \in Nat /\ rank <= Cardinality(AtMost(S, v))
  OBVIOUS
<1> HIDE DEF rank, b
<1>7. Cardinality(Beneath(S, v)) < rank
  <2>1. CASE v = 0
    <3>1. Beneath(S, v) = {}
      BY <2>1 DEF Beneath, Valued
    <3>2. Cardinality(Beneath(S, v)) = 0
      BY <3>1, FS_EmptySet
    <3>3. QED
      BY <1>1, <1>2, <3>2
  <2>2. CASE v > 0
    <3>1. v - 1 \in Nat /\ v - 1 \notin V
      BY <1>5, <1>6, <2>2
    <3>2. ~(rank <= Cardinality(AtMost(S, v - 1)))
      BY <3>1
    <3>3. AtMost(S, v - 1) = Beneath(S, v)
      BY <1>6 DEF AtMost, Beneath, Valued
    <3> DEFINE c == Cardinality(Beneath(S, v))
    <3>4. ~(rank <= c) /\ c \in Nat
      BY <1>3, <3>2, <3>3
    <3> HIDE DEF c, n
    <3>5. c < rank
      BY <1>1, <1>2, <3>4
    <3>6. QED
      BY <3>5 DEF c
  <2>3. QED
    BY <1>6, <2>1, <2>2
<1>8. v \in {x.value : x \in S}
  <2>1. AtMost(S, v) # Beneath(S, v)
    <3> DEFINE c == Cardinality(Beneath(S, v))
    <3>1. c < rank /\ c \in Nat
      BY <1>3, <1>7
    <3> HIDE DEF c, n
    <3>2. ~(rank <= c)
      BY <1>1, <1>2, <3>1
    <3>3. QED
      BY <1>6, <3>2 DEF c
  <2>2. \E x \in S : x.value <= v /\ ~(x.value < v)
    <3>1. \A x \in S : x.value \in Nat
      BY DEF Valued
    <3>2. \A x \in S : x.value < v => x.value <= v
      BY <1>6, <3>1
    <3>3. Beneath(S, v) \subseteq AtMost(S, v)
      BY <3>2 DEF AtMost, Beneath
    <3>4. PICK x : x \in AtMost(S, v) /\ x \notin Beneath(S, v)
      BY <2>1, <3>3
    <3>5. QED
      BY <3>4 DEF AtMost, Beneath
  <2>20. PICK x \in S : x.value <= v /\ ~(x.value < v)
    BY <2>2
  <2>3. x.value = v
    BY <1>6, <2>20 DEF Valued
  <2>4. QED
    BY <2>3
<1>9. \E w \in {x.value : x \in S} : Cardinality({x \in S : x.value < w}) < rank /\ rank <= Cardinality({x \in S : x.value <= w})
  BY <1>6, <1>7, <1>8 DEF AtMost, Beneath
<1>10. Percentile(m, S) \in {x.value : x \in S}
  BY <1>9 DEF Percentile, rank
<1>11. QED
  BY <1>10 DEF Valued

LEMMA ExtremesAreValues ==
  ASSUME NEW S, Valued(S)
  PROVE  Max({x.value : x \in S}) \in Nat /\ Min({x.value : x \in S}) \in Nat
<1> DEFINE C == {x.value : x \in S}
           b == SumFunctionOnSet([x \in S |-> x.value], S)
           D == {k \in Nat : b - k \in C}
<1>1. C \subseteq Nat /\ C # {} /\ b \in Nat /\ \A v \in C : v <= b
  BY ValuesAreBounded DEF Valued
<1> HIDE DEF C, b
<1>2. Min(C) \in Nat
  <2>1. \E x \in C : \A y \in C : x <= y
    BY <1>1, LeastNumber
  <2>2. QED
    BY <1>1, <2>1 DEF Min
<1>3. Max(C) \in Nat
  <2>1. D \subseteq Nat /\ D # {}
    <3>1. PICK v \in C : v \in Nat /\ v <= b
      BY <1>1
    <3>2. b - v \in Nat /\ b - (b - v) = v
      BY <1>1, <3>1
    <3>3. QED
      BY <3>1, <3>2
  <2>2. PICK k \in D : \A j \in D : k <= j
    <3> HIDE DEF D
    <3> QED BY <2>1, LeastNumber
  <2>3. k \in Nat /\ b - k \in C
    OBVIOUS
  <2>4. ASSUME NEW y \in C PROVE b - k >= y
    <3>1. y \in Nat /\ y <= b /\ b - y \in Nat /\ b - (b - y) = y
      BY <1>1
    <3>2. b - y \in D
      BY <3>1
    <3>3. k <= b - y
      BY <2>2, <3>2
    <3> HIDE DEF D
    <3>4. QED
      BY <1>1, <2>3, <3>1, <3>3
  <2>5. \E x \in C : \A y \in C : x >= y
    BY <2>3, <2>4
  <2>6. QED
    BY <1>1, <2>5 DEF Max
<1>4. QED
  BY <1>2, <1>3 DEF C

LEMMA LatencyIsNumber ==
  ASSUME NEW S, Valued(S), NEW m \in LatencyMetric
  PROVE  Latency(m, S) \in Fraction
<1>1. \A v \in Nat : Whole(v) \in Fraction
  BY DEF Whole, Fraction
<1>2. CASE m \in DOMAIN Percentage
  BY <1>1, <1>2, PercentileIsValue DEF Latency
<1>3. CASE m \notin DOMAIN Percentage
  <2>1. Mean(S) \in Fraction
    <3>1. Cardinality(S) \in Nat \ {0}
      BY FS_CardinalityType, FS_EmptySet DEF Valued
    <3>2. SumFunctionOnSet([x \in S |-> x.value], S) \in Nat
      BY ValuesAreBounded
    <3>3. QED
      BY <3>1, <3>2 DEF Mean, Fraction
  <2>2. Whole(Max({x.value : x \in S})) \in Fraction /\ Whole(Min({x.value : x \in S})) \in Fraction
    BY <1>1, ExtremesAreValues
  <2>3. QED
    BY <1>3, <2>1, <2>2 DEF Latency
<1>4. QED
  BY <1>2, <1>3

-------------------------------------------------------------------------------
(* The results file.                                                          *)

LEMMA PathsDiffer ==
  /\ \A m, n \in LatencyMetric : RunPath(m) = RunPath(n) => m = n
  /\ \A m \in LatencyMetric : Len(RunPath(m)) = 2
  /\ RunPath("rps") = <<"requests_per_sec">>
  /\ <<"total_requests">> # <<"total_errors">> /\ <<"total_requests">> # <<"requests_per_sec">>
  /\ <<"total_errors">> # <<"requests_per_sec">>
<1>1. ASSUME NEW m \in LatencyMetric, NEW n \in LatencyMetric, RunPath(m) = RunPath(n) PROVE m = n
  BY <1>1 DEF RunPath, LatencyMetric, Percentage, LatencyName
<1>2. ASSUME NEW m \in LatencyMetric PROVE Len(RunPath(m)) = 2
  BY DEF RunPath, LatencyMetric, Percentage
<1>3. RunPath("rps") = <<"requests_per_sec">>
  BY DEF RunPath
<1>4. /\ <<"total_requests">> # <<"total_errors">> /\ <<"total_requests">> # <<"requests_per_sec">>
      /\ <<"total_errors">> # <<"requests_per_sec">>
  OBVIOUS
<1>5. QED
  BY <1>1, <1>2, <1>3, <1>4

LEMMA FiguresOfRun ==
  ASSUME NEW s, NEW duration
  PROVE  LET doc == RunFigures(s, duration)
         IN  /\ <<"total_requests">> \in DOMAIN doc /\ doc[<<"total_requests">>] = Whole(s.requests)
             /\ <<"total_errors">> \in DOMAIN doc /\ doc[<<"total_errors">>] = Whole(s.errors)
             /\ RunPath("rps") \in DOMAIN doc /\ doc[RunPath("rps")] = RoundedRate(<<s.requests, duration>>)
             /\ \A m \in LatencyMetric :
                  IF s.sample = {} THEN RunPath(m) \notin DOMAIN doc
                  ELSE RunPath(m) \in DOMAIN doc /\ doc[RunPath(m)] = RoundedTime(Latency(m, s.sample))
<1> DEFINE latencies == IF s.sample = {} THEN {} ELSE LatencyMetric
           paths == {<<"total_requests">>, <<"total_errors">>, RunPath("rps")} \cup {RunPath(m) : m \in latencies}
           of(p) == CASE p = <<"total_requests">> -> Whole(s.requests)
                      [] p = <<"total_errors">>   -> Whole(s.errors)
                      [] p = RunPath("rps")       -> RoundedRate(<<s.requests, duration>>)
                      [] OTHER -> RoundedTime(Latency(CHOOSE m \in LatencyMetric : RunPath(m) = p, s.sample))
           doc == RunFigures(s, duration)
<1>1. doc = [p \in paths |-> of(p)]
  BY DEF RunFigures
<1>2. /\ of(<<"total_requests">>) = Whole(s.requests) /\ of(<<"total_errors">>) = Whole(s.errors)
      /\ of(RunPath("rps")) = RoundedRate(<<s.requests, duration>>)
  BY PathsDiffer
<1>3. ASSUME NEW m \in LatencyMetric
      PROVE  /\ RunPath(m) \notin {<<"total_requests">>, <<"total_errors">>, RunPath("rps")}
             /\ of(RunPath(m)) = RoundedTime(Latency(m, s.sample))
  <2>1. Len(RunPath(m)) = 2 /\ Len(<<"total_requests">>) = 1 /\ Len(<<"total_errors">>) = 1 /\ Len(<<"requests_per_sec">>) = 1
    BY PathsDiffer
  <2>2. RunPath(m) # <<"total_requests">> /\ RunPath(m) # <<"total_errors">> /\ RunPath(m) # RunPath("rps")
    BY <2>1, PathsDiffer
  <2>3. (CHOOSE n \in LatencyMetric : RunPath(n) = RunPath(m)) = m
    BY PathsDiffer
  <2>4. QED
    BY <2>2, <2>3
<1> HIDE DEF of, doc
<1>4. DOMAIN doc = paths /\ \A p \in paths : doc[p] = of(p)
  BY <1>1
<1>5. /\ <<"total_requests">> \in paths /\ <<"total_errors">> \in paths /\ RunPath("rps") \in paths
  OBVIOUS
<1>6. ASSUME NEW m \in LatencyMetric
      PROVE  IF s.sample = {} THEN RunPath(m) \notin paths ELSE RunPath(m) \in paths
  BY <1>3
<1> HIDE DEF paths
<1>7. QED
  BY <1>2, <1>3, <1>4, <1>5, <1>6 DEF doc

LEMMA PathsOfSteps ==
  ASSUME NEW step, NEW samples, NEW errors, NEW duration, NEW p \in DOMAIN StepBlock(step, samples, errors, duration)
  PROVE  Len(p) = 3
<1>1. PICK f : p = <<"step_stats", step, f>>
  BY DEF StepBlock
<1>2. QED
  BY <1>1

LEMMA FiguresOfDocument ==
  ASSUME NEW s, NEW duration
  PROVE  LET doc == Document(s, duration)
         IN  /\ doc[<<"total_requests">>] = Whole(s.requests) /\ doc[<<"total_errors">>] = Whole(s.errors)
             /\ Dig(doc, RunPath("rps")) = RoundedRate(<<s.requests, duration>>)
             /\ \A m \in LatencyMetric :
                  Dig(doc, RunPath(m)) = IF s.sample = {} THEN Absent ELSE RoundedTime(Latency(m, s.sample))
<1> DEFINE figures == RunFigures(s, duration)
           blocks == [k \in Sampled(s) |-> StepBlock(k, ValueAt(s.steps, k, {}), ValueAt(s.stepErrors, k, 0), duration)]
           paths == UNION {DOMAIN blocks[k] : k \in Sampled(s)}
           doc == Document(s, duration)
<1>1. doc = [p \in DOMAIN figures \cup paths |-> IF p \in DOMAIN figures THEN figures[p] ELSE blocks[p[2]][p]]
  BY DEF Document
<1>2. \A p \in paths : Len(p) = 3
  BY PathsOfSteps
<1> HIDE DEF blocks, paths, figures, doc
<1>3. DOMAIN doc = DOMAIN figures \cup paths /\ \A p \in DOMAIN figures : doc[p] = figures[p]
  BY <1>1
<1>4. /\ <<"total_requests">> \in DOMAIN figures /\ figures[<<"total_requests">>] = Whole(s.requests)
      /\ <<"total_errors">> \in DOMAIN figures /\ figures[<<"total_errors">>] = Whole(s.errors)
      /\ RunPath("rps") \in DOMAIN figures /\ figures[RunPath("rps")] = RoundedRate(<<s.requests, duration>>)
  BY FiguresOfRun DEF figures
<1>5. ASSUME NEW m \in LatencyMetric
      PROVE  Dig(doc, RunPath(m)) = IF s.sample = {} THEN Absent ELSE RoundedTime(Latency(m, s.sample))
  <2>1. IF s.sample = {} THEN RunPath(m) \notin DOMAIN figures
        ELSE RunPath(m) \in DOMAIN figures /\ figures[RunPath(m)] = RoundedTime(Latency(m, s.sample))
    BY FiguresOfRun DEF figures
  <2>2. RunPath(m) \notin paths
    <3>1. Len(RunPath(m)) = 2
      BY PathsDiffer
    <3>2. QED
      BY <1>2, <3>1
  <2>3. QED
    BY <1>3, <2>1, <2>2 DEF Dig
<1>6. QED
  BY <1>3, <1>4, <1>5 DEF Dig, doc

LEMMA FieldsDiffer ==
  /\ StepField("rps") = "requests_per_sec"
  /\ \A m \in StepFields : StepField(m) # "count" /\ StepField(m) # "errors"
  /\ \A m \in StepFields \ {"rps"} : StepField(m) # "requests_per_sec"
  /\ \A m, n \in StepFields : StepField(m) = StepField(n) => m = n
BY DEF StepField, StepFields, LatencyName

\* The block of a step that has samples.
LEMMA FiguresOfBlock ==
  ASSUME NEW step, NEW samples, NEW errors, NEW duration
  PROVE  LET block == StepBlock(step, samples, errors, duration)
             at(f) == <<"step_stats", step, f>>
         IN  /\ at("count") \in DOMAIN block /\ block[at("count")] = Whole(Cardinality(samples))
             /\ at("errors") \in DOMAIN block /\ block[at("errors")] = Whole(errors)
             /\ at("requests_per_sec") \in DOMAIN block
             /\ block[at("requests_per_sec")] = RoundedRate(<<Cardinality(samples), duration>>)
             /\ \A m \in StepFields \ {"rps"} :
                  at(StepField(m)) \in DOMAIN block /\ block[at(StepField(m))] = RoundedTime(Latency(m, samples))
<1> DEFINE at(f) == <<"step_stats", step, f>>
           fields == {"count", "errors"} \cup {StepField(m) : m \in StepFields}
           paths == {at(f) : f \in fields}
           of(p) == CASE p[3] = "count"  -> Whole(Cardinality(samples))
                      [] p[3] = "errors" -> Whole(errors)
                      [] p[3] = "requests_per_sec" -> RoundedRate(<<Cardinality(samples), duration>>)
                      [] OTHER -> RoundedTime(Latency(CHOOSE m \in StepFields : StepField(m) = p[3], samples))
           block == StepBlock(step, samples, errors, duration)
<1>1. block = [p \in paths |-> of(p)]
  BY DEF StepBlock
<1>2. \A f : at(f)[3] = f
  OBVIOUS
<1>3. /\ of(at("count")) = Whole(Cardinality(samples)) /\ of(at("errors")) = Whole(errors)
      /\ of(at("requests_per_sec")) = RoundedRate(<<Cardinality(samples), duration>>)
  BY <1>2
<1>4. ASSUME NEW m \in StepFields \ {"rps"}
      PROVE  of(at(StepField(m))) = RoundedTime(Latency(m, samples))
  <2> DEFINE f == StepField(m)
  <2>1. f # "count" /\ f # "errors" /\ f # "requests_per_sec" /\ at(f)[3] = f
    BY <1>2, FieldsDiffer
  <2>2. (CHOOSE n \in StepFields : StepField(n) = f) = m
    BY FieldsDiffer
  <2> HIDE DEF f
  <2>3. of(at(f)) = RoundedTime(Latency(CHOOSE n \in StepFields : StepField(n) = at(f)[3], samples))
    BY <2>1
  <2>4. of(at(f)) = RoundedTime(Latency(CHOOSE n \in StepFields : StepField(n) = f, samples))
    BY <2>1, <2>3
  <2>5. QED
    BY <2>2, <2>4 DEF f
<1>5. "requests_per_sec" \in fields /\ "count" \in fields /\ "errors" \in fields /\ \A m \in StepFields : StepField(m) \in fields
  BY FieldsDiffer DEF StepFields
<1> HIDE DEF fields
<1>6. \A f \in fields : at(f) \in paths
  OBVIOUS
<1> HIDE DEF of, block, paths, at
<1>7. DOMAIN block = paths /\ \A p \in paths : block[p] = of(p)
  BY <1>1
<1>8. QED
  BY <1>3, <1>4, <1>5, <1>6, <1>7 DEF block, at

\* No path of the run's own figures is one of a step.
LEMMA PathsOfRun ==
  ASSUME NEW s, NEW duration, NEW p \in DOMAIN RunFigures(s, duration)
  PROVE  Len(p) # 3
<1>1. p \in {<<"total_requests">>, <<"total_errors">>, RunPath("rps")} \/ \E m \in LatencyMetric : p = RunPath(m)
  BY DEF RunFigures
<1>2. Len(<<"total_requests">>) = 1 /\ Len(<<"total_errors">>) = 1 /\ Len(RunPath("rps")) = 1
  BY PathsDiffer
<1>3. QED
  BY <1>1, <1>2, PathsDiffer

LEMMA FiguresOfStep ==
  ASSUME NEW s, NEW duration, NEW step
  PROVE  LET doc == Document(s, duration)
             samples == ValueAt(s.steps, step, {})
             at(f) == <<"step_stats", step, f>>
         IN  /\ samples = {} => \A f : Dig(doc, at(f)) = Absent
             /\ samples # {} =>
                  /\ Dig(doc, at("count")) = Whole(Cardinality(samples))
                  /\ Dig(doc, at("errors")) = Whole(ValueAt(s.stepErrors, step, 0))
                  /\ Dig(doc, at("requests_per_sec")) = RoundedRate(<<Cardinality(samples), duration>>)
                  /\ \A m \in StepFields \ {"rps"} : Dig(doc, at(StepField(m))) = RoundedTime(Latency(m, samples))
<1> DEFINE figures == RunFigures(s, duration)
           Block(k) == StepBlock(k, ValueAt(s.steps, k, {}), ValueAt(s.stepErrors, k, 0), duration)
           blocks == [k \in Sampled(s) |-> Block(k)]
           paths == UNION {DOMAIN blocks[k] : k \in Sampled(s)}
           doc == Document(s, duration)
           samples == ValueAt(s.steps, step, {})
           at(f) == <<"step_stats", step, f>>
<1>1. doc = [p \in DOMAIN figures \cup paths |-> IF p \in DOMAIN figures THEN figures[p] ELSE blocks[p[2]][p]]
  BY DEF Document
<1>2. \A f : at(f) \notin DOMAIN figures /\ at(f)[2] = step
  <2> SUFFICES ASSUME NEW f PROVE at(f) \notin DOMAIN figures /\ at(f)[2] = step
    OBVIOUS
  <2>1. Len(at(f)) = 3 /\ at(f)[2] = step
    OBVIOUS
  <2>2. QED
    BY <2>1, PathsOfRun
<1>3. \A k \in Sampled(s) : \A p \in DOMAIN Block(k) : p[2] = k
  BY DEF StepBlock
<1>4. step \in Sampled(s) <=> samples # {}
  BY DEF Sampled, ValueAt
<1>5. \A k \in Sampled(s) : blocks[k] = Block(k)
  OBVIOUS
<1> HIDE DEF figures, blocks, Block, doc, at, samples
<1>6. \A f : at(f) \in paths <=> step \in Sampled(s) /\ at(f) \in DOMAIN Block(step)
  BY <1>2, <1>3, <1>5
<1> HIDE DEF paths
<1>7. \A f : Dig(doc, at(f)) = IF step \in Sampled(s) /\ at(f) \in DOMAIN Block(step) THEN Block(step)[at(f)] ELSE Absent
  BY <1>1, <1>2, <1>5, <1>6 DEF Dig
<1>8. /\ at("count") \in DOMAIN Block(step) /\ Block(step)[at("count")] = Whole(Cardinality(samples))
      /\ at("errors") \in DOMAIN Block(step) /\ Block(step)[at("errors")] = Whole(ValueAt(s.stepErrors, step, 0))
      /\ at("requests_per_sec") \in DOMAIN Block(step)
      /\ Block(step)[at("requests_per_sec")] = RoundedRate(<<Cardinality(samples), duration>>)
      /\ \A m \in StepFields \ {"rps"} :
           at(StepField(m)) \in DOMAIN Block(step) /\ Block(step)[at(StepField(m))] = RoundedTime(Latency(m, samples))
  BY FiguresOfBlock DEF Block, at, samples
<1>9. /\ samples = {} => \A f : Dig(doc, at(f)) = Absent
      /\ samples # {} =>
           /\ Dig(doc, at("count")) = Whole(Cardinality(samples))
           /\ Dig(doc, at("errors")) = Whole(ValueAt(s.stepErrors, step, 0))
           /\ Dig(doc, at("requests_per_sec")) = RoundedRate(<<Cardinality(samples), duration>>)
           /\ \A m \in StepFields \ {"rps"} : Dig(doc, at(StepField(m))) = RoundedTime(Latency(m, samples))
  BY <1>4, <1>7, <1>8
<1>10. QED
  BY <1>9 DEF doc, samples, at

-------------------------------------------------------------------------------
(* The verdict on a metric, and on what the file says of it.                  *)

LEMMA FractionIsPresent == \A x \in Fraction : x # Absent
<1> SUFFICES ASSUME NEW x \in Fraction PROVE x # Absent
  OBVIOUS
<1>1. Len(x) = 2 /\ Len(Absent) = 0
  BY DEF Fraction, Absent
<1>2. QED
  BY <1>1

LEMMA SidesDiffer ==
  ASSUME NEW x \in Fraction, NEW b \in Fraction
  PROVE  ~(Below(x, b) /\ Below(b, x))
<1> DEFINE u == x[1] * b[2]
           v == b[1] * x[2]
<1>1. u \in Int /\ v \in Int
  BY DEF Fraction
<1>2. (Below(x, b) <=> u < v) /\ (Below(b, x) <=> v < u)
  BY DEF Below
<1> HIDE DEF u, v
<1>3. QED
  BY <1>1, <1>2

LEMMA VerdictIsKept ==
  ASSUME NEW x \in Fraction, NEW y \in Fraction, NEW half \in Fraction, half[1] > 0, Near(y, x, half),
         NEW t, ThresholdKind(t),
         Below(half, Minus(x, t.bound)) \/ Below(Minus(x, t.bound), Minus(Whole(0), half))
  PROVE  Passes(x, t) <=> Passes(y, t)
<1>1. t.bound \in Fraction /\ t.op \in {"<", "<=", ">", ">="}
  BY DEF ThresholdKind, Fraction
<1>2. (Below(t.bound, x) /\ Below(t.bound, y)) \/ (Below(x, t.bound) /\ Below(y, t.bound))
  BY <1>1, SideIsKept
<1>3. ~(Below(x, t.bound) /\ Below(t.bound, x)) /\ ~(Below(y, t.bound) /\ Below(t.bound, y))
  BY <1>1, SidesDiffer
<1>4. x # Absent /\ y # Absent
  BY FractionIsPresent
<1>5. Compares(x, t.op, t.bound) <=> Compares(y, t.op, t.bound)
  BY <1>1, <1>2, <1>3 DEF Compares
<1>6. QED
  BY <1>4, <1>5 DEF Passes

LEMMA TakenIsFinite ==
  ASSUME NEW D, History(D)
  PROVE  /\ IsFiniteSet(Taken(D)) /\ Taken(D) \subseteq Sample
         /\ (\A d, e \in D : d.sample = e.sample => d = e) => Cardinality(Taken(D)) = Cardinality(OfKind(D, "answer"))
<1> DEFINE E == OfKind(D, "answer")
           T == {d.sample : d \in E}
           f == [d \in E |-> d.sample]
<1>1. E \subseteq D /\ IsFiniteSet(E)
  <2>1. E \subseteq D
    BY DEF OfKind
  <2> HIDE DEF E
  <2>2. QED
    BY <2>1, FS_Subset DEF History
<1>2. Taken(D) = T
  BY DEF Taken
<1> HIDE DEF E
<1>3. f \in Surjection(E, T)
  BY DEF Surjection
<1>4. (\A d, e \in D : d.sample = e.sample => d = e) => f \in Injection(E, T)
  BY <1>1 DEF Injection, IsInjective
<1>5. T \subseteq Sample
  BY <1>1 DEF History, Happened
<1> HIDE DEF T, f
<1>6. IsFiniteSet(T) /\ (Cardinality(T) = Cardinality(E) <=> f \in Injection(E, T))
  BY <1>1, <1>3, FS_Surjection
<1>7. QED
  BY <1>2, <1>4, <1>5, <1>6 DEF E

\* What the file says of the samples of a run.
LEMMA SamplesAreValued ==
  ASSUME NEW D, NEW s, Tells(s, D), s.sample # {}
  PROVE  Valued(s.sample)
<1>1. IsFiniteSet(s.sample) /\ s.sample \subseteq Sample
  BY TakenIsFinite, FS_Subset DEF Tells
<1>2. \A x \in Sample : x.value \in Nat
  BY DEF Sample
<1>3. QED
  BY <1>1, <1>2 DEF Valued

LEMMA StepSamplesAreValued ==
  ASSUME NEW D, NEW s, Tells(s, D), NEW step, ValueAt(s.steps, step, {}) # {}
  PROVE  Valued(ValueAt(s.steps, step, {}))
<1> DEFINE S == ValueAt(s.steps, step, {})
<1>1. Dict(s.steps, SUBSET Sample) /\ History(D) /\ SamplesOf(s.steps) = {d.sample : d \in Stepped(D)}
  BY DEF Tells, StepsTell, Filed
<1>2. step \in Keys(s.steps)
  BY DEF ValueAt
<1>3. S \subseteq SamplesOf(s.steps)
  BY <1>1, <1>2, SamplesByKey
<1>4. S \subseteq Taken(D)
  BY <1>1, <1>3 DEF Taken, Stepped, OfKind
<1>5. IsFiniteSet(S) /\ S \subseteq Sample
  BY <1>1, <1>4, TakenIsFinite, FS_Subset
<1> HIDE DEF S
<1>6. QED
  BY <1>5 DEF Valued, Sample, S

\* What was measured and what rounding makes of it, half the unit or less away.
LEMMA RoundedVerdict ==
  ASSUME NEW t, ThresholdKind(t), ~Rounded(t), t.metric # "error_rate", NEW x \in Fraction, x = InFile(t),
         NEW y, y = IF t.metric = "rps" THEN RoundedRate(x) ELSE RoundedTime(x)
  PROVE  Passes(x, t) <=> Passes(y, t)
<1> DEFINE half == IF t.metric = "rps" THEN <<1, 200>> ELSE Whole(5)
<1>1. half \in Fraction /\ half[1] > 0
  BY DEF Fraction, Whole
<1>2. y \in Fraction /\ Near(y, x, half)
  BY RateIsNear, TimeIsNear
<1>3. Below(half, Minus(x, t.bound)) \/ Below(Minus(x, t.bound), Minus(Whole(0), half))
  BY FractionIsPresent DEF Rounded
<1> HIDE DEF half
<1>4. QED
  BY <1>1, <1>2, <1>3, VerdictIsKept

\* A threshold on the run: what was measured, and from the file.
LEMMA RunVerdict ==
  ASSUME ToldInv, phase # "load", NEW t \in run.thresholds, t.step = NoStep, ~Rounded(t)
  PROVE  Passes(InFile(t), t) <=> Passes(MeasuredLater(t, Document(total, run.duration)), t)
<1> DEFINE duration == run.duration
           doc == Document(total, duration)
           m == t.metric
           x == InFile(t)
           y == MeasuredLater(t, doc)
<1>1. ThresholdKind(t) /\ duration \in Nat \ {0} /\ Tells(total, done)
  BY RunIsPlanned DEF ToldInv, DoneInv, TotalInv, run, PlanKind
<1>2. m \in Metric
  BY <1>1 DEF ThresholdKind
<1>3. total.requests \in Nat /\ total.errors \in Nat
  BY <1>1, FiguresTyped DEF Tells
<1>4. /\ doc[<<"total_requests">>] = Whole(total.requests) /\ doc[<<"total_errors">>] = Whole(total.errors)
      /\ Dig(doc, RunPath("rps")) = RoundedRate(<<total.requests, duration>>)
      /\ \A l \in LatencyMetric :
           Dig(doc, RunPath(l)) = IF total.sample = {} THEN Absent ELSE RoundedTime(Latency(l, total.sample))
  BY FiguresOfDocument
<1> HIDE DEF doc
<1>5. x = RunValue(m, total, duration) /\ y = FileValue(m, doc)
  BY DEF InFile, Measured, MeasuredLater
<1>6. CASE m = "error_rate"
  <2>1. x = Ratio(100 * total.errors, total.requests)
    BY <1>5, <1>6 DEF RunValue
  <2>2. y = IF total.requests = 0 THEN Absent ELSE <<100 * total.errors, total.requests>>
    BY <1>4, <1>5, <1>6 DEF FileValue, Whole
  <2>3. x = y
    BY <2>1, <2>2 DEF Ratio
  <2>4. QED
    BY <2>3 DEF doc
<1>7. CASE m = "rps"
  <2>1. x = <<total.requests, duration>>
    BY <1>1, <1>5, <1>7 DEF RunValue, Ratio
  <2>2. y = RoundedRate(x)
    BY <1>4, <1>5, <1>7, <2>1 DEF FileValue
  <2>3. x \in Fraction
    BY <1>1, <1>3, <2>1 DEF Fraction
  <2> HIDE DEF x, y
  <2>4. Passes(x, t) <=> Passes(y, t)
    BY <1>1, <1>7, <2>2, <2>3, RoundedVerdict DEF x
  <2>5. QED
    BY <2>4 DEF doc, x, y
<1>8. CASE m \in LatencyMetric
  <2>0. m # "error_rate" /\ m # "rps"
    BY <1>8 DEF LatencyMetric, Percentage
  <2>1. CASE total.sample = {}
    <3>1. x = Absent /\ y = Absent
      BY <1>4, <1>5, <1>8, <2>0, <2>1 DEF RunValue, FileValue
    <3>2. QED
      BY <3>1 DEF doc
  <2>2. CASE total.sample # {}
    <3>1. x = Latency(m, total.sample) /\ y = RoundedTime(x)
      BY <1>4, <1>5, <1>8, <2>0, <2>2 DEF RunValue, FileValue
    <3>2. x \in Fraction
      BY <1>1, <1>8, <2>2, <3>1, SamplesAreValued, LatencyIsNumber
    <3> HIDE DEF x, y
    <3>3. Passes(x, t) <=> Passes(y, t)
      BY <1>1, <2>0, <3>1, <3>2, RoundedVerdict DEF x
    <3>4. QED
      BY <3>3 DEF doc, x, y
  <2>3. QED
    BY <2>1, <2>2
<1>9. QED
  BY <1>2, <1>6, <1>7, <1>8 DEF Metric

\* A threshold on a step: what is left of it in the file, and from the file.
LEMMA StepVerdict ==
  ASSUME ToldInv, phase # "load", NEW t \in run.thresholds, t.step # NoStep, ~Rounded(t)
  PROVE  Passes(InFile(t), t) <=> Passes(MeasuredLater(t, Document(total, run.duration)), t)
<1> DEFINE duration == run.duration
           doc == Document(total, duration)
           m == t.metric
           samples == ValueAt(total.steps, t.step, {})
           errors == ValueAt(total.stepErrors, t.step, 0)
           At(f) == Dig(doc, <<"step_stats", t.step, f>>)
           x == InFile(t)
           y == MeasuredLater(t, doc)
<1>1. ThresholdKind(t) /\ duration \in Nat \ {0} /\ Tells(total, done)
  BY RunIsPlanned DEF ToldInv, DoneInv, TotalInv, run, PlanKind
<1>2. m \in Metric
  BY <1>1 DEF ThresholdKind
<1>3. /\ samples = {} => \A f : At(f) = Absent
      /\ samples # {} =>
           /\ At("count") = Whole(Cardinality(samples)) /\ At("errors") = Whole(errors)
           /\ At("requests_per_sec") = RoundedRate(<<Cardinality(samples), duration>>)
           /\ \A n \in StepFields \ {"rps"} : At(StepField(n)) = RoundedTime(Latency(n, samples))
  BY FiguresOfStep
<1>4. y = IF At("errors") = Absent THEN Absent
          ELSE IF m = "error_rate" THEN Ratio(100 * At("errors")[1], At("count")[1] + At("errors")[1])
          ELSE IF m \in StepFields THEN At(StepField(m)) ELSE Absent
  BY DEF MeasuredLater, FileStepValue
<1> HIDE DEF At, doc, y
<1>5. CASE samples = {}
  <2>1. x = Absent /\ y = Absent
    BY <1>3, <1>4, <1>5 DEF InFile
  <2>2. QED
    BY <2>1 DEF doc, y
<1>6. CASE samples # {}
  <2>1. At("errors") # Absent /\ At("errors")[1] = errors /\ At("count")[1] = Cardinality(samples)
    <3>1. \A n : Whole(n)[1] = n /\ Len(Whole(n)) = 2 /\ Len(Absent) = 0
      BY DEF Whole, Absent
    <3>2. At("errors") = Whole(errors) /\ At("count") = Whole(Cardinality(samples))
      BY <1>3, <1>6
    <3> HIDE DEF samples, errors
    <3>3. Whole(errors) # Absent
      BY <3>1
    <3>4. QED
      BY <3>1, <3>2, <3>3
  <2>2. Valued(samples)
    BY <1>1, <1>6, StepSamplesAreValued
  <2>3. Cardinality(samples) \in Nat
    BY <2>2, FS_CardinalityType DEF Valued
  <2>4. CASE m = "error_rate"
    <3>1. x = Ratio(100 * errors, Cardinality(samples) + errors)
      BY <1>6, <2>4 DEF InFile, Measured, StepValue
    <3>2. y = Ratio(100 * errors, Cardinality(samples) + errors)
      BY <1>4, <2>1, <2>4
    <3>3. QED
      BY <3>1, <3>2 DEF doc, y
  <2>5. CASE m = "rps"
    <3>1. x = <<Cardinality(samples), duration>>
      BY <1>6, <2>5 DEF InFile
    <3>2. "rps" \in StepFields /\ StepField("rps") = "requests_per_sec"
      BY FieldsDiffer DEF StepFields
    <3>3. y = RoundedRate(x)
      BY <1>3, <1>4, <1>6, <2>1, <2>5, <3>1, <3>2
    <3>4. x \in Fraction
      BY <1>1, <2>3, <3>1 DEF Fraction
    <3> HIDE DEF x
    <3>5. Passes(x, t) <=> Passes(y, t)
      BY <1>1, <2>5, <3>3, <3>4, RoundedVerdict DEF x
    <3>6. QED
      BY <3>5 DEF doc, x, y
  <2>6. CASE m \in {"p75", "p90"}
    <3>1. m # "error_rate" /\ m \notin StepFields
      BY <2>6 DEF StepFields
    <3>2. x = Absent /\ y = Absent
      BY <1>4, <2>6, <3>1 DEF InFile
    <3>3. QED
      BY <3>2 DEF doc, y
  <2>7. CASE m \in LatencyMetric \ {"p75", "p90"}
    <3>1. m # "error_rate" /\ m # "rps" /\ m \in StepFields \ {"rps"}
      BY <2>7 DEF LatencyMetric, Percentage, StepFields
    <3>2. x = Latency(m, samples)
      BY <1>6, <2>7, <3>1 DEF InFile, Measured, StepValue
    <3>3. y = RoundedTime(x)
      BY <1>3, <1>4, <1>6, <2>1, <3>1, <3>2
    <3>4. x \in Fraction
      BY <2>2, <2>7, <3>2, LatencyIsNumber
    <3> HIDE DEF x
    <3>5. Passes(x, t) <=> Passes(y, t)
      BY <1>1, <3>1, <3>3, <3>4, RoundedVerdict DEF x
    <3>6. QED
      BY <3>5 DEF doc, x, y
  <2>8. QED
    BY <1>2, <2>4, <2>5, <2>6, <2>7 DEF Metric
<1>7. QED
  BY <1>5, <1>6

-------------------------------------------------------------------------------
(* The exit codes.                                                            *)

Unsaved == \A f \in DOMAIN files : files[f].of # nth

\* A file is of a run that has been judged.
FilesInv ==
  /\ \A f \in DOMAIN files : files[f].of \in Nat /\ files[f].of <= nth
  /\ phase \in {"load", "judging"} => Unsaved

\* The code is the gates' with the files as they are, the run's own among them.
CodeInv ==
  phase \in {"judged", "reviewed"} =>
    \E saved \in BOOLEAN :
      /\ code = IF Breached THEN 2 ELSE BaselineGate(saved, files)
      /\ run.save # "" /\ ~saved => Unsaved

Reviewed ==
  [summary |-> IF run.baseline # <<>> /\ ~Readable(files) THEN 1
               ELSE IF BreachedLater THEN 2
               ELSE IF run.baseline # <<>> /\ Regressed(files) THEN 3 ELSE 0,
   compare |-> IF run.baseline = <<>> THEN 1 ELSE CompareExit(files, run.strict)]
LaterInv == phase = "reviewed" => later = Reviewed

GateInv == ToldInv /\ FilesInv /\ CodeInv /\ LaterInv

\* The gates look at the plan, the totals and the files.
LEMMA GatesStay ==
  ASSUME plan' = plan, nth' = nth, total' = total, NEW saved
  PROVE  /\ BaselineGate(saved, files)' = BaselineGate(saved, files') /\ (Breached' <=> Breached)
         /\ files' = files => (Unsaved' <=> Unsaved) /\ BaselineGate(saved, files)' = BaselineGate(saved, files)
                              /\ Reviewed' = Reviewed
<1>1. BaselineGate(saved, files)' = BaselineGate(saved, files')
  BY DEF BaselineGate, run, CompareExit, Readable, Sources, Regressed, Incomparable, Results
<1>2. Breached' <=> Breached
  BY DEF Breached, run
<1>3. ASSUME files' = files PROVE Unsaved' <=> Unsaved
  BY <1>3 DEF Unsaved
<1>4. ASSUME files' = files PROVE Reviewed' = Reviewed
  BY <1>4 DEF Reviewed, run, CompareExit, Readable, Sources, Regressed, Incomparable, Results, BreachedLater
<1>5. QED
  BY <1>1, <1>2, <1>3, <1>4

LEMMA NthIsNatural == ASSUME ToldInv PROVE nth \in Nat
<1>1. plan \in Plans /\ nth \in DOMAIN plan
  BY DEF ToldInv, DoneInv
<1>2. DOMAIN plan = 1..Len(plan) /\ Len(plan) \in Nat
  BY <1>1, RunIsPlanned
<1>3. QED
  BY <1>1, <1>2

LEMMA JudgeKeeps == ASSUME GateInv, Judge PROVE FilesInv' /\ CodeInv'
<1>1. /\ phase = "judging" /\ phase' = "judged" /\ plan' = plan /\ nth' = nth /\ total' = total /\ run' = run
      /\ FilesInv /\ Unsaved
  BY DEF Judge, run, GateInv, FilesInv
<1>2. nth \in Nat
  BY NthIsNatural DEF GateInv
<1>3. PICK saved \in BOOLEAN :
        /\ saved => run.save # ""
        /\ files' = IF saved THEN [f \in DOMAIN files \cup {run.save} |-> IF f = run.save THEN Results ELSE files[f]]
                    ELSE files
        /\ code' = IF Breached THEN 2 ELSE BaselineGate(saved, files')
  BY DEF Judge
<1>4. Results.of = nth
  BY DEF Results
<1>5. FilesInv'
  <2>1. \A f \in DOMAIN files' : files'[f].of = nth \/ (f \in DOMAIN files /\ files'[f] = files[f])
    BY <1>3, <1>4
  <2>2. \A f \in DOMAIN files' : files'[f].of \in Nat /\ files'[f].of <= nth
    BY <1>1, <1>2, <2>1 DEF FilesInv
  <2>3. QED
    BY <1>1, <2>2 DEF FilesInv
<1>6. CodeInv'
  <2>1. code' = IF Breached' THEN 2 ELSE BaselineGate(saved, files)'
    BY <1>1, <1>3, GatesStay
  <2>2. ~saved => Unsaved'
    BY <1>1, <1>3, GatesStay
  <2>3. QED
    BY <1>3, <2>1, <2>2 DEF CodeInv
<1>7. QED
  BY <1>5, <1>6

LEMMA GateStart == Init => GateInv
BY Start DEF Init, GateInv, FilesInv, CodeInv, LaterInv, Unsaved

LEMMA GateStep == ASSUME GateInv, [Next]_vars PROVE GateInv'
<1>1. ToldInv'
  BY ToldStep DEF GateInv
<1>2. nth \in Nat /\ FilesInv /\ CodeInv /\ LaterInv
  BY NthIsNatural DEF GateInv
<1>3. ASSUME nth' = nth, files' = files, phase \in {"load", "judging"}, phase' \in {"load", "judging"} PROVE GateInv'
  <2>1. FilesInv'
    BY <1>2, <1>3 DEF FilesInv, Unsaved
  <2>2. QED
    BY <1>1, <1>3, <2>1 DEF GateInv, CodeInv, LaterInv
<1>4. ASSUME NEW w \in Worker, Record(w) PROVE GateInv'
  BY <1>3, <1>4 DEF Record
<1>5. ASSUME NEW n \in DOMAIN parts, EndNode(n) PROVE GateInv'
  BY <1>3, <1>5 DEF EndNode
<1>6. CASE Gather
  BY <1>3, <1>6 DEF Gather
<1>7. CASE Judge
  <2>1. FilesInv' /\ CodeInv' /\ phase' = "judged"
    BY <1>7, JudgeKeeps DEF Judge
  <2>2. QED
    BY <1>1, <2>1 DEF GateInv, LaterInv
<1>8. CASE NextRun
  <2>1. nth' = nth + 1 /\ files' = files /\ phase' = "load"
    BY <1>8 DEF NextRun, Fresh
  <2>2. \A f \in DOMAIN files : files[f].of \in Nat /\ files[f].of <= nth
    BY <1>2 DEF FilesInv
  <2>3. \A f \in DOMAIN files : files[f].of <= nth + 1 /\ files[f].of # nth + 1
    BY <1>2, <2>2
  <2>4. FilesInv'
    BY <2>1, <2>2, <2>3 DEF FilesInv, Unsaved
  <2>5. QED
    BY <1>1, <2>1, <2>4 DEF GateInv, CodeInv, LaterInv
<1>9. CASE Review
  <2>1. /\ phase = "judged" /\ phase' = "reviewed" /\ plan' = plan /\ nth' = nth /\ total' = total /\ run' = run
        /\ files' = files /\ code' = code /\ later' = Reviewed
    BY <1>9 DEF Review, run, Reviewed
  <2>2. PICK saved \in BOOLEAN :
          code = (IF Breached THEN 2 ELSE BaselineGate(saved, files)) /\ (run.save # "" /\ ~saved => Unsaved)
    BY <1>2, <2>1 DEF CodeInv
  <2>3. code' = (IF Breached' THEN 2 ELSE BaselineGate(saved, files)') /\ (run'.save # "" /\ ~saved => Unsaved')
    BY <2>1, <2>2, GatesStay
  <2>4. FilesInv'
    BY <1>2, <2>1 DEF FilesInv
  <2>5. LaterInv'
    BY <2>1, GatesStay DEF LaterInv
  <2>6. QED
    BY <1>1, <2>2, <2>3, <2>4, <2>5 DEF GateInv, CodeInv
<1>10. CASE UNCHANGED vars
  <2>1. /\ phase' = phase /\ plan' = plan /\ nth' = nth /\ total' = total /\ run' = run
        /\ files' = files /\ code' = code /\ later' = later
    BY <1>10 DEF vars, run
  <2>2. FilesInv'
    BY <1>2, <2>1, GatesStay DEF FilesInv
  <2>3. LaterInv'
    BY <1>2, <2>1, GatesStay DEF LaterInv
  <2>4. CodeInv'
    BY <1>2, <2>1, GatesStay DEF CodeInv
  <2>5. QED
    BY <1>1, <2>2, <2>3, <2>4 DEF GateInv
<1>11. QED
  BY <1>4, <1>5, <1>6, <1>7, <1>8, <1>9, <1>10 DEF Next

LEMMA GatesFollow == ASSUME GateInv PROVE GatesAgree
<1> DEFINE settled == \A t \in run.thresholds : ~Rounded(t)
           alike == \A t \in run.thresholds : Passes(InFile(t), t) <=> Passes(Measured(t, total, run.duration), t)
           usable == run.baseline = <<>> \/ Readable(files)
           refused == run.baseline # <<>> /\ Readable(files) /\ run.strict /\ Incomparable(files)
<1>1. ToldInv /\ CodeInv /\ LaterInv
  BY DEF GateInv
<1>2. Results.numbers = Document(total, run.duration)
  BY DEF Results
<1>3. ASSUME phase # "load", NEW t \in run.thresholds, ~Rounded(t)
      PROVE  Passes(InFile(t), t) <=> Passes(MeasuredLater(t, Results.numbers), t)
  BY <1>1, <1>2, <1>3, RunVerdict, StepVerdict
<1>4. ASSUME phase = "reviewed", run.save # "" => run.save \in DOMAIN files /\ files[run.save].of = nth
      PROVE  /\ usable /\ ~refused /\ settled /\ alike => later.summary = code
             /\ usable /\ settled => (later.summary = 2 <=> \E t \in run.thresholds : ~Passes(InFile(t), t))
             /\ ~usable => later.summary = 1
             /\ ~usable \/ refused => code = IF Breached THEN 2 ELSE 1
             /\ run.baseline # <<>> /\ ~Breached => later.compare = code
  <2> DEFINE amiss == \E t \in run.thresholds : ~Passes(InFile(t), t)
  <2>1. settled => (BreachedLater <=> amiss)
    BY <1>3, <1>4 DEF BreachedLater
  <2>2. alike => (Breached <=> amiss)
    BY DEF Breached
  <2>3. PICK saved \in BOOLEAN :
          code = (IF Breached THEN 2 ELSE BaselineGate(saved, files)) /\ (run.save # "" /\ ~saved => Unsaved)
    BY <1>1, <1>4 DEF CodeInv
  <2>4. ~(run.save # "" /\ ~saved)
    BY <1>4, <2>3 DEF Unsaved
  <2>5. BaselineGate(saved, files) = IF run.baseline = <<>> THEN 0 ELSE CompareExit(files, run.strict)
    BY <2>4 DEF BaselineGate
  <2>6. CompareExit(files, run.strict) =
          IF ~Readable(files) \/ (run.strict /\ Incomparable(files)) THEN 1 ELSE IF Regressed(files) THEN 3 ELSE 0
    BY DEF CompareExit
  <2>7. /\ later.summary = IF run.baseline # <<>> /\ ~Readable(files) THEN 1
                           ELSE IF BreachedLater THEN 2
                           ELSE IF run.baseline # <<>> /\ Regressed(files) THEN 3 ELSE 0
        /\ later.compare = IF run.baseline = <<>> THEN 1 ELSE CompareExit(files, run.strict)
    <3>1. later = Reviewed
      BY <1>1, <1>4 DEF LaterInv
    <3> DEFINE a == IF run.baseline # <<>> /\ ~Readable(files) THEN 1
                    ELSE IF BreachedLater THEN 2
                    ELSE IF run.baseline # <<>> /\ Regressed(files) THEN 3 ELSE 0
               b == IF run.baseline = <<>> THEN 1 ELSE CompareExit(files, run.strict)
    <3>2. Reviewed = [summary |-> a, compare |-> b]
      BY DEF Reviewed
    <3> HIDE DEF a, b
    <3>3. later.summary = a /\ later.compare = b
      BY <3>1, <3>2
    <3>4. QED
      BY <3>3 DEF a, b
  <2> HIDE DEF amiss, settled, alike
  <2>8. usable /\ ~refused /\ settled /\ alike => later.summary = code
    BY <2>1, <2>2, <2>3, <2>5, <2>6, <2>7
  <2>9. usable /\ settled => (later.summary = 2 <=> amiss)
    BY <2>1, <2>7
  <2>10. (~usable => later.summary = 1) /\ (~usable \/ refused => code = IF Breached THEN 2 ELSE 1)
    BY <2>3, <2>5, <2>6, <2>7
  <2>11. run.baseline # <<>> /\ ~Breached => later.compare = code
    BY <2>3, <2>5, <2>6, <2>7
  <2>12. QED
    BY <2>8, <2>9, <2>10, <2>11 DEF amiss
<1> HIDE DEF settled, alike, usable, refused
<1>5. QED
  BY <1>3, <1>4 DEF GatesAgree, settled, alike, usable, refused

\* For all thresholds, on the run and on its steps, all rules, baselines and plans: the
\* verdict from the results file is that on what the file has (InFile), unless its bound
\* is within what rounding moves; and how the exit codes of the run, of summary and of
\* compare follow from that, from a baseline that cannot be read and from --strict-config.
THEOREM GatesAlwaysAgree == Spec => []GatesAgree
<1>1. Init => GateInv
  BY GateStart
<1>2. GateInv /\ [Next]_vars => GateInv'
  BY GateStep
<1>3. GateInv => GatesAgree
  BY GatesFollow
<1>4. QED
  BY <1>1, <1>2, <1>3, PTL DEF Spec

-------------------------------------------------------------------------------
(* The shares of the sources of a sample.                                     *)

LEMMA HalfDivides ==
  ASSUME NEW T \in Nat \ {0}, NEW a \in Int, NEW b \in Int, 2 * (T * a) <= 2 * (T * b) + T
  PROVE  a <= b
<1>1. SUFFICES ASSUME b + 1 <= a PROVE FALSE
  OBVIOUS
<1> DEFINE u == T * a
           v == T * b
           w == T * (b + 1)
<1>2. u \in Int /\ v \in Int /\ w \in Int /\ w = v + T /\ 2 * u <= 2 * v + T
  OBVIOUS
<1>3. w <= u
  <2> HIDE DEF u, v, w
  <2>1. b + 1 \in Int
    OBVIOUS
  <2> DEFINE c == b + 1
  <2> HIDE DEF c
  <2>2. c \in Int /\ c <= a
    BY <1>1, <2>1 DEF c
  <2>3. c * T <= a * T
    BY <2>2, TimesPositive
  <2>4. c * T = w /\ a * T = u
    BY <2>2 DEF c, w, u
  <2>5. QED
    BY <2>3, <2>4
<1> HIDE DEF u, v, w
<1>4. QED
  BY <1>2, <1>3

LEMMA DivisionIsUnique ==
  ASSUME NEW d \in Nat \ {0}, NEW n \in Int, NEW a \in Int, NEW r \in 0..(d - 1), n = d * a + r
  PROVE  n \div d = a /\ n % d = r
<1> DEFINE q == n \div d
           s == n % d
<1>1. q \in Int /\ s \in 0..(d - 1) /\ n = d * q + s
  BY Division
<1> HIDE DEF q, s
<1> DEFINE u == d * q
           v == d * a
<1>2. u \in Int /\ v \in Int /\ u + s = v + r
  BY <1>1
<1>3. 2 * u <= 2 * v + 2 * d /\ 2 * v <= 2 * u + 2 * d
  <2> HIDE DEF u, v
  <2> QED BY <1>1, <1>2
<1>4. q <= a
  <2>1. SUFFICES ASSUME a + 1 <= q PROVE FALSE
    BY <1>1
  <2>2. (a + 1) * d <= q * d /\ (a + 1) * d = v + d /\ q * d = u
    BY <1>1, <2>1, TimesPositive
  <2> HIDE DEF u, v
  <2>3. QED
    BY <1>1, <1>2, <2>2
<1>5. a <= q
  <2>1. SUFFICES ASSUME q + 1 <= a PROVE FALSE
    BY <1>1
  <2>2. (q + 1) * d <= a * d /\ (q + 1) * d = u + d /\ a * d = v
    BY <1>1, <2>1, TimesPositive
  <2> HIDE DEF u, v
  <2>3. QED
    BY <1>1, <1>2, <2>2
<1>6. q = a
  BY <1>1, <1>4, <1>5
<1>7. s = r
  <2>1. u = v
    BY <1>6
  <2> HIDE DEF u, v
  <2>2. QED
    BY <1>1, <1>2, <2>1
<1>8. QED
  BY <1>6, <1>7 DEF q, s

Share(x, T) == HalfEven(Capacity * x, T)

LEMMA ShareIsNear ==
  ASSUME NEW T \in Nat \ {0}, NEW x \in Nat, x <= T
  PROVE  /\ Share(x, T) \in Nat /\ Share(x, T) <= Capacity
         /\ 2 * (T * Share(x, T)) <= 2 * (Capacity * x) + T /\ 2 * (Capacity * x) <= 2 * (T * Share(x, T)) + T
         /\ T <= Capacity => x <= Share(x, T)
         /\ T > Capacity => Share(x, T) <= x
<1> DEFINE C == Capacity
           k == Share(x, T)
           y == C * x
<1>1. C \in Nat \ {0} /\ y \in Int
  BY StatisticsAssumption
<1>2. k \in Int /\ 2 * (T * k) <= 2 * y + T /\ 2 * y <= 2 * (T * k) + T
  BY <1>1, HalfEvenIsNear DEF Share
<1>3. 0 <= y /\ y <= T * C
  <2>1. 0 * C <= x * C /\ x * C <= T * C
    BY <1>1, TimesPositive
  <2>2. x * C = y
    BY <1>1
  <2>3. QED
    BY <1>1, <2>1, <2>2
<1> HIDE DEF C, k
<1>4. 0 <= k
  <2>1. 2 * (T * 0) <= 2 * (T * k) + T
    <3> DEFINE w == T * k
    <3>1. w \in Int /\ T * 0 = 0
      BY <1>2
    <3> HIDE DEF w, y
    <3>2. QED
      BY <1>1, <1>2, <1>3, <3>1 DEF w
  <2>2. QED
    BY <1>2, <2>1, HalfDivides
<1>5. k <= C
  <2>1. 2 * (T * k) <= 2 * (T * C) + T
    <3> DEFINE w == T * k
               z == T * C
    <3>1. w \in Int /\ z \in Int /\ 2 * w <= 2 * y + T /\ y <= z
      BY <1>1, <1>2, <1>3
    <3> HIDE DEF w, y, z
    <3>2. 2 * w <= 2 * z + T
      BY <1>1, <3>1
    <3>3. QED
      BY <3>2 DEF w, z
  <2>2. QED
    BY <1>1, <1>2, <2>1, HalfDivides
<1>6. ASSUME T <= C PROVE x <= k
  <2>1. T * x <= y
    <3>1. CASE x = 0
      BY <1>1, <1>3, <3>1
    <3>2. CASE x # 0
      BY <1>1, <1>6, <3>2, TimesPositive
    <3>3. QED
      BY <3>1, <3>2
  <2>2. 2 * (T * x) <= 2 * (T * k) + T
    <3> DEFINE w == T * k
               z == T * x
    <3>1. w \in Int /\ z \in Int /\ 2 * y <= 2 * w + T /\ z <= y
      BY <1>1, <1>2, <2>1
    <3> HIDE DEF w, y, z
    <3>2. 2 * z <= 2 * w + T
      BY <1>1, <3>1
    <3>3. QED
      BY <3>2 DEF w, z
  <2>3. QED
    BY <1>2, <2>2, HalfDivides
<1>7. ASSUME T > C PROVE k <= x
  <2>1. y <= T * x
    <3>1. CASE x = 0
      BY <1>1, <1>3, <3>1
    <3>2. CASE x # 0
      BY <1>1, <1>7, <3>2, TimesPositive
    <3>3. QED
      BY <3>1, <3>2
  <2>2. 2 * (T * k) <= 2 * (T * x) + T
    <3> DEFINE w == T * k
               z == T * x
    <3>1. w \in Int /\ z \in Int /\ 2 * w <= 2 * y + T /\ y <= z
      BY <1>1, <1>2, <2>1
    <3> HIDE DEF w, y, z
    <3>2. 2 * w <= 2 * z + T
      BY <1>1, <3>1
    <3>3. QED
      BY <3>2 DEF w, z
  <2>3. QED
    BY <1>2, <2>2, HalfDivides
<1>8. QED
  BY <1>2, <1>4, <1>5, <1>6, <1>7 DEF k, C

\* Of an even capacity two sources get all.
LEMMA TwoShares ==
  ASSUME NEW T \in Nat \ {0}, NEW x \in Nat, NEW y \in Nat, T = x + y, Capacity % 2 = 0
  PROVE  Share(x, T) + Share(y, T) = Capacity
<1> DEFINE C == Capacity
           n == C * x
           m == C * y
           q == n \div T
           r == n % T
<1>1. C \in Nat \ {0} /\ n \in Int /\ m \in Int
  BY StatisticsAssumption
<1>2. q \in Int /\ r \in 0..(T - 1) /\ n = T * q + r
  BY <1>1, Division
<1>3. m = T * C - n
  BY <1>1
<1> HIDE DEF n, m, q, r
<1>4. T * (C - q) = T * C - T * q /\ T * (C - q - 1) = T * C - T * q - T
  BY <1>1, <1>2
<1> DEFINE a == T * C
           b == T * q
<1>5. a \in Int /\ b \in Int
  BY <1>1, <1>2
<1>6. m = T * (C - q) - r /\ m = T * (C - q - 1) + (T - r)
  <2>1. m = a - n /\ n = b + r /\ T * (C - q) = a - b /\ T * (C - q - 1) = a - b - T
    BY <1>2, <1>3, <1>4
  <2> HIDE DEF a, b
  <2>2. m = (a - b) - r /\ m = (a - b - T) + (T - r)
    BY <1>1, <1>2, <1>5, <2>1
  <2>3. QED
    BY <2>1, <2>2
<1>7. Share(x, T) = IF 2 * r < T \/ (2 * r = T /\ q % 2 = 0) THEN q ELSE q + 1
  BY DEF Share, HalfEven, n, q, r
<1>8. CASE r = 0
  <2>1. m \div T = C - q /\ m % T = 0
    <3>1. C - q \in Int /\ 0 \in 0..(T - 1) /\ m = T * (C - q) + 0
      BY <1>1, <1>2, <1>6, <1>8
    <3>2. QED
      BY <1>1, <3>1, DivisionIsUnique
  <2>2. Share(y, T) = C - q
    BY <2>1 DEF Share, HalfEven, m
  <2>3. QED
    BY <1>1, <1>2, <1>7, <1>8, <2>2
<1>9. CASE r # 0
  <2>1. m \div T = C - q - 1 /\ m % T = T - r
    <3> DEFINE c == C - q - 1
               s == T - r
    <3>1. c \in Int /\ s \in 0..(T - 1)
      BY <1>1, <1>2, <1>9
    <3>2. m = T * c + s
      BY <1>6
    <3> HIDE DEF c, s
    <3>3. m \div T = c /\ m % T = s
      BY <1>1, <3>1, <3>2, DivisionIsUnique
    <3>4. QED
      BY <3>3 DEF c, s
  <2>2. Share(y, T) = IF 2 * (T - r) < T \/ (2 * (T - r) = T /\ (C - q - 1) % 2 = 0) THEN C - q - 1 ELSE C - q - 1 + 1
    BY <2>1 DEF Share, HalfEven, m
  <2>3. (C - q - 1) % 2 = 0 <=> q % 2 = 1
    BY <1>1, <1>2
  <2>4. q % 2 \in {0, 1}
    BY <1>2
  <2>5. CASE 2 * r < T
    <3>1. ~(2 * (T - r) < T) /\ 2 * (T - r) # T
      BY <1>2, <2>5
    <3>2. QED
      BY <1>1, <1>2, <1>7, <2>2, <2>5, <3>1
  <2>6. CASE 2 * r > T
    <3>1. 2 * (T - r) < T /\ ~(2 * r < T) /\ 2 * r # T
      BY <1>2, <2>6
    <3>2. QED
      BY <1>1, <1>2, <1>7, <2>2, <3>1
  <2>7. CASE 2 * r = T
    <3>1. 2 * (T - r) = T /\ ~(2 * (T - r) < T) /\ ~(2 * r < T)
      BY <1>2, <2>7
    <3>2. Share(x, T) = (IF q % 2 = 0 THEN q ELSE q + 1) /\ Share(y, T) = (IF q % 2 = 1 THEN C - q - 1 ELSE C - q - 1 + 1)
      BY <1>7, <2>2, <2>3, <2>7, <3>1
    <3>3. QED
      BY <1>1, <1>2, <2>4, <3>2
  <2>8. QED
    BY <1>2, <2>5, <2>6, <2>7
<1>10. QED
  BY <1>8, <1>9

LEMMA SizesAddUp ==
  ASSUME NEW I, IsFiniteSet(I), NEW c, \A i \in I : IsFiniteSet(c[i]),
         \A i, j \in I : i # j => c[i] \cap c[j] = {}
  PROVE  LET all == UNION {c[i] : i \in I}
         IN  IsFiniteSet(all) /\ Cardinality(all) = SumFunctionOnSet([i \in I |-> Cardinality(c[i])], I)
<1> DEFINE f == [i \in I |-> Cardinality(c[i])]
           All(J) == UNION {c[i] : i \in J}
           Right(J) == IsFiniteSet(All(J)) /\ Cardinality(All(J)) = SumFunctionOnSet(f, J)
           Wrong == {J \in SUBSET I : ~Right(J)}
<1>1. SUFFICES ASSUME Wrong # {} PROVE FALSE
  <2>1. Right(I)
    BY <1>1
  <2>2. QED
    BY <2>1
<1>2. PICK J \in Wrong : IsFiniteSet(J) /\ \A K \in Wrong : K \subseteq J => K = J
  <2>1. Wrong \subseteq SUBSET I
    OBVIOUS
  <2> HIDE DEF Wrong
  <2>2. QED
    BY <1>1, <2>1, SmallestSubset
<1>3. J # {}
  <2>1. Right({})
    <3>1. All({}) = {}
      OBVIOUS
    <3>2. QED
      BY <3>1, FS_EmptySet, SumOfNothing
  <2>2. QED
    BY <1>2, <2>1
<1>4. PICK i \in J : TRUE
  BY <1>3
<1> DEFINE K == J \ {i}
<1>5. K \in SUBSET I /\ K \notin Wrong /\ i \in I
  BY <1>2, <1>4
<1>6. Right(K)
  BY <1>5
<1>7. All(J) = All(K) \cup c[i] /\ All(K) \cap c[i] = {}
  BY <1>4, <1>5
<1>8. \A h \in J : f[h] \in Int
  BY FS_CardinalityType
<1>9. SumFunctionOnSet(f, J) = f[i] + SumFunctionOnSet(f, K)
  <2> HIDE DEF f
  <2> QED BY <1>2, <1>8, SumRemovesElement
<1>10. f[i] = Cardinality(c[i]) /\ Cardinality(c[i]) \in Nat
  BY <1>5, FS_CardinalityType
<1> HIDE DEF f, K
<1>11. IsFiniteSet(All(J)) /\ Cardinality(All(J)) = Cardinality(All(K)) + Cardinality(c[i])
  <2> DEFINE A == All(K)
             B == c[i]
  <2>1. IsFiniteSet(A) /\ IsFiniteSet(B) /\ A \cap B = {}
    BY <1>5, <1>6, <1>7
  <2> HIDE DEF A, B
  <2>2. IsFiniteSet(A \cup B) /\ Cardinality(A \cup B) = Cardinality(A) + Cardinality(B)
    BY <2>1, DisjointSets
  <2>3. QED
    BY <1>7, <2>2 DEF A, B
<1>12. Cardinality(All(K)) \in Nat
  BY <1>6, FS_CardinalityType
<1>13. Cardinality(All(J)) = SumFunctionOnSet(f, J)
  <2> HIDE DEF All
  <2>1. Cardinality(All(K)) = SumFunctionOnSet(f, K)
    BY <1>6
  <2>2. QED
    BY <1>9, <1>10, <1>11, <1>12, <2>1
<1>14. QED
  BY <1>2, <1>11, <1>13

\* k[i] is the share of x[i].
SharedOut(T, x, k, I) ==
  /\ T \in Nat \ {0} /\ IsFiniteSet(I)
  /\ \A i \in I : /\ x[i] \in Int /\ k[i] \in Int
                  /\ 2 * (T * k[i]) <= 2 * (Capacity * x[i]) + T /\ 2 * (Capacity * x[i]) <= 2 * (T * k[i]) + T

LEMMA SumsAreNear ==
  ASSUME NEW T, NEW x, NEW k, NEW I, SharedOut(T, x, k, I)
  PROVE  LET X == SumFunctionOnSet(x, I)
             K == SumFunctionOnSet(k, I)
         IN  /\ X \in Int /\ K \in Int
             /\ 2 * (T * K) <= 2 * (Capacity * X) + T * Cardinality(I)
             /\ 2 * (Capacity * X) <= 2 * (T * K) + T * Cardinality(I)
<1> DEFINE C == Capacity
           X(J) == SumFunctionOnSet(x, J)
           K(J) == SumFunctionOnSet(k, J)
           N(J) == Cardinality(J)
           Right(J) == 2 * (T * K(J)) <= 2 * (C * X(J)) + T * N(J) /\ 2 * (C * X(J)) <= 2 * (T * K(J)) + T * N(J)
           Wrong == {J \in SUBSET I : ~Right(J)}
<1>0. T \in Nat \ {0} /\ C \in Nat \ {0} /\ IsFiniteSet(I)
  BY StatisticsAssumption DEF SharedOut
<1>1. \A J \in SUBSET I : IsFiniteSet(J) /\ X(J) \in Int /\ K(J) \in Int /\ N(J) \in Nat
  BY FS_Subset, FS_CardinalityType, SumType DEF SharedOut
<1>2. SUFFICES ASSUME Wrong # {} PROVE FALSE
  <2>1. Right(I)
    BY <1>2
  <2>2. X(I) \in Int /\ K(I) \in Int
    BY <1>1
  <2>3. QED
    BY <2>1, <2>2
<1>3. PICK J \in Wrong : IsFiniteSet(J) /\ \A L \in Wrong : L \subseteq J => L = J
  <2>1. Wrong \subseteq SUBSET I
    OBVIOUS
  <2> HIDE DEF Wrong
  <2>2. QED
    BY <1>0, <1>2, <2>1, SmallestSubset
<1>4. J # {}
  <2>1. X({}) = 0 /\ K({}) = 0 /\ N({}) = 0
    BY SumOfNothing, FS_EmptySet
  <2>2. Right({})
    <3> HIDE DEF X, K, N, C
    <3>1. T * 0 = 0 /\ C * 0 = 0
      BY <1>0
    <3>2. QED
      BY <1>0, <2>1, <3>1
  <2>3. QED
    BY <1>3, <2>2
<1>5. PICK i \in J : TRUE
  BY <1>4
<1> DEFINE L == J \ {i}
<1>6. L \in SUBSET I /\ L \notin Wrong /\ i \in I /\ J \in SUBSET I
  BY <1>3, <1>5
<1>7. Right(L) /\ ~Right(J)
  BY <1>3, <1>6
<1>8. X(J) = x[i] + X(L) /\ K(J) = k[i] + K(L) /\ N(J) = N(L) + 1
  <2>1. \A h \in J : x[h] \in Int /\ k[h] \in Int
    BY <1>6 DEF SharedOut
  <2>2. N(J) = N(L) + 1
    <3>1. N(J) \in Nat /\ N(L) = N(J) - 1
      BY <1>1, <1>3, <1>5, <1>6, FS_RemoveElement
    <3> HIDE DEF N
    <3>2. QED
      BY <3>1
  <2>3. QED
    BY <1>3, <2>1, <2>2, SumRemovesElement
<1> DEFINE a == x[i]
           b == k[i]
           u == X(L)
           v == K(L)
           n == N(L)
<1>9. /\ a \in Int /\ b \in Int /\ u \in Int /\ v \in Int /\ n \in Nat
      /\ 2 * (T * b) <= 2 * (C * a) + T /\ 2 * (C * a) <= 2 * (T * b) + T
  BY <1>1, <1>6 DEF SharedOut
<1>10. /\ 2 * (T * v) <= 2 * (C * u) + T * n /\ 2 * (C * u) <= 2 * (T * v) + T * n
       /\ ~(2 * (T * (b + v)) <= 2 * (C * (a + u)) + T * (n + 1) /\ 2 * (C * (a + u)) <= 2 * (T * (b + v)) + T * (n + 1))
  BY <1>7, <1>8
<1> HIDE DEF a, b, u, v, n, C
<1>11. /\ T * (b + v) = T * b + T * v /\ C * (a + u) = C * a + C * u /\ T * (n + 1) = T * n + T
       /\ T * b \in Int /\ T * v \in Int /\ C * a \in Int /\ C * u \in Int /\ T * n \in Int
  BY <1>0, <1>9
<1> DEFINE Tb == T * b
           Tv == T * v
           Ca == C * a
           Cu == C * u
           Tn == T * n
<1>12. /\ Tb \in Int /\ Tv \in Int /\ Ca \in Int /\ Cu \in Int /\ Tn \in Int
       /\ 2 * Tb <= 2 * Ca + T /\ 2 * Ca <= 2 * Tb + T /\ 2 * Tv <= 2 * Cu + Tn /\ 2 * Cu <= 2 * Tv + Tn
       /\ ~(2 * (Tb + Tv) <= 2 * (Ca + Cu) + (Tn + T) /\ 2 * (Ca + Cu) <= 2 * (Tb + Tv) + (Tn + T))
  BY <1>9, <1>10, <1>11
<1> HIDE DEF Tb, Tv, Ca, Cu, Tn
<1>13. QED
  BY <1>0, <1>12

LEMMA SharesAddUp ==
  ASSUME NEW n \in Nat, NEW x, \A i \in 1..n : x[i] \in Nat, SumFunctionOnSet(x, 1..n) # 0
  PROVE  LET T == SumFunctionOnSet(x, 1..n)
             K == SumFunctionOnSet([i \in 1..n |-> Share(x[i], T)], 1..n)
         IN  K \in Int /\ 2 * K <= 2 * Capacity + Slack(n) /\ 2 * Capacity <= 2 * K + Slack(n)
<1> DEFINE C == Capacity
           T == SumFunctionOnSet(x, 1..n)
           k == [i \in 1..n |-> Share(x[i], T)]
           K == SumFunctionOnSet(k, 1..n)
<1>1. IsFiniteSet(1..n) /\ Cardinality(1..n) = n /\ C \in Nat \ {0}
  BY FS_Interval, StatisticsAssumption
<1>2. T \in Nat \ {0} /\ \A i \in 1..n : x[i] <= T
  BY <1>1, SumIsNatural, TermIsBounded
<1> HIDE DEF T
<1>3. \A i \in 1..n : k[i] = Share(x[i], T)
  OBVIOUS
<1> HIDE DEF k
<1>4. SharedOut(T, x, k, 1..n)
  <2>1. ASSUME NEW i \in 1..n
        PROVE  /\ x[i] \in Int /\ k[i] \in Int
               /\ 2 * (T * k[i]) <= 2 * (Capacity * x[i]) + T /\ 2 * (Capacity * x[i]) <= 2 * (T * k[i]) + T
    <3>1. x[i] \in Nat /\ x[i] <= T /\ k[i] = Share(x[i], T)
      BY <1>2, <1>3
    <3> DEFINE y == x[i]
    <3> HIDE DEF y
    <3>2. /\ Share(y, T) \in Nat
          /\ 2 * (T * Share(y, T)) <= 2 * (Capacity * y) + T /\ 2 * (Capacity * y) <= 2 * (T * Share(y, T)) + T
      BY <1>2, <3>1, ShareIsNear DEF y
    <3>3. QED
      BY <3>1, <3>2 DEF y
  <2>2. QED
    BY <1>1, <1>2, <2>1 DEF SharedOut
<1>5. K \in Int /\ 2 * (T * K) <= 2 * (C * T) + T * n /\ 2 * (C * T) <= 2 * (T * K) + T * n
  BY <1>1, <1>4, SumsAreNear DEF T
<1> HIDE DEF K, C
<1>6. 2 * K <= 2 * C + n /\ 2 * C <= 2 * K + n
  <2>1. (2 * K) * T <= (2 * C + n) * T
    <3>1. (2 * K) * T = 2 * (T * K) /\ (2 * C + n) * T = 2 * (C * T) + T * n
      BY <1>1, <1>2, <1>5
    <3>2. QED
      BY <1>5, <3>1
  <2>2. (2 * C) * T <= (2 * K + n) * T
    <3>1. (2 * C) * T = 2 * (C * T) /\ (2 * K + n) * T = 2 * (T * K) + T * n
      BY <1>1, <1>2, <1>5
    <3>2. QED
      BY <1>5, <3>1
  <2> DEFINE a == 2 * K
             b == 2 * C + n
             c == 2 * C
             d == 2 * K + n
  <2>3. a \in Int /\ b \in Int /\ c \in Int /\ d \in Int
    BY <1>1, <1>5
  <2> HIDE DEF a, b, c, d
  <2>4. a <= b /\ c <= d
    <3>1. a * T <= b * T /\ c * T <= d * T
      BY <2>1, <2>2 DEF a, b, c, d
    <3>2. QED
      BY <1>2, <2>3, <3>1, TimesPositive
  <2>5. QED
    BY <2>4 DEF a, b, c, d
<1>7. Slack(n) = IF n > 2 \/ (n = 2 /\ C % 2 = 1) THEN n ELSE 0
  BY DEF Slack, C
<1>8. CASE n = 0
  <2>1. 1..n = {}
    BY <1>8
  <2>2. T = 0
    BY <2>1, SumOfNothing DEF T
  <2>3. QED
    BY <1>2, <2>2
<1>9. CASE n = 1
  <2>1. Slack(n) = 0 /\ K = C
    BY <1>1, <1>5, <1>6, <1>7, <1>9
  <2>2. QED
    BY <1>1, <1>5, <2>1 DEF C, K, k, T
<1>10. CASE n = 2 /\ C % 2 = 0
  <2>1. K = C
    <3>1. 1..n = {1, 2} /\ (1..n) \ {1} = {2} /\ {2} \ {2} = {}
      BY <1>10
    <3>2. \A f : f[1] \in Int /\ f[2] \in Int => SumFunctionOnSet(f, 1..n) = f[1] + f[2]
      <4> SUFFICES ASSUME NEW f, f[1] \in Int, f[2] \in Int PROVE SumFunctionOnSet(f, 1..n) = f[1] + f[2]
        OBVIOUS
      <4>1. SumFunctionOnSet(f, 1..n) = f[1] + SumFunctionOnSet(f, {2})
        BY <1>1, <3>1, SumRemovesElement, SMTT(30)
      <4>2. SumFunctionOnSet(f, {2}) = f[2] + SumFunctionOnSet(f, {})
        <5> DEFINE S == {2}
        <5>1. IsFiniteSet(S) /\ 2 \in S /\ (\A h \in S : f[h] \in Int) /\ S \ {2} = {}
          BY FS_Singleton
        <5> HIDE DEF S
        <5>2. SumFunctionOnSet(f, S) = f[2] + SumFunctionOnSet(f, S \ {2})
          BY <5>1, SumRemovesElement
        <5>3. QED
          BY <5>1, <5>2 DEF S
      <4>3. QED
        BY <4>1, <4>2, SumOfNothing
    <3>3. x[1] \in Nat /\ x[2] \in Nat /\ x[1] <= T /\ x[2] <= T /\ k[1] = Share(x[1], T) /\ k[2] = Share(x[2], T)
      BY <1>2, <1>3, <3>1
    <3>4. T = x[1] + x[2]
      BY <3>2, <3>3 DEF T
    <3>5. k[1] \in Int /\ k[2] \in Int
      BY <1>4, <3>1 DEF SharedOut
    <3>6. K = k[1] + k[2]
      BY <3>2, <3>5 DEF K
    <3>7. Share(x[1], T) + Share(x[2], T) = C
      <4> DEFINE y == x[1]
                 z == x[2]
      <4>1. y \in Nat /\ z \in Nat /\ T = y + z
        BY <3>3, <3>4
      <4> HIDE DEF y, z
      <4>2. Share(y, T) + Share(z, T) = C
        BY <1>2, <1>10, <4>1, TwoShares DEF C
      <4>3. QED
        BY <4>2 DEF y, z
    <3>8. QED
      BY <3>3, <3>6, <3>7
  <2>2. Slack(n) = 0
    BY <1>7, <1>10
  <2>3. QED
    BY <1>1, <1>5, <2>1, <2>2 DEF C, K, k, T
<1>11. CASE n > 2 \/ (n = 2 /\ C % 2 = 1)
  <2>1. Slack(n) = n
    BY <1>7, <1>11
  <2>2. QED
    BY <1>5, <1>6, <2>1 DEF C, K, k, T
<1>12. C % 2 \in {0, 1}
  BY <1>1
<1>13. QED
  BY <1>8, <1>9, <1>10, <1>11, <1>12

-------------------------------------------------------------------------------
(* What becomes of the samples of the sources.                                *)

Seen(q) == SumFunctionOnSet([i \in DOMAIN q |-> q[i].seen], DOMAIN q)

\* f[i] is what is drawn of the i-th, r what is left of them all.
Draw(q, n, T, f) ==
  \A i \in 1..n :
    /\ f[i] \subseteq q[i].sample
    /\ IF Share(q[i].seen, T) >= Cardinality(q[i].sample) THEN f[i] = q[i].sample ELSE Cardinality(f[i]) = Share(q[i].seen, T)
Left(pool, r) == r \subseteq pool /\ IF Cardinality(pool) <= Capacity THEN r = pool ELSE Cardinality(r) = Capacity

Pooled(f, n) == UNION {f[i] : i \in 1..n}

LEMMA PoolIsDrawn ==
  ASSUME NEW q, NEW n, DOMAIN q = 1..n, NEW r \in MergedSamples(q)
  PROVE  IF Seen(q) = 0 THEN Left({}, r) ELSE \E f : Draw(q, n, Seen(q), f) /\ Left(Pooled(f, n), r)
<1> DEFINE all == SumOf(q, LAMBDA p : p.seen)
           drawn == [i \in DOMAIN q |-> Drawn(q[i], all)]
<1>1. all = Seen(q)
  BY DEF SumOf, Seen
<1>2. \A i \in 1..n : drawn[i] = Drawn(q[i], all)
  OBVIOUS
<1>3. PICK pool \in Pools(q) : r \in IF Cardinality(pool) <= Capacity THEN {pool} ELSE Subsets(pool, Capacity)
  BY DEF MergedSamples
<1>4. pool \in IF all = 0 THEN {{}}
               ELSE {UNION Range(f) : f \in {f \in [DOMAIN q -> UNION Range(drawn)] : \A i \in DOMAIN q : f[i] \in drawn[i]}}
  BY <1>3 DEF Pools
<1> HIDE DEF all, drawn
<1>5. Left(pool, r)
  BY <1>3 DEF Left, Subsets
<1>6. CASE all = 0
  BY <1>1, <1>4, <1>5, <1>6
<1>7. CASE all # 0
  <2>1. PICK f \in [DOMAIN q -> UNION Range(drawn)] : (\A i \in DOMAIN q : f[i] \in drawn[i]) /\ pool = UNION Range(f)
    BY <1>4, <1>7
  <2>2. ASSUME NEW i \in 1..n
        PROVE  /\ f[i] \subseteq q[i].sample
               /\ IF Share(q[i].seen, all) >= Cardinality(q[i].sample) THEN f[i] = q[i].sample
                  ELSE Cardinality(f[i]) = Share(q[i].seen, all)
    <3>1. f[i] \in Drawn(q[i], all)
      BY <1>2, <2>1
    <3>2. QED
      BY <3>1 DEF Drawn, Share, Subsets
  <2>3. Draw(q, n, all, f)
    BY <2>2 DEF Draw
  <2>4. pool = Pooled(f, n)
    BY <2>1 DEF Range, Pooled
  <2>5. QED
    BY <1>1, <1>5, <1>7, <2>3, <2>4
<1>8. QED
  BY <1>6, <1>7

\* A sample of the capacity, but for j halves of an item, or of all there is.
Fair(s, j) ==
  /\ s.seen <= Capacity => Cardinality(s.sample) = s.seen
  /\ s.seen > Capacity => Cardinality(s.sample) <= Capacity /\ 2 * Capacity <= 2 * Cardinality(s.sample) + j

\* The part u that is drawn of a source that has kept t of x.
LEMMA OneDraw ==
  ASSUME NEW T \in Nat \ {0}, NEW x \in Nat, x <= T, NEW t \in Nat, NEW j \in Nat, NEW u,
         x <= Capacity => t = x, x > Capacity => t <= Capacity /\ 2 * Capacity <= 2 * t + j,
         u = IF Share(x, T) >= t THEN t ELSE Share(x, T)
  PROVE  /\ u \in Nat
         /\ T <= Capacity => u = x
         /\ u <= Share(x, T)
         /\ T > Capacity => 2 * Share(x, T) <= 2 * u + j
         /\ T > Capacity /\ j = 0 => u = Share(x, T)
<1> DEFINE k == Share(x, T)
<1>1. /\ k \in Nat /\ k <= Capacity /\ Capacity \in Nat
      /\ T <= Capacity => x <= k
      /\ T > Capacity => k <= x
  BY ShareIsNear, StatisticsAssumption
<1> HIDE DEF k
<1>2. u = IF k >= t THEN t ELSE k
  BY DEF k
<1>3. /\ u \in Nat
      /\ T <= Capacity => u = x
      /\ u <= k
      /\ T > Capacity => 2 * k <= 2 * u + j
      /\ T > Capacity /\ j = 0 => u = k
  BY <1>1, <1>2
<1>4. QED
  BY <1>3 DEF k

\* The sources, which have no sample in common.
Supply(q, n, j) ==
  /\ n \in Nat /\ DOMAIN q = 1..n
  /\ \A i \in 1..n : /\ q[i].seen \in Nat /\ IsFiniteSet(q[i].sample) /\ j[i] \in Nat /\ Fair(q[i], j[i])
  /\ \A h, i \in 1..n : h # i => q[h].sample \cap q[i].sample = {}

\* What is drawn, and how much that is.
LEMMA PoolSize ==
  ASSUME NEW q, NEW n, NEW j, Supply(q, n, j), Seen(q) # 0, NEW f, Draw(q, n, Seen(q), f)
  PROVE  LET T == Seen(q)
             pool == Pooled(f, n)
         IN  /\ T \in Nat \ {0}
             /\ \A i \in 1..n : /\ IsFiniteSet(f[i]) /\ Cardinality(f[i]) \in Nat /\ q[i].seen <= T
                                /\ T <= Capacity => Cardinality(f[i]) = q[i].seen
                                /\ Cardinality(f[i]) <= Share(q[i].seen, T)
                                /\ T > Capacity => 2 * Share(q[i].seen, T) <= 2 * Cardinality(f[i]) + j[i]
                                /\ T > Capacity /\ j[i] = 0 => Cardinality(f[i]) = Share(q[i].seen, T)
             /\ IsFiniteSet(pool) /\ Cardinality(pool) = SumFunctionOnSet([i \in 1..n |-> Cardinality(f[i])], 1..n)
<1> DEFINE T == Seen(q)
           x == [i \in 1..n |-> q[i].seen]
<1>1. n \in Nat /\ DOMAIN q = 1..n /\ IsFiniteSet(1..n)
  <2>1. n \in Nat /\ DOMAIN q = 1..n
    BY DEF Supply
  <2>2. IsFiniteSet(1..n)
    BY <2>1, FS_Interval
  <2>3. QED
    BY <2>1, <2>2
<1>2. T = SumFunctionOnSet(x, 1..n)
  BY <1>1 DEF Seen
<1>3. \A i \in 1..n : x[i] = q[i].seen /\ x[i] \in Nat
  BY DEF Supply
<1> HIDE DEF x, T
<1>4. T \in Nat \ {0} /\ \A i \in 1..n : q[i].seen <= T
  <2>1. T \in Nat /\ \A i \in 1..n : x[i] <= T
    BY <1>1, <1>2, <1>3, SumIsNatural, TermIsBounded
  <2>2. QED
    BY <1>3, <2>1 DEF T
<1>5. ASSUME NEW i \in 1..n
      PROVE  /\ IsFiniteSet(f[i]) /\ Cardinality(f[i]) \in Nat
             /\ T <= Capacity => Cardinality(f[i]) = q[i].seen
             /\ Cardinality(f[i]) <= Share(q[i].seen, T)
             /\ T > Capacity => 2 * Share(q[i].seen, T) <= 2 * Cardinality(f[i]) + j[i]
             /\ T > Capacity /\ j[i] = 0 => Cardinality(f[i]) = Share(q[i].seen, T)
  <2> DEFINE t == Cardinality(q[i].sample)
             u == Cardinality(f[i])
             y == q[i].seen
             e == j[i]
  <2>1. f[i] \subseteq q[i].sample /\ IsFiniteSet(q[i].sample) /\ e \in Nat /\ y \in Nat /\ y <= T
    BY <1>4 DEF Draw, Supply, T
  <2>2. IsFiniteSet(f[i]) /\ u \in Nat /\ t \in Nat
    BY <2>1, FS_Subset, FS_CardinalityType
  <2>3. u = IF Share(y, T) >= t THEN t ELSE Share(y, T)
    BY DEF Draw, T
  <2>4. (y <= Capacity => t = y) /\ (y > Capacity => t <= Capacity /\ 2 * Capacity <= 2 * t + e)
    BY DEF Supply, Fair
  <2> HIDE DEF t, u, y, e
  <2>5. /\ T <= Capacity => u = y
        /\ u <= Share(y, T)
        /\ T > Capacity => 2 * Share(y, T) <= 2 * u + e
        /\ T > Capacity /\ e = 0 => u = Share(y, T)
    <3>1. T \in Nat \ {0} /\ y \in Nat /\ y <= T /\ t \in Nat /\ e \in Nat
      BY <1>4, <2>1, <2>2
    <3>2. y <= Capacity => t = y
      BY <2>4
    <3>3. y > Capacity => t <= Capacity /\ 2 * Capacity <= 2 * t + e
      BY <2>4
    <3>4. QED
      BY ONLY <3>1, <3>2, <3>3, <2>3, OneDraw, ZenonT(90)
  <2>6. QED
    BY <2>2, <2>5 DEF t, u, y, e
<1>6. \A h, i \in 1..n : h # i => f[h] \cap f[i] = {}
  BY DEF Draw, Supply
<1>7. /\ IsFiniteSet(Pooled(f, n))
      /\ Cardinality(Pooled(f, n)) = SumFunctionOnSet([i \in 1..n |-> Cardinality(f[i])], 1..n)
  BY <1>1, <1>5, <1>6, SizesAddUp DEF Pooled
<1>8. QED
  BY <1>4, <1>5, <1>7 DEF T

\* What is left of the pool.
LEMMA LeftSize ==
  ASSUME NEW pool, IsFiniteSet(pool), NEW r, Left(pool, r)
  PROVE  /\ IsFiniteSet(r) /\ Cardinality(r) \in Nat /\ Cardinality(pool) \in Nat
         /\ Cardinality(r) <= Capacity /\ Cardinality(r) <= Cardinality(pool)
         /\ Cardinality(pool) <= Capacity => Cardinality(r) = Cardinality(pool)
         /\ Cardinality(pool) > Capacity => Cardinality(r) = Capacity
         /\ \A S \in SUBSET pool : /\ IsFiniteSet(S) /\ Cardinality(S) \in Nat /\ Cardinality(r \cap S) \in Nat
                                   /\ Cardinality(r \cap S) <= Cardinality(S)
                                   /\ Cardinality(S) <= Cardinality(r \cap S) + (Cardinality(pool) - Cardinality(r))
<1>1. Capacity \in Nat
  BY StatisticsAssumption
<1>2. r \subseteq pool /\ IsFiniteSet(r) /\ Cardinality(r) \in Nat /\ Cardinality(pool) \in Nat
  BY FS_Subset, FS_CardinalityType DEF Left
<1>3. Cardinality(r) <= Capacity /\ Cardinality(r) <= Cardinality(pool)
  BY <1>1, <1>2 DEF Left
<1>4. ASSUME NEW S \in SUBSET pool
      PROVE  /\ IsFiniteSet(S) /\ Cardinality(S) \in Nat /\ Cardinality(r \cap S) \in Nat
             /\ Cardinality(r \cap S) <= Cardinality(S)
             /\ Cardinality(S) <= Cardinality(r \cap S) + (Cardinality(pool) - Cardinality(r))
  <2> DEFINE A == r \cap S
             B == S \ r
             R == pool \ r
  <2>1. IsFiniteSet(S) /\ IsFiniteSet(A) /\ IsFiniteSet(B) /\ IsFiniteSet(R) /\ B \subseteq R /\ A \cap B = {} /\ S = A \cup B
    <3>1. S \subseteq pool /\ A \subseteq pool /\ B \subseteq pool /\ R \subseteq pool
      OBVIOUS
    <3>2. IsFiniteSet(S) /\ IsFiniteSet(A) /\ IsFiniteSet(B) /\ IsFiniteSet(R)
      <4> HIDE DEF A, B, R
      <4> QED BY <3>1, FS_Subset
    <3>3. QED
      BY <1>2, <3>2
  <2>2. R \cap r = {} /\ pool = r \cup R
    BY <1>2
  <2> HIDE DEF A, B, R
  <2>3. Cardinality(S) = Cardinality(A) + Cardinality(B) /\ Cardinality(pool) = Cardinality(r) + Cardinality(R)
    BY <1>2, <2>1, <2>2, DisjointSets
  <2>4. Cardinality(B) <= Cardinality(R) /\ Cardinality(A) \in Nat /\ Cardinality(B) \in Nat /\ Cardinality(R) \in Nat
    BY <2>1, FS_Subset, FS_CardinalityType
  <2>5. Cardinality(A) <= Cardinality(S) /\ Cardinality(S) <= Cardinality(A) + (Cardinality(pool) - Cardinality(r))
    BY <1>2, <2>3, <2>4
  <2>6. QED
    BY <2>1, <2>3, <2>4, <2>5 DEF A
<1>5. /\ Cardinality(pool) <= Capacity => Cardinality(r) = Cardinality(pool)
      /\ Cardinality(pool) > Capacity => Cardinality(r) = Capacity
  BY <1>1, <1>2 DEF Left
<1>6. QED
  BY <1>2, <1>3, <1>4, <1>5

LEMMA SlackIsNatural == \A n \in Nat : Slack(n) \in Nat
BY StatisticsAssumption DEF Slack

\* k is the share of x, g what is left of it, but for d halves.
LEMMA LeftIsNear ==
  ASSUME NEW T \in Nat \ {0}, NEW x \in Nat, NEW k \in Nat, NEW g \in Nat, NEW d \in Nat,
         2 * (T * k) <= 2 * (Capacity * x) + T, 2 * (Capacity * x) <= 2 * (T * k) + T,
         g <= k, 2 * k <= 2 * g + d
  PROVE  2 * (T * g) <= 2 * (Capacity * x) + T /\ 2 * (Capacity * x) <= 2 * (T * g) + T * (1 + d)
<1> DEFINE y == Capacity * x
           v == T * k
           w == T * g
           z == T * d
<1>1. y \in Int /\ v \in Int /\ w \in Int /\ z \in Int /\ T * (1 + d) = T + z
  BY StatisticsAssumption
<1>2. w <= v
  <2>1. g * T <= k * T /\ g * T = w /\ k * T = v
    BY TimesPositive
  <2>2. QED
    BY <2>1
<1>3. 2 * v <= 2 * w + z
  <2>1. 2 * k \in Int /\ 2 * g + d \in Int
    OBVIOUS
  <2>2. (2 * k) * T <= (2 * g + d) * T
    <3> DEFINE a == 2 * k
               b == 2 * g + d
    <3>1. a \in Int /\ b \in Int /\ a <= b
      OBVIOUS
    <3> HIDE DEF a, b
    <3>2. a * T <= b * T
      BY <3>1, TimesPositive
    <3>3. QED
      BY <3>2 DEF a, b
  <2>3. (2 * k) * T = 2 * v /\ (2 * g + d) * T = 2 * w + z
    OBVIOUS
  <2>4. QED
    BY <2>2, <2>3
<1>4. 2 * v <= 2 * y + T /\ 2 * y <= 2 * v + T
  OBVIOUS
<1> HIDE DEF y, v, w, z
<1>5. 2 * w <= 2 * y + T /\ 2 * y <= 2 * w + (T + z)
  BY <1>1, <1>2, <1>3, <1>4
<1>6. QED
  BY <1>1, <1>5 DEF y, w

\* However many each of the sources has kept, what is merged of them is of the
\* capacity, or all, and of each its share.
LEMMA SharesAreKept ==
  ASSUME NEW q, NEW n, NEW j, Supply(q, n, j), NEW r \in MergedSamples(q)
  PROVE  LET T == Seen(q)
         IN  /\ IsFiniteSet(r) /\ Cardinality(r) \in Nat /\ Cardinality(r) <= Capacity /\ T \in Nat
             /\ T <= Capacity => Cardinality(r) = T
             /\ T > Capacity /\ (\A i \in 1..n : j[i] = 0) => 2 * Capacity <= 2 * Cardinality(r) + Slack(n)
             /\ T > Capacity =>
                  \A i \in 1..n :
                    LET g == Cardinality(r \cap q[i].sample)
                    IN  /\ g \in Nat
                        /\ 2 * (T * g) <= 2 * (Capacity * q[i].seen) + T
                        /\ 2 * (Capacity * q[i].seen) <= 2 * (T * g) + T * (1 + (j[i] + Slack(n)))
<1> DEFINE T == Seen(q)
           C == Capacity
<1>1. n \in Nat /\ DOMAIN q = 1..n /\ \A i \in 1..n : q[i].seen \in Nat /\ j[i] \in Nat
  BY DEF Supply
<1>2. C \in Nat \ {0} /\ IsFiniteSet(1..n) /\ Slack(n) \in Nat
  BY <1>1, StatisticsAssumption, FS_Interval, SlackIsNatural
<1>3. CASE T = 0
  <2>1. r = {}
    BY <1>1, <1>3, PoolIsDrawn DEF Left
  <2>2. IsFiniteSet(r) /\ Cardinality(r) = 0
    BY <2>1, FS_EmptySet
  <2>3. ~(T > C)
    BY <1>2, <1>3
  <2> HIDE DEF T
  <2>4. QED
    BY <1>2, <1>3, <2>2, <2>3 DEF T
<1>4. CASE T # 0
  <2>1. PICK f : Draw(q, n, T, f) /\ Left(Pooled(f, n), r)
    <3>1. IF T = 0 THEN Left({}, r) ELSE \E f : Draw(q, n, T, f) /\ Left(Pooled(f, n), r)
      BY <1>1, PoolIsDrawn
    <3> HIDE DEF T
    <3>2. QED
      BY <1>4, <3>1
  <2> DEFINE pool == Pooled(f, n)
             x == [i \in 1..n |-> q[i].seen]
             k == [i \in 1..n |-> Share(x[i], T)]
             u == [i \in 1..n |-> Cardinality(f[i])]
             p == Cardinality(pool)
             K == SumFunctionOnSet(k, 1..n)
             c == Cardinality(r)
             S == Slack(n)
  <2>2. /\ T \in Nat \ {0}
        /\ \A i \in 1..n : /\ IsFiniteSet(f[i]) /\ Cardinality(f[i]) \in Nat /\ q[i].seen <= T
                           /\ T <= C => Cardinality(f[i]) = q[i].seen
                           /\ Cardinality(f[i]) <= Share(q[i].seen, T)
                           /\ T > C => 2 * Share(q[i].seen, T) <= 2 * Cardinality(f[i]) + j[i]
                           /\ T > C /\ j[i] = 0 => Cardinality(f[i]) = Share(q[i].seen, T)
        /\ IsFiniteSet(pool) /\ p = SumFunctionOnSet(u, 1..n)
    BY <1>4, <2>1, PoolSize
  <2>3. /\ IsFiniteSet(r) /\ c \in Nat /\ p \in Nat /\ c <= C /\ c <= p
        /\ p <= C => c = p
        /\ p > C => c = C
    BY <2>1, <2>2, LeftSize
  <2>4. T = SumFunctionOnSet(x, 1..n) /\ \A i \in 1..n : x[i] = q[i].seen /\ k[i] = Share(q[i].seen, T) /\ u[i] = Cardinality(f[i])
    BY <1>1 DEF Seen
  <2>5. K \in Int /\ 2 * K <= 2 * C + S /\ 2 * C <= 2 * K + S
    <3>1. \A i \in 1..n : x[i] \in Nat
      BY <1>1, <2>4
    <3>2. SumFunctionOnSet(x, 1..n) # 0
      BY <1>4, <2>4
    <3> HIDE DEF x, T
    <3>3. QED
      BY <1>1, <2>4, <3>1, <3>2, SharesAddUp
  <2>6. \A i \in 1..n : Share(q[i].seen, T) \in Nat /\ 2 * (T * Share(q[i].seen, T)) <= 2 * (C * q[i].seen) + T
                        /\ 2 * (C * q[i].seen) <= 2 * (T * Share(q[i].seen, T)) + T
    <3> SUFFICES ASSUME NEW i \in 1..n
                 PROVE  Share(q[i].seen, T) \in Nat /\ 2 * (T * Share(q[i].seen, T)) <= 2 * (C * q[i].seen) + T
                        /\ 2 * (C * q[i].seen) <= 2 * (T * Share(q[i].seen, T)) + T
      OBVIOUS
    <3> DEFINE y == q[i].seen
    <3>1. y \in Nat /\ y <= T
      BY <1>1, <2>2
    <3> HIDE DEF y, T
    <3>2. Share(y, T) \in Nat /\ 2 * (T * Share(y, T)) <= 2 * (C * y) + T /\ 2 * (C * y) <= 2 * (T * Share(y, T)) + T
      BY <2>2, <3>1, ShareIsNear
    <3>3. QED
      BY <3>2 DEF y
  <2>7. p <= K
    <3>1. \A i \in 1..n : u[i] \in Int /\ k[i] \in Int /\ u[i] <= k[i]
      BY <2>2, <2>4, <2>6
    <3> HIDE DEF u, k
    <3>2. QED
      BY <1>2, <2>2, <3>1, SumIsMonotonic
  <2> HIDE DEF T, pool, x, k, u, p, K, c, S, C
  <2>8. 2 * (p - c) <= S
    BY <1>2, <2>3, <2>5, <2>7 DEF S
  <2>9. T <= C => c = T
    <3>1. SUFFICES ASSUME T <= C PROVE c = T
      OBVIOUS
    <3>2. \A i \in 1..n : u[i] = x[i]
      BY <2>2, <2>4, <3>1
    <3>3. p = T
      BY <1>2, <2>2, <2>4, <3>2, SumIsExtensional
    <3>4. QED
      BY <2>3, <3>1, <3>3
  <2>10. T > C /\ (\A i \in 1..n : j[i] = 0) => 2 * C <= 2 * c + S
    <3>1. SUFFICES ASSUME T > C, \A i \in 1..n : j[i] = 0 PROVE 2 * C <= 2 * c + S
      OBVIOUS
    <3>2. \A i \in 1..n : u[i] = k[i]
      BY <2>2, <2>4, <3>1
    <3>3. p = K
      BY <1>2, <2>2, <3>2, SumIsExtensional DEF K
    <3>4. S \in Nat
      BY <1>2 DEF S
    <3>5. QED
      BY <1>2, <2>3, <2>5, <3>3, <3>4
  <2>11. ASSUME T > C, NEW i \in 1..n
         PROVE  LET g == Cardinality(r \cap q[i].sample)
                IN  g \in Nat /\ 2 * (T * g) <= 2 * (C * q[i].seen) + T /\ 2 * (C * q[i].seen) <= 2 * (T * g) + T * (1 + (j[i] + S))
    <3>1. r \cap q[i].sample = r \cap f[i] /\ f[i] \subseteq pool
      BY <2>1 DEF Draw, Left, Supply, pool, Pooled
    <3> DEFINE g == Cardinality(r \cap q[i].sample)
               y == q[i].seen
               b == Share(y, T)
               e == Cardinality(f[i])
               a == j[i]
    <3>2. e \in Nat /\ g \in Nat /\ g <= e /\ e <= g + (p - c)
      BY <2>1, <2>2, <3>1, LeftSize DEF p, c, pool
    <3>3. e <= b /\ 2 * b <= 2 * e + a /\ b \in Nat /\ a \in Nat /\ y \in Nat
      BY <1>1, <2>2, <2>6, <2>11
    <3>4. 2 * (T * b) <= 2 * (C * y) + T /\ 2 * (C * y) <= 2 * (T * b) + T
      BY <2>6
    <3>5. S \in Nat
      BY <1>2 DEF S
    <3> HIDE DEF g, y, b, e, a
    <3>6. g <= b /\ 2 * b <= 2 * g + (a + S) /\ a + S \in Nat
      BY <2>3, <2>8, <3>2, <3>3, <3>5
    <3>7. 2 * (T * g) <= 2 * (C * y) + T /\ 2 * (C * y) <= 2 * (T * g) + T * (1 + (a + S))
      <4> DEFINE d == a + S
      <4>1. d \in Nat /\ 2 * b <= 2 * g + d
        BY <3>6
      <4> HIDE DEF d
      <4>2. 2 * (T * g) <= 2 * (Capacity * y) + T /\ 2 * (Capacity * y) <= 2 * (T * g) + T * (1 + d)
        BY <2>2, <3>2, <3>3, <3>4, <3>6, <4>1, LeftIsNear DEF C
      <4>3. QED
        BY <4>2 DEF d, C
    <3>8. QED
      BY <3>2, <3>7 DEF g, y, a
  <2>12. QED
    BY <2>2, <2>3, <2>9, <2>10, <2>11 DEF T, c, S, C
<1>5. QED
  BY <1>3, <1>4

-------------------------------------------------------------------------------
(* The sample of the run.                                                     *)

Distinct == \A d, e \in done : d.sample = e.sample => d = e
FairInv ==
  phase = "load" =>
    /\ \A w \in Worker : Fair(stats[w], 0)
    /\ \A n \in DOMAIN parts : parts[n] # <<>> => Fair(parts[n][1], Slack(Len(run.nodes[n])))
ShareInv == ToldInv /\ Distinct /\ FairInv /\ SampleIsFair

\* The reservoir of a worker.
LEMMA OfferedIsFair ==
  ASSUME NEW D, NEW d, d \notin D, d.event.kind = "answer", Happened(d), NEW s, Tells(s, D), Fair(s, 0),
         d.sample \notin s.sample, NEW t \in Outcomes(s, d)
  PROVE  Fair(t, 0)
<1>1. Tells(t, D \cup {d}) /\ t.sample \in Offered(s.sample, d.sample)
  BY AnswerTells
<1>2. t.seen = s.seen + 1 /\ s.seen \in Nat
  <2>1. t.seen = Cardinality(OfKind(D \cup {d}, "answer")) /\ s.seen = Cardinality(OfKind(D, "answer"))
    BY <1>1 DEF Tells, NumbersTell
  <2>2. Cardinality(OfKind(D \cup {d}, "answer")) = Cardinality(OfKind(D, "answer")) + 1
    <3>1. History(D)
      BY DEF Tells
    <3>2. \A kind : Cardinality(OfKind(D \cup {d}, kind)) = Cardinality(OfKind(D, kind)) + IF d.event.kind = kind THEN 1 ELSE 0
      <4>1. History(D) /\ d \notin D /\ Happened(d)
        BY <3>1
      <4>2. QED
        BY ONLY <4>1, OneMore
    <3>3. QED
      BY <3>2
  <2>3. s.seen \in Nat
    BY FiguresTyped DEF Tells
  <2>4. QED
    BY <2>1, <2>2, <2>3
<1>3. IsFiniteSet(s.sample) /\ Cardinality(s.sample) \in Nat
  BY TakenIsFinite, FS_Subset, FS_CardinalityType DEF Tells
<1>4. Cardinality(t.sample) = IF Cardinality(s.sample) < Capacity THEN Cardinality(s.sample) + 1 ELSE Cardinality(s.sample)
  <2>1. CASE Cardinality(s.sample) < Capacity
    <3>1. t.sample = s.sample \cup {d.sample}
      BY <1>1, <2>1 DEF Offered
    <3>2. QED
      BY <1>3, <2>1, <3>1, FS_AddElement
  <2>2. CASE ~(Cardinality(s.sample) < Capacity)
    <3>1. t.sample \in {s.sample} \cup {(s.sample \ {y}) \cup {d.sample} : y \in s.sample}
      BY <1>1, <2>2 DEF Offered
    <3>2. ASSUME NEW y \in s.sample, t.sample = (s.sample \ {y}) \cup {d.sample}
          PROVE  Cardinality(t.sample) = Cardinality(s.sample)
      <4> DEFINE R == s.sample \ {y}
      <4>1. IsFiniteSet(R) /\ Cardinality(R) = Cardinality(s.sample) - 1 /\ d.sample \notin R
        BY <1>3, FS_RemoveElement
      <4> HIDE DEF R
      <4>2. Cardinality(R \cup {d.sample}) = Cardinality(R) + 1
        BY <4>1, FS_AddElement
      <4>3. t.sample = R \cup {d.sample}
        BY <3>2 DEF R
      <4>4. QED
        BY <1>3, <4>1, <4>2, <4>3
    <3>3. QED
      BY <2>2, <3>1, <3>2
  <2>3. QED
    BY <2>1, <2>2
<1>5. Capacity \in Nat \ {0}
  BY StatisticsAssumption
<1> DEFINE a == Cardinality(s.sample)
           b == Cardinality(t.sample)
           x == s.seen
           y == t.seen
<1>6. /\ a \in Nat /\ x \in Nat /\ y = x + 1 /\ b = IF a < Capacity THEN a + 1 ELSE a
      /\ x <= Capacity => a = x
      /\ x > Capacity => a <= Capacity /\ 2 * Capacity <= 2 * a + 0
  BY <1>2, <1>3, <1>4 DEF Fair
<1> HIDE DEF a, b, x, y
<1>7. /\ y <= Capacity => b = y
      /\ y > Capacity => b <= Capacity /\ 2 * Capacity <= 2 * b + 0
  BY <1>5, <1>6
<1>8. QED
  BY <1>7 DEF Fair, b, y

LEMMA NoAnswerIsFair ==
  ASSUME NEW D, NEW d, d \notin D, d.event.kind # "answer", Happened(d), NEW s, Tells(s, D), Fair(s, 0), NEW t \in Outcomes(s, d)
  PROVE  Fair(t, 0)
<1>1. Tells(t, D \cup {d}) /\ t.sample = s.sample
  BY NoAnswerTells
<1>2. t.seen = s.seen
  <2>1. t.seen = Cardinality(OfKind(D \cup {d}, "answer")) /\ s.seen = Cardinality(OfKind(D, "answer"))
    BY <1>1 DEF Tells, NumbersTell
  <2>2. OfKind(D \cup {d}, "answer") = OfKind(D, "answer")
    BY DEF OfKind
  <2>3. QED
    BY <2>1, <2>2
<1>3. QED
  BY <1>1, <1>2 DEF Fair

\* What is merged, of whom.
LEMMA MergedIsSupplied ==
  ASSUME NEW q, NEW n, NEW c, Parts(q, n, c), NEW j, \A i \in 1..n : j[i] \in Nat /\ Fair(q[i], j[i]),
         \A d, e \in Together(c, n) : d.sample = e.sample => d = e, NEW s \in Merged(q)
  PROVE  s.seen = Seen(q) /\ s.sample \in MergedSamples(q) /\ Supply(q, n, j)
<1>1. n \in Nat /\ DOMAIN q = 1..n /\ IsFiniteSet(1..n)
  <2>1. n \in Nat /\ DOMAIN q = 1..n
    BY DEF Parts
  <2>2. QED
    BY <2>1, FS_Interval
<1>2. ASSUME NEW i \in 1..n
      PROVE  /\ q[i].seen \in Nat /\ q[i].seen = Cardinality(OfKind(c[i], "answer")) /\ IsFiniteSet(q[i].sample)
             /\ q[i].sample \subseteq Taken(c[i]) /\ IsFiniteSet(OfKind(c[i], "answer"))
  <2>1. Tells(q[i], c[i])
    BY DEF Parts
  <2>2. q[i].seen \in Nat
    BY <2>1, FiguresTyped DEF Tells
  <2>3. IsFiniteSet(Taken(c[i])) /\ q[i].sample \subseteq Taken(c[i])
    BY <2>1, TakenIsFinite DEF Tells
  <2>4. IsFiniteSet(c[i]) /\ OfKind(c[i], "answer") \subseteq c[i]
    BY <2>1 DEF Tells, History, OfKind
  <2>5. QED
    BY <2>1, <2>2, <2>3, <2>4, FS_Subset DEF Tells, NumbersTell
<1>3. \A h, i \in 1..n : h # i => c[h] \cap c[i] = {}
  BY DEF Parts
<1>4. ASSUME NEW h \in 1..n, NEW i \in 1..n, h # i PROVE q[h].sample \cap q[i].sample = {}
  <2>1. Taken(c[h]) \cap Taken(c[i]) = {}
    <3>1. SUFFICES ASSUME NEW d \in c[h], NEW e \in c[i], d.sample = e.sample PROVE FALSE
      BY DEF Taken, OfKind
    <3>2. d \in Together(c, n) /\ e \in Together(c, n)
      BY DEF Together
    <3>3. QED
      BY <1>3, <1>4, <3>1, <3>2
  <2>2. QED
    BY <1>2, <2>1
<1>5. Supply(q, n, j)
  BY <1>1, <1>2, <1>4 DEF Supply
<1>6. s.seen = Cardinality(OfKind(Together(c, n), "answer"))
  BY MergeTells DEF Tells, NumbersTell
<1>7. Seen(q) = Cardinality(OfKind(Together(c, n), "answer"))
  <2> DEFINE e == [i \in 1..n |-> OfKind(c[i], "answer")]
             x == [i \in 1..n |-> Cardinality(e[i])]
             y == [i \in DOMAIN q |-> q[i].seen]
  <2>1. OfKind(Together(c, n), "answer") = UNION {e[i] : i \in 1..n}
    BY DEF Together, OfKind
  <2>2. \A i \in 1..n : e[i] = OfKind(c[i], "answer") /\ x[i] = y[i]
    BY <1>1, <1>2
  <2>3. \A i \in 1..n : IsFiniteSet(e[i])
    BY <1>2, <2>2
  <2>4. \A h, i \in 1..n : h # i => e[h] \cap e[i] = {}
    BY <1>3, <2>2 DEF OfKind
  <2> HIDE DEF e
  <2>5. Cardinality(UNION {e[i] : i \in 1..n}) = SumFunctionOnSet(x, 1..n)
    BY <1>1, <2>3, <2>4, SizesAddUp
  <2> HIDE DEF x, y
  <2>6. SumFunctionOnSet(x, 1..n) = SumFunctionOnSet(y, 1..n)
    BY <1>1, <2>2, SumIsExtensional
  <2>7. QED
    BY <1>1, <2>1, <2>5, <2>6 DEF Seen, y
<1>8. s.sample \in MergedSamples(q)
  <2> DEFINE sum == FoldLeft(Plus, NoStats, q)
  <2>1. PICK r \in MergedSamples(q) : s = [sum EXCEPT !.sample = r]
    BY DEF Merged
  <2>2. sum \in Figures
    BY SumTells DEF Tells
  <2> HIDE DEF sum
  <2>3. s.sample = r
    BY <2>1, <2>2 DEF Figures
  <2>4. QED
    BY <2>3
<1>9. QED
  BY <1>5, <1>6, <1>7, <1>8

LEMMA RecordIsFair == ASSUME ShareInv, NEW w \in Worker, Record(w) PROVE Distinct' /\ FairInv'
<1>1. /\ phase = "load" /\ phase' = phase /\ parts' = parts /\ run' = run /\ ToldInv /\ DoneInv /\ LoadInv /\ Distinct /\ FairInv
  BY DEF Record, ShareInv, ToldInv, run
<1>2. PICK d : /\ Happened(d) /\ d \notin done /\ done' = done \cup {d}
               /\ d.sample.by = w /\ d.sample.no = Cardinality(done) + 1
               /\ \E t \in Outcomes(stats[w], d) : stats' = [stats EXCEPT ![w] = t]
  BY <1>1, RecordIsOneMore
<1>3. PICK t \in Outcomes(stats[w], d) : stats' = [stats EXCEPT ![w] = t]
  BY <1>2
<1>4. \A e \in done : e.sample # d.sample
  <2>1. Cardinality(done) \in Nat
    BY <1>1, FS_CardinalityType DEF DoneInv, History
  <2>2. Cardinality(done) + 1 \notin 1..Cardinality(done)
    BY <2>1
  <2>3. \A e \in done : e.sample.no \in 1..Cardinality(done)
    BY <1>1 DEF DoneInv
  <2>4. QED
    BY <1>2, <2>2, <2>3
<1>5. Distinct'
  BY <1>1, <1>2, <1>4 DEF Distinct
<1>6. DOMAIN stats = Worker /\ Tells(stats[w], OfWorker(w)) /\ Fair(stats[w], 0)
  BY <1>1 DEF LoadInv, FairInv
<1>7. Fair(t, 0)
  <2>1. d \notin OfWorker(w)
    BY <1>2 DEF OfWorker
  <2>2. d.sample \notin stats[w].sample
    <3>1. stats[w].sample \subseteq Taken(OfWorker(w))
      BY <1>6 DEF Tells
    <3>2. d.sample \notin Taken(OfWorker(w))
      BY <1>4 DEF Taken, OfKind, OfWorker
    <3>3. QED
      BY <3>1, <3>2
  <2>3. CASE d.event.kind = "answer"
    BY <1>2, <1>6, <2>1, <2>2, <2>3, OfferedIsFair
  <2>4. CASE d.event.kind # "answer"
    BY <1>2, <1>6, <2>1, <2>4, NoAnswerIsFair
  <2>5. QED
    BY <2>3, <2>4
<1>8. \A v \in Worker : Fair(stats'[v], 0)
  BY <1>1, <1>3, <1>6, <1>7 DEF FairInv
<1>9. FairInv'
  BY <1>1, <1>8 DEF FairInv
<1>10. QED
  BY <1>5, <1>9

LEMMA EndNodeIsFair == ASSUME ShareInv, NEW n \in DOMAIN parts, EndNode(n) PROVE Distinct' /\ FairInv'
<1>1. /\ phase = "load" /\ phase' = phase /\ stats' = stats /\ done' = done /\ run' = run
      /\ ToldInv /\ DoneInv /\ LoadInv /\ Distinct /\ FairInv
  BY DEF EndNode, ShareInv, ToldInv, run
<1>2. PICK s \in Merged([i \in DOMAIN run.nodes[n] |-> stats[run.nodes[n][i]]]) : parts' = [parts EXCEPT ![n] = <<s>>]
  BY DEF EndNode
<1>3. Fair(s, Slack(Len(run.nodes[n])))
  <2> DEFINE ws == run.nodes[n]
             q == [i \in DOMAIN ws |-> stats[ws[i]]]
             c == [i \in DOMAIN ws |-> OfWorker(ws[i])]
             k == Len(ws)
             j == [i \in 1..k |-> 0]
  <2>1. n \in DOMAIN run.nodes
    BY <1>1 DEF LoadInv
  <2>2. Parts(q, k, c) /\ Together(c, k) = OfNode(n)
    BY <1>1, <2>1, WorkersAreParts
  <2>3. NodesKind(run.nodes)
    BY <1>1, RunIsPlanned DEF DoneInv, run, PlanKind
  <2>4. DOMAIN ws = 1..k /\ \A i \in DOMAIN ws : ws[i] \in Worker
    BY <2>1, <2>3, OnePlace
  <2>5. \A i \in 1..k : j[i] \in Nat /\ j[i] = 0 /\ Fair(q[i], j[i])
    BY <1>1, <2>4 DEF FairInv
  <2>6. \A d, e \in Together(c, k) : d.sample = e.sample => d = e
    BY <1>1, <2>2 DEF Distinct, OfNode
  <2>7. s \in Merged(q)
    BY <1>2
  <2> HIDE DEF q, c, k, j
  <2>8. s.seen = Seen(q) /\ s.sample \in MergedSamples(q) /\ Supply(q, k, j)
    BY <2>2, <2>5, <2>6, <2>7, MergedIsSupplied
  <2>9. /\ Cardinality(s.sample) <= Capacity
        /\ Seen(q) <= Capacity => Cardinality(s.sample) = Seen(q)
        /\ Seen(q) > Capacity => 2 * Capacity <= 2 * Cardinality(s.sample) + Slack(k)
    BY <2>5, <2>8, SharesAreKept
  <2>10. QED
    BY <2>8, <2>9 DEF Fair, k
<1>4. Distinct'
  BY <1>1 DEF Distinct
<1>5. FairInv'
  <2>1. DOMAIN parts' = DOMAIN parts
    BY <1>2
  <2>2. <<s>>[1] = s
    OBVIOUS
  <2>3. ASSUME NEW m \in DOMAIN parts, parts'[m] # <<>> PROVE Fair(parts'[m][1], Slack(Len(run.nodes[m])))
    <3>1. CASE m = n
      BY <1>2, <1>3, <2>2, <3>1
    <3>2. CASE m # n
      <4>1. parts'[m] = parts[m]
        BY <1>2, <3>2
      <4>2. QED
        BY <1>1, <2>3, <4>1 DEF FairInv
    <3>3. QED
      BY <3>1, <3>2
  <2>4. QED
    BY <1>1, <2>1, <2>3 DEF FairInv
<1>6. QED
  BY <1>4, <1>5

LEMMA ShareIsShown ==
  ASSUME NEW T \in Nat, NEW g \in Nat, NEW x \in Nat, NEW j \in Nat, NEW S \in Nat,
         2 * (T * g) <= 2 * (Capacity * x) + T, 2 * (Capacity * x) <= 2 * (T * g) + T * (1 + (j + S))
  PROVE  2 * (g * T - Capacity * x) \in (-(1 + j + S) * T)..T
<1> DEFINE y == Capacity * x
           w == T * g
           z == T * (1 + (j + S))
<1>1. y \in Int /\ w \in Int /\ z \in Int /\ g * T = w /\ -(1 + j + S) * T = -z
  BY StatisticsAssumption
<1>2. 2 * w <= 2 * y + T /\ 2 * y <= 2 * w + z
  OBVIOUS
<1> HIDE DEF y, w, z
<1>3. 2 * (w - y) \in (-z)..T
  BY <1>1, <1>2
<1>4. QED
  BY <1>1, <1>3 DEF y

\* A run without a master: what its node has kept.
LEMMA OneSourceIsShown ==
  ASSUME NEW s, NEW j \in Nat, Fair(s, j), s.seen \in Nat, s.seen > Capacity, Cardinality(s.sample) \in Nat
  PROVE  LET T == s.seen
             g == Cardinality(s.sample)
         IN  2 * (T * g) <= 2 * (Capacity * T) + T /\ 2 * (Capacity * T) <= 2 * (T * g) + T * (1 + (j + 0))
<1> DEFINE T == s.seen
           g == Cardinality(s.sample)
           C == Capacity
<1>1. C \in Nat \ {0} /\ T \in Nat \ {0} /\ g \in Nat /\ g <= C /\ 2 * C <= 2 * g + j
  BY StatisticsAssumption DEF Fair
<1> HIDE DEF T, g, C
<1>2. g * T <= C * T
  BY <1>1, TimesPositive
<1>3. (2 * C) * T <= (2 * g + j) * T
  <2> DEFINE a == 2 * C
             b == 2 * g + j
  <2>1. a \in Int /\ b \in Int /\ a <= b
    BY <1>1
  <2> HIDE DEF a, b
  <2>2. a * T <= b * T
    BY <1>1, <2>1, TimesPositive
  <2>3. QED
    BY <2>2 DEF a, b
<1>4. /\ (2 * C) * T = 2 * (C * T) /\ (2 * g + j) * T = 2 * (T * g) + T * j /\ g * T = T * g /\ T * (1 + (j + 0)) = T + T * j
      /\ C * T \in Int /\ T * g \in Int /\ T * j \in Int
  BY <1>1
<1> DEFINE y == C * T
           w == T * g
           z == T * j
<1>5. y \in Int /\ w \in Int /\ z \in Int /\ w <= y /\ 2 * y <= 2 * w + z
  BY <1>2, <1>3, <1>4
<1> HIDE DEF y, w, z
<1>6. 2 * w <= 2 * y + T /\ 2 * y <= 2 * w + (T + z)
  BY <1>1, <1>5
<1>7. QED
  BY <1>4, <1>6 DEF y, w, z, T, g, C

\* What a run's sample is of what its nodes have kept.
KeptOf(s, q, k, j) ==
  /\ s.seen \in Nat /\ IsFiniteSet(s.sample) /\ Cardinality(s.sample) \in Nat /\ Cardinality(s.sample) <= Capacity
  /\ s.seen <= Capacity => Cardinality(s.sample) = s.seen
  /\ s.sample \subseteq UNION {q[n].sample : n \in 1..k}
  /\ s.seen > Capacity =>
       \A n \in 1..k :
         LET g == Cardinality(s.sample \cap q[n].sample)
         IN  g \in Nat /\ 2 * (g * s.seen - Capacity * q[n].seen) \in (-(1 + j[n] + Slack(k)) * s.seen)..s.seen

LEMMA ManyNodes ==
  ASSUME NEW q, NEW k, NEW j, Supply(q, k, j), NEW s, s.seen = Seen(q), s.sample \in MergedSamples(q)
  PROVE  KeptOf(s, q, k, j)
<1> DEFINE T == s.seen
           r == s.sample
           S == Slack(k)
<1>1. /\ IsFiniteSet(r) /\ Cardinality(r) \in Nat /\ Cardinality(r) <= Capacity /\ T \in Nat
      /\ T <= Capacity => Cardinality(r) = T
      /\ T > Capacity =>
           \A i \in 1..k :
             LET g == Cardinality(r \cap q[i].sample)
             IN  /\ g \in Nat
                 /\ 2 * (T * g) <= 2 * (Capacity * q[i].seen) + T
                 /\ 2 * (Capacity * q[i].seen) <= 2 * (T * g) + T * (1 + (j[i] + S))
  <2>1. s.seen = Seen(q)
    OBVIOUS
  <2>2. QED
    BY <2>1, SharesAreKept
<1>2. k \in Nat /\ DOMAIN q = 1..k /\ \A i \in 1..k : q[i].seen \in Nat /\ j[i] \in Nat
  BY DEF Supply
<1>3. S \in Nat
  BY <1>2, SlackIsNatural
<1>4. r \subseteq UNION {q[n].sample : n \in 1..k}
  BY <1>2, MergedFrom
<1> HIDE DEF T, r, S
<1>5. ASSUME T > Capacity, NEW n \in 1..k
      PROVE  LET g == Cardinality(r \cap q[n].sample)
             IN  g \in Nat /\ 2 * (g * T - Capacity * q[n].seen) \in (-(1 + j[n] + S) * T)..T
  <2> DEFINE g == Cardinality(r \cap q[n].sample)
             x == q[n].seen
             e == j[n]
  <2>1. g \in Nat /\ x \in Nat /\ e \in Nat /\ 2 * (T * g) <= 2 * (Capacity * x) + T /\ 2 * (Capacity * x) <= 2 * (T * g) + T * (1 + (e + S))
    BY <1>1, <1>2, <1>5
  <2> HIDE DEF g, x, e
  <2>2. 2 * (g * T - Capacity * x) \in (-(1 + e + S) * T)..T
    BY <1>1, <1>3, <2>1, ShareIsShown
  <2>3. QED
    BY <2>1, <2>2 DEF g, x, e
<1>6. QED
  BY <1>1, <1>4, <1>5 DEF KeptOf, T, r, S

LEMMA OneNode ==
  ASSUME NEW q, NEW j, j[1] \in Nat, NEW s, s = q[1], Fair(s, j[1]), s.seen \in Nat, IsFiniteSet(s.sample)
  PROVE  KeptOf(s, q, 1, j)
<1> DEFINE T == s.seen
           g == Cardinality(s.sample)
           e == j[1]
<1>1. g \in Nat /\ Capacity \in Nat \ {0} /\ Slack(1) = 0 /\ 1..1 = {1}
  BY FS_CardinalityType, StatisticsAssumption DEF Slack
<1>2. (T <= Capacity => g = T) /\ (T > Capacity => g <= Capacity)
  BY DEF Fair
<1>3. g <= Capacity
  <2> HIDE DEF g, T
  <2>1. T \in Nat
    BY DEF T
  <2>2. QED
    BY <1>1, <1>2, <2>1
<1>4. s.sample \subseteq UNION {q[n].sample : n \in 1..1}
  BY <1>1
<1>5. ASSUME T > Capacity PROVE 2 * (g * T - Capacity * T) \in (-(1 + e + 0) * T)..T
  <2>1. 2 * (T * g) <= 2 * (Capacity * T) + T /\ 2 * (Capacity * T) <= 2 * (T * g) + T * (1 + (e + 0))
    BY <1>1, <1>5, OneSourceIsShown
  <2>2. T \in Nat /\ e \in Nat /\ 0 \in Nat
    OBVIOUS
  <2> HIDE DEF T, g, e
  <2>3. QED
    BY <1>1, <2>1, <2>2, ShareIsShown
<1>6. ASSUME NEW n \in 1..1, s.seen > Capacity
      PROVE  LET h == Cardinality(s.sample \cap q[n].sample)
             IN  h \in Nat /\ 2 * (h * s.seen - Capacity * q[n].seen) \in (-(1 + j[n] + Slack(1)) * s.seen)..s.seen
  <2>1. n = 1 /\ s.sample \cap q[n].sample = s.sample /\ q[n].seen = s.seen
    BY <1>1
  <2>2. QED
    BY <1>1, <1>5, <1>6, <2>1
<1>7. QED
  BY <1>1, <1>2, <1>3, <1>4, <1>6 DEF KeptOf

LEMMA GatherIsFair == ASSUME ShareInv, Gather PROVE Distinct' /\ FairInv' /\ SampleIsFair'
<1>1. /\ phase = "load" /\ phase' = "judging" /\ plan' = plan /\ nth' = nth /\ done' = done /\ run' = run
      /\ ToldInv /\ LoadInv /\ Distinct /\ FairInv /\ \A n \in DOMAIN parts : parts[n] # <<>>
  BY DEF Gather, ShareInv, ToldInv, run
<1> DEFINE q == [n \in DOMAIN parts |-> Received(parts[n][1])]
           c == [n \in DOMAIN parts |-> OfNode(n)]
           k == Len(run.nodes)
           j == [n \in 1..k |-> Slack(Len(run.nodes[n]))]
<1>2. Parts(q, k, c) /\ Together(c, k) = done /\ \A n \in DOMAIN parts : q[n] = parts[n][1]
  BY <1>1, NodesAreParts
<1>3. total' \in IF k = 1 THEN {parts[1][1]} ELSE Merged(q)
  BY DEF Gather
<1>4. NodesKind(run.nodes)
  BY <1>1, RunIsPlanned DEF ToldInv, DoneInv, run, PlanKind
<1>5. DOMAIN parts = 1..k /\ DOMAIN run.nodes = 1..k /\ \A n \in 1..k : Len(run.nodes[n]) \in Nat
  BY <1>1, <1>4, OnePlace DEF LoadInv
<1>6. \A n \in 1..k : j[n] = Slack(Len(run.nodes[n])) /\ j[n] \in Nat /\ Fair(q[n], j[n])
  BY <1>1, <1>2, <1>5, SlackIsNatural DEF FairInv
<1>7. \A n \in 1..k : c[n] = OfNode(n) /\ Tells(q[n], OfNode(n))
  <2>1. \A n \in 1..k : c[n] = OfNode(n)
    BY <1>5
  <2> HIDE DEF q, c, k
  <2>2. QED
    BY <1>2, <2>1 DEF Parts
<1> HIDE DEF q, c, k, j
<1>8. KeptOf(total', q, k, j)
  <2>1. CASE k = 1
    <3>1. 1 \in 1..k
      BY <2>1
    <3>2. total' = q[1] /\ j[1] \in Nat /\ Fair(q[1], j[1]) /\ Tells(q[1], OfNode(1))
      BY <1>2, <1>3, <1>5, <1>6, <1>7, <2>1, <3>1
    <3>3. q[1].seen \in Nat /\ IsFiniteSet(q[1].sample)
      BY <3>2, FiguresTyped, TakenIsFinite, FS_Subset DEF Tells
    <3>4. QED
      BY <2>1, <3>2, <3>3, OneNode
  <2>2. CASE k # 1
    <3>1. total' \in Merged(q)
      BY <1>3, <2>2
    <3>2. \A d, e \in Together(c, k) : d.sample = e.sample => d = e
      BY <1>1, <1>2 DEF Distinct
    <3>3. total'.seen = Seen(q) /\ total'.sample \in MergedSamples(q) /\ Supply(q, k, j)
      BY <1>2, <1>6, <3>1, <3>2, MergedIsSupplied
    <3>4. QED
      BY <3>3, ManyNodes
  <2>3. QED
    BY <2>1, <2>2
<1>9. ASSUME NEW n \in 1..k
      PROVE  /\ {x \in total'.sample : Works(x.by, n)} = total'.sample \cap q[n].sample
             /\ Cardinality({d \in Of("answer") : Works(d.sample.by, n)}) = q[n].seen
  <2>1. \A i \in 1..k : \A x \in q[i].sample : Works(x.by, i)
    BY <1>7 DEF Tells, Taken, OfKind, OfNode
  <2>2. ASSUME NEW x \in total'.sample, Works(x.by, n) PROVE x \in q[n].sample
    <3>1. PICK i \in 1..k : x \in q[i].sample
      BY <1>8 DEF KeptOf
    <3>2. i = n
      <4>1. Works(x.by, i) /\ Works(x.by, n)
        BY <2>1, <2>2, <3>1
      <4>2. PICK a \in DOMAIN run.nodes[i], b \in DOMAIN run.nodes[n] : run.nodes[i][a] = x.by /\ run.nodes[n][b] = x.by
        BY ONLY <4>1 DEF Works
      <4>3. i \in DOMAIN run.nodes /\ n \in DOMAIN run.nodes
        BY <1>5
      <4>4. \A m, r \in DOMAIN run.nodes : \A f \in DOMAIN run.nodes[m], g \in DOMAIN run.nodes[r] :
              run.nodes[m][f] = run.nodes[r][g] => m = r
        BY <1>4, OnePlace
      <4>5. QED
        BY ONLY <4>2, <4>3, <4>4
    <3>3. QED
      BY <3>1, <3>2
  <2>3. {x \in total'.sample : Works(x.by, n)} = total'.sample \cap q[n].sample
    BY <2>1, <2>2
  <2>4. {d \in Of("answer") : Works(d.sample.by, n)} = OfKind(OfNode(n), "answer")
    BY DEF Of, OfKind, OfNode
  <2>5. QED
    BY <1>7, <2>3, <2>4 DEF Tells, NumbersTell
<1>10. total'.sample \subseteq {d.sample : d \in Of("answer")}
  <2>1. Tells(total', done)
    BY <1>1, GatherKeeps DEF ToldInv, TotalInv
  <2>2. QED
    BY <2>1 DEF Tells, Taken, OfKind, Of
<1>11. ASSUME total'.seen > Capacity, NEW n \in 1..k
       PROVE  LET of == {x \in total'.sample : Works(x.by, n)}
                  asked == {d \in Of("answer") : Works(d.sample.by, n)}
                  got == Cardinality(of) * total'.seen
                  due == Capacity * Cardinality(asked)
                  taken == 1 + Slack(Len(run.nodes[n])) + Slack(Len(run.nodes))
              IN  2 * (got - due) \in (-taken * total'.seen)..total'.seen
  <2>1. 2 * (Cardinality(total'.sample \cap q[n].sample) * total'.seen - Capacity * q[n].seen) \in
          (-(1 + j[n] + Slack(k)) * total'.seen)..total'.seen
    BY <1>8, <1>11 DEF KeptOf
  <2>2. QED
    BY <1>6, <1>9, <2>1 DEF k
<1>12. SampleIsFair'
  <2>1. \A x, n : Works(x, n)' = Works(x, n)
    BY <1>1 DEF Works
  <2>2. Of("answer")' = Of("answer")
    BY <1>1 DEF Of
  <2>3. Cardinality(total'.sample) <= Capacity /\ (total'.seen <= Capacity => Cardinality(total'.sample) = total'.seen)
    BY <1>8 DEF KeptOf
  <2>4. QED
    BY <1>1, <1>5, <1>10, <1>11, <2>1, <2>2, <2>3 DEF SampleIsFair
<1>13. QED
  BY <1>1, <1>12 DEF Distinct, FairInv

\* Samples of a run that is over are left alone.
LEMMA SampleStays ==
  ASSUME SampleIsFair, plan' = plan, nth' = nth, done' = done, total' = total, phase' # "load" => phase # "load"
  PROVE  SampleIsFair'
<1>1. run' = run /\ \A x, n : Works(x, n)' = Works(x, n)
  BY DEF run, Works
<1>2. Of("answer")' = Of("answer")
  BY DEF Of
<1>3. QED
  BY <1>1, <1>2, ZenonT(90) DEF SampleIsFair

LEMMA ShareStart == Init => ShareInv
<1> SUFFICES ASSUME Init PROVE ShareInv
  OBVIOUS
<1>1. Fair(NoStats, 0)
  <2>1. NoStats.seen = 0 /\ NoStats.sample = {}
    BY DEF NoStats
  <2>2. QED
    BY <2>1, FS_EmptySet, StatisticsAssumption DEF Fair
<1>2. FairInv
  BY <1>1 DEF FairInv, Init
<1>3. QED
  BY <1>2, Start DEF ShareInv, Distinct, SampleIsFair, Init

LEMMA ShareStep == ASSUME ShareInv, [Next]_vars PROVE ShareInv'
<1>1. ToldInv' /\ ToldInv /\ Distinct /\ FairInv /\ SampleIsFair
  BY ToldStep DEF ShareInv
<1>2. ASSUME NEW w \in Worker, Record(w) PROVE ShareInv'
  <2>1. phase' = "load"
    BY <1>2 DEF Record
  <2>2. QED
    BY <1>1, <1>2, <2>1, RecordIsFair DEF ShareInv, SampleIsFair
<1>3. ASSUME NEW n \in DOMAIN parts, EndNode(n) PROVE ShareInv'
  <2>1. phase' = "load"
    BY <1>3 DEF EndNode
  <2>2. QED
    BY <1>1, <1>3, <2>1, EndNodeIsFair DEF ShareInv, SampleIsFair
<1>4. CASE Gather
  BY <1>1, <1>4, GatherIsFair DEF ShareInv
<1>5. CASE Judge
  <2>1. phase = "judging" /\ phase' = "judged" /\ plan' = plan /\ nth' = nth /\ done' = done /\ total' = total
    BY <1>5 DEF Judge
  <2>2. SampleIsFair'
    BY <1>1, <2>1, SampleStays
  <2>3. QED
    BY <1>1, <2>1, <2>2 DEF ShareInv, Distinct, FairInv
<1>6. CASE NextRun
  <2>1. /\ phase' = "load" /\ done' = {} /\ stats' = [w \in Worker |-> NoStats]
        /\ parts' = [n \in DOMAIN plan[nth + 1].nodes |-> <<>>]
    BY <1>6 DEF NextRun, Fresh
  <2>2. Fair(NoStats, 0)
    <3>1. NoStats.seen = 0 /\ NoStats.sample = {}
      BY DEF NoStats
    <3>2. QED
      BY <3>1, FS_EmptySet, StatisticsAssumption DEF Fair
  <2>3. FairInv' /\ Distinct'
    BY <2>1, <2>2 DEF FairInv, Distinct
  <2>4. QED
    BY <1>1, <2>1, <2>3 DEF ShareInv, SampleIsFair
<1>7. CASE Review
  <2>1. phase = "judged" /\ phase' = "reviewed" /\ plan' = plan /\ nth' = nth /\ done' = done /\ total' = total
    BY <1>7 DEF Review
  <2>2. SampleIsFair'
    BY <1>1, <2>1, SampleStays
  <2>3. QED
    BY <1>1, <2>1, <2>2 DEF ShareInv, Distinct, FairInv
<1>8. CASE UNCHANGED vars
  <2>1. /\ plan' = plan /\ nth' = nth /\ phase' = phase /\ stats' = stats /\ parts' = parts /\ total' = total
        /\ done' = done /\ run' = run
    BY <1>8 DEF vars, run
  <2>2. SampleIsFair'
    BY <1>1, <2>1, SampleStays
  <2>3. QED
    BY <1>1, <2>1, <2>2 DEF ShareInv, Distinct, FairInv
<1>9. QED
  BY <1>2, <1>3, <1>4, <1>5, <1>6, <1>7, <1>8 DEF Next

\* merge_reservoirs, config.py: whatever the load of each node and however its own
\* sample was drawn, the sample of the run is all of it or has of each node its share
\* in the run, but for what rounding the shares takes away.
THEOREM SampleStaysFair == Spec => []SampleIsFair
<1>1. ShareInv /\ [Next]_vars => ShareInv'
  BY ShareStep
<1>2. ShareInv => SampleIsFair
  BY DEF ShareInv
<1>3. QED
  BY <1>1, <1>2, ShareStart, PTL DEF Spec
===============================================================================
