----------------------------- MODULE MergeProofs -----------------------------
(***************************************************************************)
(* Proof that MultiMerge merges any four layers, two keys deep, to their    *)
(* effective configuration.                                                 *)
(*                                                                          *)
(* The proof goes layer by layer: Upto(layers, i) are the first i layers,   *)
(* and what is merged of them is, but for tags not yet stripped, what they  *)
(* stand for (StandsFor).  OneMoreLayer says that Merge keeps this; it      *)
(* rests on how one more layer changes which layers are in force for a key  *)
(* (SaidByNext, NotSaidByNext).                                             *)
(***************************************************************************)
EXTENDS ConfigMerge, TLAPS

Upto(layers, i) == [j \in 1..i |-> layers[j]]

Said(layers, k) == layers[LastOf(Saying(layers, k))].other[k]

Keys(layers) == UNION {DOMAIN layers[i].other : i \in DOMAIN layers}

SaysUnder(layers, k, n) == {i \in InForce(layers, k) : n \in DOMAIN layers[i].other[k].map}

ValueUnder(layers, k, n) == layers[LastOf(SaysUnder(layers, k, n))].other[k].map[n]

KeysUnder(layers, k) == UNION {DOMAIN layers[i].other[k].map : i \in InForce(layers, k)}

\* The result so far has, once stripped of its tags, what the layers stand for.
StandsFor(data, layers) == StripDeletedKeys(data) = Effective(layers)

\* What can be said of the result after i layers: it fails when one of them is no
\* configuration, may panic when the defaults are empty, stands for the layers otherwise,
\* and has no tags once a layer was merged into the defaults.
ResultOf(layers, i, result) ==
    LET present == {j \in 1..i : layers[j].is = "yaml"}
        unusable == 1 \notin present \/ \E j \in 1..i : layers[j].is = "bad"
    IN /\ result = [err |-> result.err, nilMap |-> layers[1].other = NoKeys,
                    other |-> result.other]
       /\ result.err \in {"nil", "error", "panic"}
       /\ unusable => result.err # "nil"
       /\ result.err = "error" => unusable
       /\ result.err = "panic" => layers[1].other = NoKeys
       /\ result.err = "nil" =>
              /\ StandsFor(result.other, Upto(layers, i))
              /\ result.other = IF present = {1} THEN layers[1].other
                                ELSE Effective(Upto(layers, i))
-----------------------------------------------------------------------------
\* The last of some layers is one of them, and none comes after it.
LEMMA LastOfIsLast ==
    ASSUME NEW S \in SUBSET (1..4), S # {}
    PROVE  LastOf(S) \in S /\ \A o \in S : o <= LastOf(S)
<1>1. \E i \in S : \A o \in S : o <= i
  <2>1. CASE 4 \in S
    BY <2>1
  <2>2. CASE 4 \notin S /\ 3 \in S
    BY <2>2
  <2>3. CASE 4 \notin S /\ 3 \notin S /\ 2 \in S
    BY <2>3
  <2>4. CASE 4 \notin S /\ 3 \notin S /\ 2 \notin S
    <3>1. \A o \in S : o = 1
      BY <2>4
    <3>2. 1 \in S
      BY <3>1
    <3> QED
      BY <3>1, <3>2
  <2> QED
    BY <2>1, <2>2, <2>3, <2>4
<1> QED
  BY <1>1 DEF LastOf

\* It is the only such one.
LEMMA LastOfIs ==
    ASSUME NEW S \in SUBSET (1..4), NEW i \in S, \A o \in S : o <= i
    PROVE  LastOf(S) = i
<1>1. LastOf(S) \in S /\ i <= LastOf(S)
  BY LastOfIsLast
<1>2. LastOf(S) <= i /\ LastOf(S) \in 1..4 /\ i \in 1..4
  BY <1>1
<1> QED
  BY <1>1, <1>2

LEMMA EffectiveIs ==
    ASSUME NEW layers
    PROVE  Effective(layers) =
               [k \in {key \in Keys(layers) : Said(layers, key).leaf # Deletion} |->
                   IF IsMap(Said(layers, k)) THEN Map(Under(layers, k)) ELSE Said(layers, k)]
BY DEF Effective, Keys, Said

LEMMA UnderIs ==
    ASSUME NEW layers, NEW k
    PROVE  Under(layers, k) =
               [n \in {m \in KeysUnder(layers, k) : ValueUnder(layers, k, m).leaf # Deletion} |->
                   ValueUnder(layers, k, n)]
BY DEF Under, KeysUnder, ValueUnder, SaysUnder

\* The parts of Map(m).
LEMMA MapIs == \A m : Map(m).map = m /\ Map(m).leaf = "" /\ IsMap(Map(m))
BY DEF Map, IsMap

\* A key that the next layer does not name is said and in force as before.
LEMMA NotSaidByNext ==
    ASSUME NEW layers, NEW i \in 1..3, NEW k, k \notin DOMAIN layers[i + 1].other
    PROVE  /\ Saying(Upto(layers, i + 1), k) = Saying(Upto(layers, i), k)
           /\ k \in Keys(Upto(layers, i)) =>
                  /\ Said(Upto(layers, i + 1), k) = Said(Upto(layers, i), k)
                  /\ Under(Upto(layers, i + 1), k) = Under(Upto(layers, i), k)
<1> DEFINE old == Upto(layers, i)
           new == Upto(layers, i + 1)
<1>1. Saying(new, k) = Saying(old, k)
  BY DEF Saying, Upto
<1>2. \A j \in Saying(old, k) : j \in 1..i /\ new[j] = old[j]
  BY DEF Saying, Upto
<1>3. ASSUME k \in Keys(old)
      PROVE  Said(new, k) = Said(old, k)
  <2>1. Saying(old, k) # {} /\ Saying(old, k) \in SUBSET (1..4)
    BY <1>3 DEF Keys, Saying, Upto
  <2>2. LastOf(Saying(old, k)) \in Saying(old, k)
    BY <2>1, LastOfIsLast
  <2> QED
    BY <1>1, <1>2, <2>2 DEF Said
<1>4. InForce(new, k) = InForce(old, k)
  BY <1>1, <1>2 DEF InForce
<1>5. \A j \in InForce(old, k) : j \in 1..i /\ new[j] = old[j]
  BY <1>2 DEF InForce
<1>6. KeysUnder(new, k) = KeysUnder(old, k)
  BY <1>4, <1>5 DEF KeysUnder
<1>7. ASSUME NEW n
      PROVE  SaysUnder(new, k, n) = SaysUnder(old, k, n)
  BY <1>4, <1>5 DEF SaysUnder
<1>8. ASSUME NEW n \in KeysUnder(old, k)
      PROVE  ValueUnder(new, k, n) = ValueUnder(old, k, n)
  <2>1. SaysUnder(old, k, n) # {} /\ SaysUnder(old, k, n) \in SUBSET (1..4)
    BY <1>5, <1>8 DEF KeysUnder, SaysUnder
  <2>2. LastOf(SaysUnder(old, k, n)) \in SaysUnder(old, k, n)
    BY <2>1, LastOfIsLast
  <2>3. LastOf(SaysUnder(old, k, n)) \in InForce(old, k)
    BY <2>2 DEF SaysUnder
  <2> QED
    BY <1>5, <1>7, <2>3 DEF ValueUnder
<1>9. Under(new, k) = Under(old, k)
  <2>1. {m \in KeysUnder(new, k) : ValueUnder(new, k, m).leaf # Deletion} =
        {m \in KeysUnder(old, k) : ValueUnder(old, k, m).leaf # Deletion}
    BY <1>6, <1>8
  <2> QED
    BY <1>6, <1>8, <2>1, UnderIs
<1> QED
  BY <1>1, <1>3, <1>9

\* A key that the next layer names is said by it; if by a map, that map is in force too,
\* over the ones that were if the last of them was a map.
LEMMA SaidByNext ==
    ASSUME NEW layers, NEW i \in 1..3, NEW k, k \in DOMAIN layers[i + 1].other
    PROVE  LET next == layers[i + 1].other[k] IN
           /\ Said(Upto(layers, i + 1), k) = next
           /\ IsMap(next) =>
                  Under(Upto(layers, i + 1), k) =
                      IF k \in Keys(Upto(layers, i)) /\ IsMap(Said(Upto(layers, i), k))
                      THEN StripLeaves(MergeLeaves(Under(Upto(layers, i), k), next.map))
                      ELSE StripLeaves(next.map)
<1> DEFINE old == Upto(layers, i)
           new == Upto(layers, i + 1)
           next == layers[i + 1].other[k]
<1>1. /\ Saying(old, k) \in SUBSET (1..i)
      /\ Saying(new, k) = Saying(old, k) \cup {i + 1}
      /\ new[i + 1] = layers[i + 1]
      /\ \A j \in 1..i : new[j] = old[j]
  BY DEF Saying, Upto
<1>2. Said(new, k) = next
  <2>1. Saying(new, k) \in SUBSET (1..4) /\ i + 1 \in Saying(new, k)
    BY <1>1
  <2>2. \A o \in Saying(new, k) : o <= i + 1
    BY <1>1
  <2>3. LastOf(Saying(new, k)) = i + 1
    BY <2>1, <2>2, LastOfIs
  <2> QED
    BY <1>1, <2>3 DEF Said
<1>3. ASSUME IsMap(next)
      PROVE  Under(new, k) = IF k \in Keys(old) /\ IsMap(Said(old, k))
                             THEN StripLeaves(MergeLeaves(Under(old, k), next.map))
                             ELSE StripLeaves(next.map)
  <2>1. InForce(new, k) = InForce(old, k) \cup {i + 1}
    BY <1>1, <1>3 DEF InForce
  <2>2. InForce(old, k) \in SUBSET (1..i)
    BY <1>1 DEF InForce
  <2>3. KeysUnder(new, k) = KeysUnder(old, k) \cup DOMAIN next.map
    BY <1>1, <2>1, <2>2 DEF KeysUnder
  <2>4. ASSUME NEW n \in DOMAIN next.map
        PROVE  ValueUnder(new, k, n) = next.map[n]
    <3>1. i + 1 \in SaysUnder(new, k, n) /\ SaysUnder(new, k, n) \in SUBSET (1..4)
      BY <1>1, <2>1, <2>2, <2>4 DEF SaysUnder
    <3>2. \A o \in SaysUnder(new, k, n) : o <= i + 1
      BY <2>1, <2>2 DEF SaysUnder
    <3>3. LastOf(SaysUnder(new, k, n)) = i + 1
      BY <3>1, <3>2, LastOfIs
    <3> QED
      BY <1>1, <3>3 DEF ValueUnder
  <2>5. ASSUME NEW n \in KeysUnder(old, k), n \notin DOMAIN next.map
        PROVE  ValueUnder(new, k, n) = ValueUnder(old, k, n)
    <3>1. SaysUnder(new, k, n) = SaysUnder(old, k, n)
      BY <1>1, <2>1, <2>2, <2>5 DEF SaysUnder
    <3>2. SaysUnder(old, k, n) # {} /\ SaysUnder(old, k, n) \in SUBSET (1..4)
      BY <2>2, <2>5 DEF KeysUnder, SaysUnder
    <3>3. LastOf(SaysUnder(old, k, n)) \in SaysUnder(old, k, n)
      BY <3>2, LastOfIsLast
    <3>4. LastOf(SaysUnder(old, k, n)) \in 1..i
      BY <2>2, <3>3 DEF SaysUnder
    <3> QED
      BY <1>1, <3>1, <3>4 DEF ValueUnder
  <2>6. CASE k \in Keys(old) /\ IsMap(Said(old, k))
    <3> DEFINE merged == MergeLeaves(Under(old, k), next.map)
    <3>1. {n \in KeysUnder(new, k) : ValueUnder(new, k, n).leaf # Deletion} =
          {n \in DOMAIN merged : merged[n].leaf # Deletion}
      BY <2>3, <2>4, <2>5, UnderIs DEF MergeLeaves
    <3>2. ASSUME NEW n \in DOMAIN merged
          PROVE  ValueUnder(new, k, n) = merged[n]
      BY <2>3, <2>4, <2>5, <3>2, UnderIs DEF MergeLeaves
    <3> QED
      BY <2>6, <3>1, <3>2, UnderIs DEF StripLeaves
  <2>7. CASE ~(k \in Keys(old) /\ IsMap(Said(old, k)))
    <3>1. InForce(old, k) = {}
      <4>1. CASE k \notin Keys(old)
        BY <4>1 DEF Keys, InForce, Saying
      <4>2. CASE k \in Keys(old) /\ ~IsMap(Said(old, k))
        <5>1. Saying(old, k) # {} /\ Saying(old, k) \in SUBSET (1..4)
          BY <1>1, <4>2 DEF Keys, Saying
        <5>2. /\ LastOf(Saying(old, k)) \in Saying(old, k)
              /\ \A o \in Saying(old, k) : LastOf(Saying(old, k)) >= o
          BY <1>1, <5>1, LastOfIsLast
        <5> QED
          BY <4>2, <5>2 DEF InForce, Said
      <4> QED
        BY <2>7, <4>1, <4>2
    <3>2. KeysUnder(new, k) = DOMAIN next.map
      BY <2>3, <3>1 DEF KeysUnder
    <3>3. {n \in KeysUnder(new, k) : ValueUnder(new, k, n).leaf # Deletion} =
          {n \in DOMAIN next.map : next.map[n].leaf # Deletion}
      BY <2>4, <3>2
    <3> QED
      BY <2>4, <2>7, <3>3, UnderIs DEF StripLeaves
  <2> QED
    BY <2>6, <2>7
<1> QED
  BY <1>2, <1>3
-----------------------------------------------------------------------------
\* Tags stripped before a merge of leaves or after it only: the same.
LEMMA StripAfter ==
    ASSUME NEW m, NEW w
    PROVE  StripLeaves(MergeLeaves(StripLeaves(m), w)) = StripLeaves(MergeLeaves(m, w))
<1> DEFINE one == MergeLeaves(StripLeaves(m), w)
           two == MergeLeaves(m, w)
<1>1. {k \in DOMAIN one : one[k].leaf # Deletion} = {k \in DOMAIN two : two[k].leaf # Deletion}
  BY DEF MergeLeaves, StripLeaves
<1>2. \A k \in DOMAIN one : one[k] = two[k]
  BY DEF MergeLeaves, StripLeaves
<1> QED
  BY <1>1, <1>2 DEF StripLeaves

\* What was stripped has no tags left.
LEMMA StrippedOnce ==
    ASSUME NEW data
    PROVE  StripDeletedKeys(StripDeletedKeys(data)) = StripDeletedKeys(data)
<1> DEFINE once == StripDeletedKeys(data)
<1>1. \A m : StripLeaves(StripLeaves(m)) = StripLeaves(m)
  BY DEF StripLeaves
<1>2. /\ DOMAIN once = {k \in DOMAIN data : data[k].leaf # Deletion}
      /\ \A k \in DOMAIN once :
            once[k] = IF IsMap(data[k]) THEN Map(StripLeaves(data[k].map)) ELSE data[k]
  BY DEF StripDeletedKeys
<1>3. \A k \in DOMAIN once : once[k].leaf # Deletion
  BY <1>2, MapIs DEF Deletion
<1>4. \A k \in DOMAIN once : IsMap(once[k]) => Map(StripLeaves(once[k].map)) = once[k]
  BY <1>1, <1>2, MapIs
<1>5. once = [k \in DOMAIN once |-> once[k]]
  BY DEF StripDeletedKeys
<1>6. StripDeletedKeys(once) = [k \in DOMAIN once |-> once[k]]
  <2> HIDE DEF once
  <2> QED
    BY <1>3, <1>4 DEF StripDeletedKeys
<1> QED
  BY <1>5, <1>6

\* What data that stands for some layers has of a key is what they say of it.
LEMMA StandsForKey ==
    ASSUME NEW data, NEW layers, StandsFor(data, layers), NEW k
    PROVE  LET there == k \in DOMAIN data
               told == k \in Keys(layers)
           IN /\ there /\ data[k].leaf # Deletion <=> told /\ Said(layers, k).leaf # Deletion
              /\ there /\ IsMap(data[k]) <=> told /\ IsMap(Said(layers, k))
              /\ there /\ IsMap(data[k]) => StripLeaves(data[k].map) = Under(layers, k)
              /\ there /\ data[k].leaf # Deletion /\ ~IsMap(data[k]) =>
                     data[k] = Said(layers, k)
<1> DEFINE there == k \in DOMAIN data
           told == k \in Keys(layers)
           said == Said(layers, k)
           here == IF IsMap(data[k]) THEN Map(StripLeaves(data[k].map)) ELSE data[k]
           meant == IF IsMap(said) THEN Map(Under(layers, k)) ELSE said
<1>1. there /\ data[k].leaf # Deletion <=> told /\ said.leaf # Deletion
  <2>1. DOMAIN StripDeletedKeys(data) = {key \in DOMAIN data : data[key].leaf # Deletion}
    BY DEF StripDeletedKeys
  <2>2. DOMAIN Effective(layers) =
            {key \in Keys(layers) : Said(layers, key).leaf # Deletion}
    BY EffectiveIs
  <2> QED
    BY <2>1, <2>2 DEF StandsFor
<1>2. there /\ data[k].leaf # Deletion => here = meant
  <2>1. there /\ data[k].leaf # Deletion => StripDeletedKeys(data)[k] = here
    BY DEF StripDeletedKeys
  <2>2. told /\ said.leaf # Deletion => Effective(layers)[k] = meant
    BY EffectiveIs
  <2> QED
    BY <1>1, <2>1, <2>2 DEF StandsFor
<1>3. IsMap(data[k]) => data[k].leaf # Deletion
  BY DEF IsMap, Deletion
<1>4. IsMap(said) => said.leaf # Deletion
  BY DEF IsMap, Deletion
<1>5. there /\ IsMap(data[k]) => told /\ IsMap(said)
  BY <1>1, <1>2, <1>3, MapIs
<1>6. told /\ IsMap(said) => there /\ IsMap(data[k])
  BY <1>1, <1>2, <1>4, MapIs
<1>7. there /\ IsMap(data[k]) => StripLeaves(data[k].map) = Under(layers, k)
  BY <1>2, <1>3, <1>5, MapIs
<1>8. there /\ data[k].leaf # Deletion /\ ~IsMap(data[k]) => data[k] = said
  BY <1>1, <1>2, <1>6
<1> QED
  BY <1>1, <1>5, <1>6, <1>7, <1>8

\* One more layer: what is merged with it is, stripped of its tags, what all of them mean.
LEMMA OneMoreLayer ==
    ASSUME NEW layers, NEW i \in 1..3, NEW data, StandsFor(data, Upto(layers, i))
    PROVE  Merge(data, layers[i + 1].other) = Effective(Upto(layers, i + 1))
<1> DEFINE old == Upto(layers, i)
           new == Upto(layers, i + 1)
           next == layers[i + 1].other
           merged == MergeMaps(data, next)
           result(k) == IF IsMap(merged[k]) THEN Map(StripLeaves(merged[k].map)) ELSE merged[k]
           meant(k) == IF IsMap(Said(new, k)) THEN Map(Under(new, k)) ELSE Said(new, k)
<1>1. DOMAIN merged = DOMAIN data \cup DOMAIN next
  BY DEF MergeMaps
<1>2. Keys(new) = Keys(old) \cup DOMAIN next
  BY DEF Keys, Upto
<1>3. ASSUME NEW k, k \notin DOMAIN next
      PROVE  /\ k \in DOMAIN merged /\ merged[k].leaf # Deletion <=>
                    k \in Keys(new) /\ Said(new, k).leaf # Deletion
             /\ k \in DOMAIN merged /\ merged[k].leaf # Deletion => result(k) = meant(k)
  <2>1. k \in DOMAIN data => merged[k] = data[k]
    BY <1>3 DEF MergeMaps
  <2>2. k \in Keys(old) => Said(new, k) = Said(old, k) /\ Under(new, k) = Under(old, k)
    BY <1>3, NotSaidByNext
  <2> HIDE DEF merged, old, new
  <2>3. k \in DOMAIN merged /\ merged[k].leaf # Deletion <=>
            k \in Keys(new) /\ Said(new, k).leaf # Deletion
    BY <1>1, <1>2, <1>3, <2>1, <2>2, StandsForKey DEF old
  <2>4. ASSUME k \in DOMAIN merged, merged[k].leaf # Deletion
        PROVE  result(k) = meant(k)
    <3>1. k \in DOMAIN data /\ k \in Keys(old) /\ data[k].leaf # Deletion
      BY <1>1, <1>2, <1>3, <2>1, <2>3, <2>4
    <3>2. CASE IsMap(data[k])
      <4>1. IsMap(Said(old, k)) /\ StripLeaves(data[k].map) = Under(old, k)
        BY <3>1, <3>2, StandsForKey DEF old
      <4> QED
        BY <2>1, <2>2, <3>1, <3>2, <4>1
    <3>3. CASE ~IsMap(data[k])
      <4>1. data[k] = Said(old, k)
        BY <3>1, <3>3, StandsForKey DEF old
      <4> QED
        BY <2>1, <2>2, <3>1, <3>3, <4>1
    <3> QED
      BY <3>2, <3>3
  <2> QED
    BY <2>3, <2>4
<1>4. ASSUME NEW k \in DOMAIN next
      PROVE  /\ k \in DOMAIN merged /\ merged[k].leaf # Deletion <=>
                    k \in Keys(new) /\ Said(new, k).leaf # Deletion
             /\ k \in DOMAIN merged /\ merged[k].leaf # Deletion => result(k) = meant(k)
  <2>1. /\ Said(new, k) = next[k]
        /\ IsMap(next[k]) =>
               Under(new, k) = IF k \in Keys(old) /\ IsMap(Said(old, k))
                               THEN StripLeaves(MergeLeaves(Under(old, k), next[k].map))
                               ELSE StripLeaves(next[k].map)
    BY <1>4, SaidByNext
  <2>2. merged[k] = IF k \in DOMAIN data /\ IsMap(data[k]) /\ IsMap(next[k])
                    THEN Map(MergeLeaves(data[k].map, next[k].map))
                    ELSE next[k]
    BY <1>4 DEF MergeMaps
  <2> HIDE DEF merged, old, new, next
  <2>3. k \in DOMAIN data /\ IsMap(data[k]) <=> k \in Keys(old) /\ IsMap(Said(old, k))
    BY StandsForKey DEF old
  <2>4. CASE ~IsMap(next[k])
    BY <1>1, <1>2, <1>4, <2>1, <2>2, <2>4
  <2>5. CASE IsMap(next[k]) /\ ~(k \in DOMAIN data /\ IsMap(data[k]))
    BY <1>1, <1>2, <1>4, <2>1, <2>2, <2>3, <2>5
  <2>6. CASE IsMap(next[k]) /\ k \in DOMAIN data /\ IsMap(data[k])
    <3>1. merged[k] = Map(MergeLeaves(data[k].map, next[k].map))
      BY <2>2, <2>6
    <3>2. Under(new, k) = StripLeaves(MergeLeaves(Under(old, k), next[k].map))
      BY <2>1, <2>3, <2>6
    <3>3. StripLeaves(data[k].map) = Under(old, k)
      BY <2>6, StandsForKey DEF old
    <3>4. Under(new, k) = StripLeaves(MergeLeaves(data[k].map, next[k].map))
      BY <3>2, <3>3, StripAfter
    <3>5. IsMap(merged[k]) /\ StripLeaves(merged[k].map) = Under(new, k)
      BY <3>1, <3>4, MapIs
    <3>6. merged[k].leaf # Deletion /\ next[k].leaf # Deletion
      BY <2>6, <3>5 DEF IsMap, Deletion
    <3> QED
      BY <1>1, <1>2, <1>4, <2>1, <2>6, <3>5, <3>6
  <2> QED
    BY <2>4, <2>5, <2>6
<1> HIDE DEF old, new, next, merged
<1>5. \A k : /\ k \in DOMAIN merged /\ merged[k].leaf # Deletion <=>
                   k \in Keys(new) /\ Said(new, k).leaf # Deletion
             /\ k \in DOMAIN merged /\ merged[k].leaf # Deletion => result(k) = meant(k)
  BY <1>3, <1>4
<1>6. {k \in DOMAIN merged : merged[k].leaf # Deletion} =
      {k \in Keys(new) : Said(new, k).leaf # Deletion}
  BY <1>5
<1>7. StripDeletedKeys(merged) =
          [k \in {key \in DOMAIN merged : merged[key].leaf # Deletion} |-> result(k)]
  BY DEF StripDeletedKeys
<1>8. Effective(new) =
          [k \in {key \in Keys(new) : Said(new, key).leaf # Deletion} |-> meant(k)]
  BY EffectiveIs
<1>9. StripDeletedKeys(merged) = Effective(new)
  <2> HIDE DEF result, meant
  <2> QED
    BY <1>5, <1>6, <1>7, <1>8
<1> QED
  BY <1>9 DEF Merge, merged, new, next

\* A layer that says nothing changes nothing.
LEMMA OneAbsentLayer ==
    ASSUME NEW layers, NEW i \in 1..3, layers[i + 1].other = NoKeys,
           NEW data, StandsFor(data, Upto(layers, i))
    PROVE  Effective(Upto(layers, i + 1)) = Effective(Upto(layers, i))
<1>1. Merge(data, NoKeys) = Effective(Upto(layers, i + 1))
  BY OneMoreLayer
<1>2. DOMAIN NoKeys = {}
  BY DEF NoKeys
<1>3. /\ DOMAIN MergeMaps(data, NoKeys) = DOMAIN data
      /\ \A k \in DOMAIN data : MergeMaps(data, NoKeys)[k] = data[k]
  <2> HIDE DEF NoKeys
  <2> QED
    BY <1>2 DEF MergeMaps
<1>4. StripDeletedKeys(MergeMaps(data, NoKeys)) = StripDeletedKeys(data)
  <2>1. {k \in DOMAIN data : MergeMaps(data, NoKeys)[k].leaf # Deletion} =
        {k \in DOMAIN data : data[k].leaf # Deletion}
    BY <1>3
  <2> QED
    BY <1>3, <2>1 DEF StripDeletedKeys
<1> QED
  BY <1>1, <1>4 DEF Merge, StandsFor

\* The defaults stand for themselves, their tags included.
LEMMA DefaultsStandFor ==
    ASSUME NEW layers
    PROVE  StandsFor(layers[1].other, Upto(layers, 1))
<1> DEFINE one == Upto(layers, 1)
           data == layers[1].other
<1>1. DOMAIN one = {1} /\ one[1] = layers[1]
  BY DEF Upto
<1>2. Keys(one) = DOMAIN data
  <2> HIDE DEF one
  <2> QED
    BY <1>1 DEF Keys
<1>3. ASSUME NEW k \in DOMAIN data
      PROVE  /\ Said(one, k) = data[k]
             /\ IsMap(data[k]) => Under(one, k) = StripLeaves(data[k].map)
  <2> HIDE DEF one
  <2>1. Saying(one, k) = {1}
    BY <1>1, <1>3 DEF Saying
  <2>2. LastOf({1}) = 1
    BY LastOfIs
  <2>3. Said(one, k) = data[k]
    BY <1>1, <2>1, <2>2 DEF Said
  <2>4. ASSUME IsMap(data[k])
        PROVE  Under(one, k) = StripLeaves(data[k].map)
    <3>1. InForce(one, k) = {1}
      BY <1>1, <2>1, <2>4 DEF InForce
    <3>2. KeysUnder(one, k) = DOMAIN data[k].map
      BY <1>1, <3>1 DEF KeysUnder
    <3>3. ASSUME NEW n \in DOMAIN data[k].map
          PROVE  ValueUnder(one, k, n) = data[k].map[n]
      <4>1. SaysUnder(one, k, n) = {1}
        BY <1>1, <3>1, <3>3 DEF SaysUnder
      <4> QED
        BY <1>1, <2>2, <4>1 DEF ValueUnder
    <3>4. {n \in KeysUnder(one, k) : ValueUnder(one, k, n).leaf # Deletion} =
          {n \in DOMAIN data[k].map : data[k].map[n].leaf # Deletion}
      BY <3>2, <3>3
    <3> QED
      BY <3>3, <3>4, UnderIs DEF StripLeaves
  <2> QED
    BY <2>3, <2>4
<1> HIDE DEF one, data
<1>4. {k \in Keys(one) : Said(one, k).leaf # Deletion} =
      {k \in DOMAIN data : data[k].leaf # Deletion}
  BY <1>2, <1>3
<1>5. StripDeletedKeys(data) = Effective(one)
  BY <1>3, <1>4, EffectiveIs DEF StripDeletedKeys
<1> QED
  BY <1>5 DEF StandsFor, one, data
-----------------------------------------------------------------------------
\* Merging one more layer keeps all of this.
LEMMA MergeLayerKeeps ==
    ASSUME NEW layers, NEW i \in 1..3, IsLayer(layers[i + 1]), NEW result,
           ResultOf(layers, i, result)
    PROVE  ResultOf(layers, i + 1, MergeLayer(result, layers[i + 1]))
<1> DEFINE layer == layers[i + 1]
           old == {j \in 1..i : layers[j].is = "yaml"}
           new == {j \in 1..(i + 1) : layers[j].is = "yaml"}
<1>1. 1..(i + 1) = (1..i) \cup {i + 1} /\ 1 \in 1..i /\ i + 1 \notin 1..i
  OBVIOUS
<1>2. new = old \cup {j \in {i + 1} : layer.is = "yaml"} /\ i + 1 \notin old
  BY <1>1
<1>3. layer.is \in {"absent", "bad", "yaml"}
  BY DEF IsLayer, Absent, Bad
<1>4. CASE layer.is = "absent"
  <2>1. layer.other = NoKeys
    BY <1>4 DEF IsLayer, Absent, Bad
  <2>2. MergeLayer(result, layer) = result
    BY <1>4 DEF MergeLayer
  <2>3. new = old
    BY <1>2, <1>4
  <2>4. result.err = "nil" => Effective(Upto(layers, i + 1)) = Effective(Upto(layers, i))
    BY <2>1, OneAbsentLayer DEF ResultOf
  <2> QED
    BY <1>1, <1>4, <2>2, <2>3, <2>4 DEF ResultOf, StandsFor
<1>5. CASE result.err # "nil"
  <2>1. MergeLayer(result, layer) = result
    BY <1>5 DEF MergeLayer
  <2> QED
    BY <1>1, <1>2, <1>5, <2>1 DEF ResultOf
<1>6. CASE layer.is = "bad" /\ result.err = "nil"
  <2>1. MergeLayer(result, layer) = [result EXCEPT !.err = "error"]
    BY <1>6 DEF MergeLayer
  <2>2. MergeLayer(result, layer) =
            [err |-> "error", nilMap |-> layers[1].other = NoKeys, other |-> result.other]
    BY <2>1 DEF ResultOf
  <2> QED
    BY <1>1, <1>6, <2>2 DEF ResultOf
<1>7. CASE layer.is = "yaml" /\ result.err = "nil"
  <2>1. ~(1 \notin old \/ \E j \in 1..i : layers[j].is = "bad")
    BY <1>7 DEF ResultOf
  <2>2. 1 \in new /\ new # {1} /\ ~\E j \in 1..(i + 1) : layers[j].is = "bad"
    BY <1>1, <1>2, <1>7, <2>1
  <2>3. CASE result.nilMap /\ layer.other # NoKeys
    <3>1. MergeLayer(result, layer) = [result EXCEPT !.err = "panic"]
      BY <1>7, <2>3 DEF MergeLayer
    <3>2. MergeLayer(result, layer) =
              [err |-> "panic", nilMap |-> layers[1].other = NoKeys, other |-> result.other]
      BY <3>1 DEF ResultOf
    <3>3. layers[1].other = NoKeys
      <4>1. result = [err |-> result.err, nilMap |-> layers[1].other = NoKeys,
                      other |-> result.other]
        BY DEF ResultOf
      <4>2. result.nilMap = (layers[1].other = NoKeys)
        BY <4>1
      <4> QED
        BY <2>3, <4>2, Zenon
    <3> QED
      BY <2>2, <3>2, <3>3 DEF ResultOf
  <2>4. CASE ~(result.nilMap /\ layer.other # NoKeys)
    <3> DEFINE merged == Merge(result.other, layer.other)
    <3>1. MergeLayer(result, layer) = [result EXCEPT !.other = merged]
      BY <1>7, <2>4 DEF MergeLayer
    <3>2. MergeLayer(result, layer) =
              [err |-> "nil", nilMap |-> layers[1].other = NoKeys, other |-> merged]
      BY <1>7, <3>1 DEF ResultOf
    <3>3. merged = Effective(Upto(layers, i + 1))
      BY <1>7, OneMoreLayer DEF ResultOf
    <3>4. StandsFor(merged, Upto(layers, i + 1))
      BY <3>3, StrippedOnce DEF Merge, StandsFor
    <3> QED
      BY <2>2, <3>2, <3>3, <3>4 DEF ResultOf
  <2> QED
    BY <2>3, <2>4
<1> QED
  BY <1>3, <1>4, <1>5, <1>6, <1>7

\* The defaults alone.
LEMMA DefaultLayerIs ==
    ASSUME NEW layers, IsLayer(layers[1])
    PROVE  ResultOf(layers, 1, DefaultLayer(layers[1]))
<1>1. 1..1 = {1}
  OBVIOUS
<1>2. layers[1].is \in {"absent", "bad", "yaml"}
  BY DEF IsLayer, Absent, Bad
<1> QED
  BY <1>1, <1>2, DefaultsStandFor DEF ResultOf, DefaultLayer

\* Any defaults, environment, region and variant are merged to the configuration they
\* stand for: the most specific layer decides about a key, maps are merged key by key, and
\* what a layer deletes is gone unless a later one brings it back (schema.go, MultiMerge).
THEOREM MultiMergeIsEffective ==
    ASSUME NEW L, \A layer \in L : IsLayer(layer), NEW layers \in [1..4 -> L]
    PROVE  MergesTo(layers, MultiMerge(layers))
<1> DEFINE default == DefaultLayer(layers[1])
           env == MergeLayer(default, layers[2])
           region == MergeLayer(env, layers[3])
           result == MergeLayer(region, layers[4])
<1>1. \A i \in 1..4 : IsLayer(layers[i])
  OBVIOUS
<1>2. ResultOf(layers, 1, default)
  BY <1>1, DefaultLayerIs
<1> HIDE DEF default
<1>3. ResultOf(layers, 2, env)
  <2>1. IsLayer(layers[1 + 1])
    BY <1>1
  <2> QED
    BY <1>2, <2>1, MergeLayerKeeps
<1> HIDE DEF env
<1>4. ResultOf(layers, 3, region)
  <2>1. IsLayer(layers[2 + 1])
    BY <1>1
  <2> QED
    BY <1>3, <2>1, MergeLayerKeeps
<1> HIDE DEF region
<1>5. ResultOf(layers, 4, result)
  <2>1. IsLayer(layers[3 + 1])
    BY <1>1
  <2> QED
    BY <1>4, <2>1, MergeLayerKeeps
<1>6. Upto(layers, 4) = layers
  BY DEF Upto
<1>7. MultiMerge(layers) = result
  BY DEF MultiMerge, result, region, env, default
<1> HIDE DEF result
<1> QED
  BY <1>5, <1>6, <1>7 DEF ResultOf, MergesTo
=============================================================================
