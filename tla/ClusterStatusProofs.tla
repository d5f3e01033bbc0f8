------------------------- MODULE ClusterStatusProofs -------------------------
(***************************************************************************)
(* Proofs about ClusterStatus, for any cloud, topology, requests, timeouts  *)
(* and faults.                                                              *)
(*                                                                          *)
(* AnswerCoversHosts: the results still to be received are as many as there *)
(* are goroutines that have not ended, and those that have ended are the    *)
(* hosts of the answer (Join).  StatusInTime: each cluster that was looked  *)
(* at took no longer than the host timeout (Punctual), for while a result   *)
(* is missing some goroutine still waits, and that ends with the timeout.   *)
(***************************************************************************)
EXTENDS ClusterStatus, FiniteSetTheorems, TLAPS

USE DEF Goroutines, Entries

Pending(r) == {h \in DOMAIN gor[r] : gor[r][h].has # "ended"}

JoinOf(r) ==
    /\ st[r] # "gce" => gor[r] = NoHosts /\ entries[r] = NoHosts
    /\ st[r] = "gce" =>
          /\ left[r] = Cardinality(Pending(r))
          /\ DOMAIN entries[r] = DOMAIN gor[r] \ Pending(r)
          /\ \A h \in DOMAIN gor[r] : gor[r][h].asks = h

Join == \A r \in Req : JoinOf(r)

Looked(r) == Cardinality(asked[r] \ todo[r])

Discovered(r) == \A c \in asked[r] : Runtime[c] = "GCE"

PunctualOf(r) ==
    /\ todo[r] \subseteq asked[r]
    /\ st[r] = "gke" => at[r] \in asked[r] /\ Runtime[at[r]] = "GKE"
    /\ st[r] = "idle" => age[r] = 0 /\ asked[r] = {}
    /\ Discovered(r) =>
          /\ st[r] = "next" => age[r] <= Looked(r) * ReadTimeoutS
          /\ st[r] = "gce" => age[r] + ReadTimeoutS <= Looked(r) * ReadTimeoutS + since[r]
          /\ st[r] = "late" => WriteTimeoutS <= Cardinality(asked[r]) * ReadTimeoutS

Punctual == \A r \in Req : PunctualOf(r)

StatusInv == TypeOK /\ Join /\ Punctual
-----------------------------------------------------------------------------
\* The fetch and the cloud keep their types.
LEMMA CacheTyped ==
    ASSUME CacheTypeOK, CacheNext \/ CacheLost \/ UNCHANGED <<cloud, cacheVars>>
    PROVE  CacheTypeOK'
<1> USE CloudAssumption DEF CacheTypeOK
<1>1. CASE UNCHANGED <<cloud, cacheVars>>
  BY <1>1 DEF cacheVars
<1>2. CASE CacheLost
  <2>1. deaths' \in 0..MaxDeaths
    BY <1>2 DEF CacheLost
  <2> QED
    BY <1>2, <2>1 DEF CacheLost, NoInstances
<1>3. ASSUME NEW i \in Instance, InstanceComes(i) \/ InstanceGoes(i) PROVE CacheTypeOK'
  BY <1>3 DEF InstanceComes, InstanceGoes, cacheVars
<1>4. ASSUME NEW a \in Area, GetRegion(a, ZonesOf[a]) \/ RegionFails(a) PROVE CacheTypeOK'
  BY <1>4 DEF GetRegion, RegionFails, NoInstances
<1>5. ASSUME NEW z \in Zone, ListZone(z) PROVE CacheTypeOK'
  <2>1. PICK first \in [Id -> Instance] :
           found' = [id \in Id |-> IF found[id] # {} \/ Tagged(id, z) = {}
                                   THEN found[id] ELSE {first[id]}]
    BY <1>5 DEF ListZone
  <2>2. found' \in [Id -> SUBSET Instance]
    BY <2>1
  <2>3. listed' \in [Id -> SUBSET Instance]
    BY <1>5 DEF ListZone, Tagged
  <2> QED
    BY <1>5, <2>2, <2>3 DEF ListZone
<1>6. CASE WakeUp \/ ZoneFails
  BY <1>6 DEF WakeUp, ZoneFails
<1>7. CASE Set
  BY <1>7 DEF Set
<1> QED
  BY <1>1, <1>2, <1>3, <1>4, <1>5, <1>6, <1>7 DEF CacheNext

\* A map of some keys, and what TypeOK says of a request.
LEMMA MapShape ==
    ASSUME NEW Key, NEW Value, NEW f \in MapOf(Key, Value)
    PROVE  DOMAIN f \subseteq Key /\ f \in [DOMAIN f -> Value]
BY DEF MapOf

LEMMA MapMade ==
    ASSUME NEW Key, NEW Value, NEW keys \in SUBSET Key, NEW f \in [keys -> Value]
    PROVE  f \in MapOf(Key, Value)
BY DEF MapOf

LEMMA EmptyMap == ASSUME NEW Key, NEW Value PROVE NoHosts \in MapOf(Key, Value)
<1>1. NoHosts \in [{} -> Value]
  BY DEF NoHosts
<1> QED
  BY <1>1, MapMade

\* The hosts of a cluster are host names.
LEMMA HostsAreHosts ==
    ASSUME TypeOK, NEW c \in Cluster PROVE HostsFound(c) \in SUBSET Host
<1>1. cache[IdOf[c]] \in SUBSET Instance
  BY StatusAssumption DEF TypeOK, CacheTypeOK
<1>2. Static[c] \in SUBSET Host
  BY StatusAssumption
<1>3. ASSUME NEW i \in Instance PROVE HostOf[i, c] \in Host
  BY StatusAssumption
<1>4. {HostOf[i, c] : i \in cache[IdOf[c]]} \in SUBSET Host
  BY <1>1, <1>3
<1> QED
  BY <1>2, <1>4 DEF HostsFound
-----------------------------------------------------------------------------
\* What a step of a request leaves alone.
ReqTypeOK ==
    /\ st \in [Req -> {"idle", "next", "gce", "gke"} \cup Outcome]
    /\ asked \in [Req -> SUBSET Cluster]
    /\ todo \in [Req -> SUBSET Cluster]
    /\ at \in [Req -> Cluster \cup {NoCluster}]
    /\ gor \in [Req -> MapOf(Host, Goroutine)]
    /\ entries \in [Req -> MapOf(Host, {"status", "none"})]
    /\ left \in [Req -> Nat]
    /\ age \in [Req -> 0..WriteTimeoutS]
    /\ since \in [Req -> 0..ReadTimeoutS]

\* The handler's return.
LEMMA EndsTyped ==
    ASSUME ReqTypeOK, NEW r \in Req, NEW how \in Outcome, Ends(r, how)
    PROVE  ReqTypeOK'
BY StatusAssumption DEF ReqTypeOK, Ends, Outcome

LEMMA AnswerTyped ==
    ASSUME ReqTypeOK, NEW r \in Req, NEW how \in {"ok", "error"}, Answer(r, how)
    PROVE  ReqTypeOK'
<1>1. (IF age[r] < WriteTimeoutS THEN how ELSE "late") \in Outcome
  BY DEF Outcome
<1> QED
  BY <1>1, EndsTyped DEF Answer

\* One step of one request keeps the types.
LEMMA RequestTyped ==
    ASSUME TypeOK, NEW r \in Req, Ask(r) \/ Handler(r)
    PROVE  ReqTypeOK'
<1>0. ReqTypeOK
  BY DEF TypeOK, ReqTypeOK
<1> USE StatusAssumption DEF ReqTypeOK
<1>1. CASE Ask(r)
  <2>1. PICK cs \in Query :
           /\ asked' = [asked EXCEPT ![r] = cs]
           /\ todo' = [todo EXCEPT ![r] = cs]
           /\ \/ st' = [st EXCEPT ![r] = "next"]
              \/ st' = [st EXCEPT ![r] = "error"]
    BY <1>1 DEF Ask
  <2> QED
    BY <1>0, <1>1, <2>1 DEF Ask, Outcome
<1>2. CASE NextCluster(r)
  <2>1. PICK c \in todo[r] :
           /\ todo' = [todo EXCEPT ![r] = @ \ {c}]
           /\ at' = [at EXCEPT ![r] = c]
           /\ \/ Fork(r, HostsFound(c)) /\ st' = [st EXCEPT ![r] = "gce"]
              \/ st' = [st EXCEPT ![r] = "gke"] /\ UNCHANGED <<gor, left, since>>
    BY <1>2 DEF NextCluster
  <2>2. c \in Cluster
    BY <1>0
  <2>3. gor' \in [Req -> MapOf(Host, Goroutine)]
    <3>1. CASE Fork(r, HostsFound(c))
      <4> DEFINE g == [h \in HostsFound(c) |-> [asks |-> h, has |-> "nothing"]]
      <4>1. g \in [HostsFound(c) -> Goroutine]
        BY <2>2, HostsAreHosts DEF Goroutine
      <4>2. g \in MapOf(Host, Goroutine)
        BY <4>1, <2>2, HostsAreHosts, MapMade
      <4> HIDE DEF g
      <4> QED
        BY <1>0, <3>1, <4>2 DEF Fork, g
    <3> QED
      BY <1>0, <2>1, <3>1
  <2>4. left' \in [Req -> Nat] /\ since' \in [Req -> 0..ReadTimeoutS]
    <3>1. CASE Fork(r, HostsFound(c))
      <4>1. IsFiniteSet(HostsFound(c))
        BY <2>2, HostsAreHosts, FS_Subset
      <4>2. Cardinality(HostsFound(c)) \in Nat
        BY <4>1, FS_CardinalityType
      <4> QED
        BY <1>0, <3>1, <4>2 DEF Fork
    <3> QED
      BY <1>0, <2>1, <3>1
  <2>5. /\ todo' \in [Req -> SUBSET Cluster]
        /\ at' \in [Req -> Cluster \cup {NoCluster}]
        /\ st' \in [Req -> {"idle", "next", "gce", "gke"} \cup Outcome]
    BY <1>0, <2>1, <2>2
  <2> QED
    BY <1>0, <1>2, <2>3, <2>4, <2>5 DEF NextCluster
<1>3. CASE Unsupported(r) \/ Respond(r)
  BY <1>0, <1>3, AnswerTyped DEF Unsupported, Respond
<1>4. CASE AllReceived(r)
  BY <1>0, <1>4, EmptyMap DEF AllReceived
<1>5. CASE Pods(r)
  <2>1. CASE Answer(r, "error") \/ Ends(r, "dropped")
    BY <1>0, <2>1, AnswerTyped, EndsTyped DEF Outcome
  <2> QED
    BY <1>0, <1>5, <2>1 DEF Pods
<1>6. ASSUME NEW h \in Host, HostResult(r, h) PROVE ReqTypeOK'
  <2>1. /\ DOMAIN gor[r] \in SUBSET Host
        /\ gor[r] \in [DOMAIN gor[r] -> Goroutine]
        /\ h \in DOMAIN gor[r]
    BY <1>0, <1>6, MapShape DEF HostResult
  <2>2. PICK result \in {"none", "status"} :
           gor' = [gor EXCEPT ![r] = [gor[r] EXCEPT ![h] = [gor[r][h] EXCEPT !.has = result]]]
    BY <1>6 DEF HostResult
  <2>3. [gor[r][h] EXCEPT !.has = result] \in Goroutine
    BY <2>1 DEF Goroutine
  <2>4. [gor[r] EXCEPT ![h] = [gor[r][h] EXCEPT !.has = result]] \in [DOMAIN gor[r] -> Goroutine]
    BY <2>1, <2>3
  <2>5. gor' \in [Req -> MapOf(Host, Goroutine)]
    BY <1>0, <2>1, <2>2, <2>4, MapMade
  <2> QED
    BY <1>0, <1>6, <2>5 DEF HostResult
<1>7. ASSUME NEW h \in Host, Receive(r, h) PROVE ReqTypeOK'
  <2>1. /\ DOMAIN gor[r] \in SUBSET Host
        /\ gor[r] \in [DOMAIN gor[r] -> Goroutine]
        /\ h \in DOMAIN gor[r]
        /\ gor[r][h].has \in {"status", "none"}
    BY <1>0, <1>7, MapShape DEF Receive
  <2>2. gor' = [gor EXCEPT ![r] = [gor[r] EXCEPT ![h] = [gor[r][h] EXCEPT !.has = "ended"]]]
    BY <1>7 DEF Receive
  <2>3. [gor[r] EXCEPT ![h] = [gor[r][h] EXCEPT !.has = "ended"]] \in [DOMAIN gor[r] -> Goroutine]
    BY <2>1 DEF Goroutine
  <2>4. gor' \in [Req -> MapOf(Host, Goroutine)]
    BY <1>0, <2>1, <2>2, <2>3, MapMade
  <2> DEFINE keys == DOMAIN entries[r] \cup {gor[r][h].asks}
             e == [k \in keys |-> IF k = gor[r][h].asks THEN gor[r][h].has ELSE entries[r][k]]
  <2>5. DOMAIN entries[r] \in SUBSET Host /\ entries[r] \in [DOMAIN entries[r] -> {"status", "none"}]
    BY <1>0, MapShape
  <2>6. keys \in SUBSET Host /\ e \in [keys -> {"status", "none"}]
    BY <2>1, <2>5 DEF Goroutine
  <2>8. entries' = [entries EXCEPT ![r] = e]
    BY <1>7 DEF Receive
  <2> HIDE DEF e, keys
  <2>7. e \in MapOf(Host, {"status", "none"})
    BY <2>6, MapMade
  <2>9. entries' \in [Req -> MapOf(Host, {"status", "none"})]
    BY <1>0, <2>7, <2>8
  <2> QED
    BY <1>0, <1>7, <2>4, <2>9 DEF Receive
<1> QED
  BY <1>1, <1>2, <1>3, <1>4, <1>5, <1>6, <1>7 DEF Handler
-----------------------------------------------------------------------------
LEMMA PendingIsFinite ==
    ASSUME TypeOK, NEW r \in Req
    PROVE  IsFiniteSet(Pending(r)) /\ Pending(r) \subseteq Host
<1>1. DOMAIN gor[r] \subseteq Host
  BY MapShape DEF TypeOK
<1> QED
  BY <1>1, StatusAssumption, FS_Subset DEF Pending

\* A step of one request leaves the others as they are.
LEMMA OthersUnchanged ==
    ASSUME TypeOK, NEW r \in Req, Ask(r) \/ Handler(r), NEW q \in Req, q # r
    PROVE  /\ st'[q] = st[q] /\ asked'[q] = asked[q] /\ todo'[q] = todo[q] /\ at'[q] = at[q]
           /\ gor'[q] = gor[q] /\ left'[q] = left[q] /\ entries'[q] = entries[q]
           /\ age'[q] = age[q] /\ since'[q] = since[q]
<1> USE DEF TypeOK
<1>1. CASE Ask(r)
  BY <1>1 DEF Ask
<1>2. CASE NextCluster(r)
  BY <1>2 DEF NextCluster, Fork
<1>3. CASE Unsupported(r) \/ Respond(r) \/ Pods(r)
  BY <1>3 DEF Unsupported, Respond, Pods, Answer, Ends
<1>4. CASE AllReceived(r)
  BY <1>4 DEF AllReceived
<1>5. ASSUME NEW h \in Host, HostResult(r, h) \/ Receive(r, h)
      PROVE  /\ gor'[q] = gor[q] /\ left'[q] = left[q] /\ entries'[q] = entries[q]
             /\ UNCHANGED <<st, asked, todo, at, age, since>>
  BY <1>5 DEF HostResult, Receive
<1> QED
  BY <1>1, <1>2, <1>3, <1>4, <1>5 DEF Handler

\* Each step of a request keeps the books of its own goroutines.
LEMMA RequestJoins ==
    ASSUME TypeOK, NEW r \in Req, JoinOf(r), Ask(r) \/ Handler(r)
    PROVE  JoinOf(r)'
<1> USE DEF TypeOK
<1>1. CASE Ask(r)
  BY <1>1 DEF Ask, JoinOf, NoHosts
<1>2. CASE NextCluster(r)
  <2>1. PICK c \in todo[r] :
           \/ Fork(r, HostsFound(c)) /\ st' = [st EXCEPT ![r] = "gce"]
           \/ st' = [st EXCEPT ![r] = "gke"] /\ UNCHANGED <<gor, left, since>>
    BY <1>2 DEF NextCluster
  <2>2. CASE Fork(r, HostsFound(c)) /\ st' = [st EXCEPT ![r] = "gce"]
    <3>1. gor'[r] = [h \in HostsFound(c) |-> [asks |-> h, has |-> "nothing"]]
      BY <2>2 DEF Fork
    <3>2. Pending(r)' = HostsFound(c)
      BY <3>1 DEF Pending
    <3>3. left'[r] = Cardinality(Pending(r)')
      BY <2>2, <3>2 DEF Fork
    <3>4. entries'[r] = NoHosts
      BY <1>2 DEF NextCluster, JoinOf
    <3>5. DOMAIN entries'[r] = {}
      BY <3>4 DEF NoHosts
    <3> QED
      BY <2>2, <3>1, <3>2, <3>3, <3>5 DEF JoinOf
  <2>3. CASE st' = [st EXCEPT ![r] = "gke"] /\ UNCHANGED <<gor, left, since>>
    BY <1>2, <2>3 DEF NextCluster, JoinOf
  <2> QED
    BY <2>1, <2>2, <2>3
<1>3. CASE Unsupported(r) \/ Respond(r) \/ Pods(r)
  <2>1. gor' = gor /\ entries' = entries /\ st[r] # "gce" /\ st'[r] # "gce"
    BY <1>3 DEF Unsupported, Respond, Pods, Answer, Ends
  <2> QED
    BY <2>1 DEF JoinOf
<1>4. CASE AllReceived(r)
  BY <1>4 DEF AllReceived, JoinOf
<1>5. ASSUME NEW h \in Host, HostResult(r, h) PROVE JoinOf(r)'
  <2>1. /\ DOMAIN gor[r] \subseteq Host
        /\ gor[r] \in [DOMAIN gor[r] -> Goroutine]
        /\ h \in DOMAIN gor[r]
    BY <1>5, MapShape DEF HostResult
  <2>2. st[r] = "gce"
    BY <2>1 DEF JoinOf, NoHosts
  <2>3. PICK result \in {"none", "status"} :
           gor' = [gor EXCEPT ![r] = [gor[r] EXCEPT ![h] = [gor[r][h] EXCEPT !.has = result]]]
    BY <1>5 DEF HostResult
  <2>4. gor'[r] = [gor[r] EXCEPT ![h] = [gor[r][h] EXCEPT !.has = result]]
    BY <2>3
  <2>5. /\ DOMAIN gor'[r] = DOMAIN gor[r]
        /\ \A g \in DOMAIN gor[r] : gor'[r][g].asks = gor[r][g].asks
        /\ \A g \in DOMAIN gor[r] : gor'[r][g].has = "ended" <=> gor[r][g].has = "ended"
    BY <1>5, <2>1, <2>4 DEF Goroutine, HostResult
  <2>6. Pending(r)' = Pending(r)
    BY <2>5 DEF Pending
  <2>7. UNCHANGED <<st, left, entries>>
    BY <1>5 DEF HostResult
  <2> QED
    BY <2>2, <2>5, <2>6, <2>7 DEF JoinOf
<1>6. ASSUME NEW h \in Host, Receive(r, h) PROVE JoinOf(r)'
  <2>1. /\ DOMAIN gor[r] \subseteq Host
        /\ gor[r] \in [DOMAIN gor[r] -> Goroutine]
        /\ h \in DOMAIN gor[r]
        /\ gor[r][h].has \in {"status", "none"}
        /\ st[r] = "gce"
    BY <1>6, MapShape DEF Receive
  <2>2. gor'[r] = [gor[r] EXCEPT ![h] = [gor[r][h] EXCEPT !.has = "ended"]]
    BY <1>6 DEF Receive
  <2>3. /\ DOMAIN gor'[r] = DOMAIN gor[r]
        /\ \A g \in DOMAIN gor[r] : gor'[r][g].asks = gor[r][g].asks
        /\ \A g \in DOMAIN gor[r] \ {h} : gor'[r][g].has = gor[r][g].has
        /\ gor'[r][h].has = "ended"
    BY <2>1, <2>2 DEF Goroutine
  <2>4. Pending(r)' = Pending(r) \ {h} /\ h \in Pending(r)
    BY <2>1, <2>3 DEF Pending
  <2>5. Cardinality(Pending(r)') = Cardinality(Pending(r)) - 1
    BY <2>4, PendingIsFinite, FS_RemoveElement
  <2>6. left'[r] = left[r] - 1
    BY <1>6 DEF Receive
  <2>7. gor[r][h].asks = h
    BY <2>1 DEF JoinOf
  <2>8. DOMAIN entries'[r] = DOMAIN entries[r] \cup {h}
    BY <1>6, <2>7 DEF Receive
  <2>9. st' = st
    BY <1>6 DEF Receive
  <2> QED
    BY <2>1, <2>3, <2>4, <2>5, <2>6, <2>8, <2>9 DEF JoinOf
<1> QED
  BY <1>1, <1>2, <1>3, <1>4, <1>5, <1>6 DEF Handler
-----------------------------------------------------------------------------
LEMMA LookedIsNat ==
    ASSUME TypeOK, NEW r \in Req
    PROVE  /\ IsFiniteSet(asked[r]) /\ IsFiniteSet(todo[r])
           /\ Looked(r) \in Nat /\ Cardinality(asked[r]) \in Nat
<1>1. asked[r] \subseteq Cluster /\ todo[r] \subseteq Cluster
  BY DEF TypeOK
<1>2. IsFiniteSet(asked[r]) /\ IsFiniteSet(todo[r]) /\ IsFiniteSet(asked[r] \ todo[r])
  BY <1>1, StatusAssumption, FS_Subset
<1> QED
  BY <1>2, FS_CardinalityType DEF Looked

\* A cluster more takes one host timeout more.
LEMMA OneMore ==
    ASSUME NEW n \in Nat, NEW t \in Nat
    PROVE  (n + 1) * t = n * t + t
OBVIOUS

\* Ending a request that was in time says nothing wrong of its lateness.
LEMMA EndsPunctually ==
    ASSUME TypeOK, NEW r \in Req, PunctualOf(r), NEW how \in Outcome, Ends(r, how),
           how = "late" /\ Discovered(r) =>
               WriteTimeoutS <= Cardinality(asked[r]) * ReadTimeoutS
    PROVE  PunctualOf(r)'
<1>1. /\ st'[r] = how /\ todo'[r] = {} /\ asked' = asked
  BY DEF TypeOK, Ends
<1> QED
  BY <1>1 DEF PunctualOf, Discovered, Outcome

LEMMA RequestIsPunctual ==
    ASSUME TypeOK, NEW r \in Req, PunctualOf(r), JoinOf(r), Ask(r) \/ Handler(r)
    PROVE  PunctualOf(r)'
<1> USE StatusAssumption DEF TypeOK
<1>1. CASE Ask(r)
  <2>1. PICK cs \in Query :
           /\ asked' = [asked EXCEPT ![r] = cs]
           /\ todo' = [todo EXCEPT ![r] = cs]
           /\ \/ st' = [st EXCEPT ![r] = "next"]
              \/ st' = [st EXCEPT ![r] = "error"]
    BY <1>1 DEF Ask
  <2>2. age'[r] = 0
    BY <1>1 DEF Ask, PunctualOf
  <2>3. asked'[r] = cs /\ todo'[r] = cs /\ st'[r] \in {"next", "error"}
    BY <2>1
  <2>4. Looked(r)' = 0
    BY <2>3, FS_EmptySet DEF Looked
  <2> QED
    BY <2>2, <2>3, <2>4 DEF PunctualOf
<1>2. CASE NextCluster(r)
  <2>1. PICK c \in todo[r] :
           /\ todo' = [todo EXCEPT ![r] = @ \ {c}]
           /\ at' = [at EXCEPT ![r] = c]
           /\ \/ Fork(r, HostsFound(c)) /\ st' = [st EXCEPT ![r] = "gce"]
              \/ Runtime[c] = "GKE" /\ st' = [st EXCEPT ![r] = "gke"]
    BY <1>2 DEF NextCluster
  <2>2. st[r] = "next" /\ age' = age /\ asked' = asked
    BY <1>2 DEF NextCluster
  <2>3. todo'[r] = todo[r] \ {c} /\ at'[r] = c /\ c \in asked[r] /\ st'[r] \in {"gce", "gke"}
    BY <2>1 DEF PunctualOf
  <2>4. asked'[r] \ todo'[r] = (asked[r] \ todo[r]) \cup {c} /\ c \notin asked[r] \ todo[r]
    BY <2>1, <2>2, <2>3
  <2>5. Looked(r)' = Looked(r) + 1
    <3>1. IsFiniteSet(asked[r] \ todo[r])
      BY LookedIsNat, FS_Subset
    <3>2. Cardinality((asked[r] \ todo[r]) \cup {c}) = Cardinality(asked[r] \ todo[r]) + 1
      BY <2>4, <3>1, FS_AddElement
    <3> QED
      BY <2>4, <3>2 DEF Looked
  <2>6. ASSUME Discovered(r), st'[r] = "gce"
        PROVE  age'[r] + ReadTimeoutS <= Looked(r)' * ReadTimeoutS + since'[r]
    <3>1. since'[r] = 0
      BY <2>1, <2>6 DEF Fork
    <3>2. Looked(r)' * ReadTimeoutS = Looked(r) * ReadTimeoutS + ReadTimeoutS
      BY <2>5, LookedIsNat, OneMore
    <3>3. age[r] <= Looked(r) * ReadTimeoutS
      BY <2>2, <2>6 DEF PunctualOf
    <3>4. Looked(r) * ReadTimeoutS \in Nat
      BY LookedIsNat
    <3> QED
      BY <2>2, <3>1, <3>2, <3>3, <3>4
  <2>7. st'[r] = "gke" => Runtime[at'[r]] = "GKE"
    BY <2>1, <2>3
  <2>8. Discovered(r)' <=> Discovered(r)
    BY <2>2 DEF Discovered
  <2> QED
    BY <2>2, <2>3, <2>6, <2>7, <2>8 DEF PunctualOf
<1>3. CASE Unsupported(r)
  <2>1. ~Discovered(r)
    BY <1>3 DEF Unsupported, Discovered, PunctualOf
  <2> QED
    BY <1>3, <2>1, EndsPunctually DEF Unsupported, Answer, Outcome
<1>4. CASE Respond(r)
  <2>1. Looked(r) = Cardinality(asked[r])
    <3>1. asked[r] \ todo[r] = asked[r]
      BY <1>4 DEF Respond
    <3> QED
      BY <3>1 DEF Looked
  <2>2. Discovered(r) => age[r] <= Cardinality(asked[r]) * ReadTimeoutS
    BY <1>4, <2>1 DEF Respond, PunctualOf
  <2>3. Cardinality(asked[r]) * ReadTimeoutS \in Nat /\ age[r] \in Nat
    BY LookedIsNat
  <2>4. CASE age[r] < WriteTimeoutS
    BY <1>4, <2>4, EndsPunctually DEF Respond, Answer, Outcome
  <2>5. CASE ~(age[r] < WriteTimeoutS)
    <3>1. Discovered(r) => WriteTimeoutS <= Cardinality(asked[r]) * ReadTimeoutS
      BY <2>2, <2>3, <2>5
    <3> QED
      BY <1>4, <2>5, <3>1, EndsPunctually DEF Respond, Answer, Outcome
  <2> QED
    BY <2>4, <2>5
<1>5. CASE AllReceived(r)
  <2>1. /\ st[r] = "gce" /\ st'[r] = "next"
        /\ UNCHANGED <<asked, todo, age>>
    BY <1>5 DEF AllReceived
  <2>2. Looked(r)' = Looked(r) /\ (Discovered(r)' <=> Discovered(r))
    BY <2>1 DEF Looked, Discovered
  <2>3. since[r] <= ReadTimeoutS /\ Looked(r) * ReadTimeoutS \in Nat /\ since[r] \in Nat /\ age[r] \in Nat
    BY LookedIsNat
  <2>4. Discovered(r) => age'[r] <= Looked(r)' * ReadTimeoutS
    <3>1. Discovered(r) => age[r] + ReadTimeoutS <= Looked(r) * ReadTimeoutS + since[r]
      BY <2>1 DEF PunctualOf
    <3> QED
      BY <2>1, <2>2, <2>3, <3>1
  <2> QED
    BY <2>1, <2>2, <2>4 DEF PunctualOf
<1>6. CASE Pods(r)
  <2>1. ~Discovered(r) /\ st[r] = "gke"
    BY <1>6 DEF Pods, Discovered, PunctualOf
  <2>2. CASE Answer(r, "error") \/ Ends(r, "dropped")
    BY <2>1, <2>2, EndsPunctually DEF Answer, Outcome
  <2>3. CASE st' = [st EXCEPT ![r] = "next"] /\ UNCHANGED <<asked, todo, age>>
    <3>1. ~Discovered(r)' /\ st'[r] = "next"
      BY <2>1, <2>3 DEF Discovered
    <3> QED
      BY <2>3, <3>1 DEF PunctualOf
  <2> QED
    BY <1>6, <2>2, <2>3 DEF Pods
<1>7. ASSUME NEW h \in Host, HostResult(r, h) \/ Receive(r, h) PROVE PunctualOf(r)'
  <2>1. UNCHANGED <<st, asked, todo, at, age, since>>
    BY <1>7 DEF HostResult, Receive
  <2> QED
    BY <2>1 DEF PunctualOf, Looked, Discovered
<1> QED
  BY <1>1, <1>2, <1>3, <1>4, <1>5, <1>6, <1>7 DEF Handler

\* While a second passes, a request that waits for hosts has waited less than the host
\* timeout: a result is missing, so some goroutine has none.
LEMMA SecondIsPunctual ==
    ASSUME TypeOK, NEW r \in Req, PunctualOf(r), JoinOf(r), Tick
    PROVE  PunctualOf(r)'
<1> USE StatusAssumption DEF TypeOK
<1>1. UNCHANGED <<st, asked, todo, at, gor, left>> /\ InTime(r)
  BY DEF Tick
<1>2. Looked(r)' = Looked(r) /\ (Discovered(r)' <=> Discovered(r))
  BY <1>1 DEF Looked, Discovered
<1>3. st[r] # "next" /\ (st[r] = "idle" => age'[r] = age[r])
  BY <1>1 DEF InTime, Tick, Busy, Outcome
<1>4. ASSUME Discovered(r), st[r] = "gce"
      PROVE  age'[r] + ReadTimeoutS <= Looked(r) * ReadTimeoutS + since'[r]
  <2>1. Pending(r) # {}
    <3>1. left[r] > 0
      BY <1>1, <1>4 DEF InTime
    <3>2. left[r] = Cardinality(Pending(r))
      BY <1>4 DEF JoinOf
    <3> QED
      BY <3>1, <3>2, PendingIsFinite, FS_EmptySet
  <2>2. since[r] < ReadTimeoutS
    BY <1>1, <1>4, <2>1 DEF InTime, Pending
  <2>3. since'[r] = since[r] + 1
    BY <1>4, <2>2 DEF Tick, Later
  <2>4. age'[r] <= age[r] + 1
    BY DEF Tick, Later
  <2>5. age[r] + ReadTimeoutS <= Looked(r) * ReadTimeoutS + since[r]
    BY <1>4 DEF PunctualOf
  <2>6. Looked(r) * ReadTimeoutS \in Nat /\ age[r] \in Nat /\ since[r] \in Nat /\ age'[r] \in Nat
    BY LookedIsNat DEF Tick, Later
  <2> QED
    BY <2>3, <2>4, <2>5, <2>6
<1> QED
  BY <1>1, <1>2, <1>3, <1>4 DEF PunctualOf
-----------------------------------------------------------------------------
\* No request is under way at first.
LEMMA InitiallyGood == Init => StatusInv
<1> SUFFICES ASSUME Init PROVE StatusInv
  OBVIOUS
<1> USE StatusAssumption DEF Init
<1>1. CacheTypeOK
  BY CloudAssumption DEF CacheInit, CacheTypeOK, NoInstances
<1>2. TypeOK
  <2>1. gor \in [Req -> MapOf(Host, Goroutine)]
    BY EmptyMap
  <2>2. entries \in [Req -> MapOf(Host, {"status", "none"})]
    BY EmptyMap
  <2> QED
    BY <1>1, <2>1, <2>2 DEF TypeOK
<1>3. Join
  BY DEF Join, JoinOf
<1>4. Punctual
  BY DEF Punctual, PunctualOf
<1> QED
  BY <1>2, <1>3, <1>4 DEF StatusInv

\* An API that dies takes its requests with it, and a new one starts without any.
LEMMA DeathIsGood ==
    ASSUME StatusInv, ApiDies PROVE StatusInv'
<1> USE StatusAssumption DEF StatusInv
<1>1. TypeOK'
  <2>1. CacheTypeOK'
    BY CacheTyped DEF ApiDies, TypeOK
  <2>2. gor' \in [Req -> MapOf(Host, Goroutine)] /\ entries' \in [Req -> MapOf(Host, {"status", "none"})]
    BY EmptyMap DEF ApiDies
  <2>3. st' \in [Req -> {"idle", "next", "gce", "gke"} \cup Outcome]
    BY DEF ApiDies, TypeOK, Outcome
  <2> QED
    BY <2>1, <2>2, <2>3 DEF ApiDies, TypeOK
<1>2. \A r \in Req : st'[r] = st[r] \/ st'[r] = "dropped"
  BY DEF ApiDies
<1>3. \A r \in Req : st'[r] \notin {"next", "gce", "gke"}
  BY <1>2 DEF ApiDies, Busy, Outcome, TypeOK
<1>4. Join'
  BY <1>3 DEF ApiDies, Join, JoinOf
<1>5. Punctual'
  <2> SUFFICES ASSUME NEW r \in Req PROVE PunctualOf(r)'
    BY DEF Punctual
  <2>1. /\ asked' = asked /\ todo'[r] = {} /\ age'[r] = 0
        /\ st'[r] = "idle" => st[r] = "idle"
        /\ st'[r] = "late" => st[r] = "late"
    BY <1>2 DEF ApiDies
  <2>2. PunctualOf(r)
    BY DEF Punctual
  <2> QED
    BY <1>3, <2>1, <2>2 DEF PunctualOf, Discovered
<1> QED
  BY <1>1, <1>4, <1>5

\* Steps that leave the goroutines alone.
LEMMA JoinStays == ASSUME Join, UNCHANGED <<st, gor, left, entries>> PROVE Join'
<1> SUFFICES ASSUME NEW r \in Req PROVE JoinOf(r)'
  BY DEF Join
<1>1. Pending(r)' = Pending(r)
  BY DEF Pending
<1>2. JoinOf(r)
  BY DEF Join
<1> QED
  BY <1>1, <1>2 DEF JoinOf

\* Every step preserves the invariant.
LEMMA StepIsGood == StatusInv /\ [Next]_vars => StatusInv'
<1> SUFFICES ASSUME StatusInv, [Next]_vars PROVE StatusInv'
  OBVIOUS
<1> USE StatusAssumption DEF StatusInv
<1>1. CASE (CacheNext /\ UNCHANGED reqVars) \/ UNCHANGED vars
  <2>1. CacheTypeOK' /\ UNCHANGED reqVars
    BY <1>1, CacheTyped DEF TypeOK, vars
  <2>2. TypeOK'
    BY <2>1 DEF TypeOK, reqVars
  <2>3. Join'
    BY <2>1, JoinStays DEF reqVars
  <2>4. Punctual'
    BY <2>1 DEF Punctual, PunctualOf, Looked, Discovered, reqVars
  <2> QED
    BY <2>2, <2>3, <2>4
<1>2. ASSUME NEW r \in Req, Ask(r) \/ Handler(r), UNCHANGED <<cloud, cacheVars>>
      PROVE  StatusInv'
  <2>1. TypeOK'
    <3>1. CacheTypeOK'
      BY <1>2, CacheTyped DEF TypeOK
    <3> QED
      BY <1>2, <3>1, RequestTyped DEF TypeOK, ReqTypeOK
  <2>2. JoinOf(r)' /\ PunctualOf(r)'
    BY <1>2, RequestJoins, RequestIsPunctual DEF Join, Punctual
  <2>3. ASSUME NEW q \in Req, q # r PROVE JoinOf(q)' /\ PunctualOf(q)'
    <3>1. /\ st'[q] = st[q] /\ asked'[q] = asked[q] /\ todo'[q] = todo[q] /\ at'[q] = at[q]
          /\ gor'[q] = gor[q] /\ left'[q] = left[q] /\ entries'[q] = entries[q]
          /\ age'[q] = age[q] /\ since'[q] = since[q]
      BY <1>2, <2>3, OthersUnchanged
    <3>2. JoinOf(q) /\ PunctualOf(q)
      BY DEF Join, Punctual
    <3>3. JoinOf(q)'
      BY <3>1, <3>2 DEF JoinOf, Pending
    <3>4. PunctualOf(q)'
      BY <3>1, <3>2 DEF PunctualOf, Looked, Discovered
    <3> QED
      BY <3>3, <3>4
  <2> QED
    BY <2>1, <2>2, <2>3 DEF Join, Punctual
<1>3. CASE Tick
  <2>1. TypeOK'
    <3>1. CacheTypeOK'
      BY <1>3, CacheTyped DEF TypeOK, Tick
    <3>2. age' \in [Req -> 0..WriteTimeoutS] /\ since' \in [Req -> 0..ReadTimeoutS]
      BY <1>3 DEF Tick, Later, TypeOK
    <3> QED
      BY <1>3, <3>1, <3>2 DEF Tick, TypeOK
  <2>2. Join'
    BY <1>3, JoinStays DEF Tick
  <2>3. Punctual'
    BY <1>3, SecondIsPunctual DEF Join, Punctual
  <2> QED
    BY <2>1, <2>2, <2>3
<1>4. CASE ApiDies
  BY <1>4, DeathIsGood
<1> QED
  BY <1>1, <1>2, <1>3, <1>4 DEF Next

\* The invariant holds for any cloud, topology, timeouts, requests and faults.
THEOREM StatusInvariant == Spec => []StatusInv
<1>1. Init => StatusInv
  BY InitiallyGood
<1>2. StatusInv /\ [Next]_vars => StatusInv'
  BY StepIsGood
<1> QED
  BY <1>1, <1>2, PTL DEF Spec

\* Every variable of the cache and of the requests keeps its type.
THEOREM StatusTyped == Spec => []TypeOK
<1>1. StatusInv => TypeOK
  BY DEF StatusInv
<1> QED
  BY <1>1, StatusInvariant, PTL

\* The results of a cluster are one for each host found, whatever the cache does
\* meanwhile and whatever fails (api/api/status.go:228-253).
THEOREM AnswerCoversHostsAlways == Spec => []AnswerCoversHosts
<1>1. StatusInv => AnswerCoversHosts
  <2> SUFFICES ASSUME StatusInv, NEW r \in Req
               PROVE  /\ st[r] = "gce" /\ left[r] = 0 =>
                            /\ DOMAIN entries[r] = DOMAIN gor[r]
                            /\ \A h \in DOMAIN gor[r] : gor[r][h].has = "ended"
                      /\ st[r] # "gce" => \A h \in DOMAIN gor[r] : gor[r][h].has = "ended"
    BY DEF AnswerCoversHosts
  <2>1. JoinOf(r) /\ IsFiniteSet(Pending(r))
    BY PendingIsFinite DEF StatusInv, Join
  <2>2. CASE st[r] = "gce" /\ left[r] = 0
    <3>1. Pending(r) = {}
      BY <2>1, <2>2, FS_EmptySet DEF JoinOf
    <3> QED
      BY <2>1, <2>2, <3>1 DEF JoinOf, Pending
  <2>3. CASE st[r] # "gce"
    <3>1. DOMAIN gor[r] = {}
      BY <2>1, <2>3 DEF JoinOf, NoHosts
    <3> QED
      BY <2>3, <3>1
  <2> QED
    BY <2>2, <2>3
<1> QED
  BY <1>1, StatusInvariant, PTL

\* A response about n clusters found on GCE is in time if n host timeouts are shorter than
\* the write timeout, however many hosts hang (api/api/status.go:228-266).
THEOREM StatusInTimeAlways == Spec => []StatusInTime
<1>1. StatusInv => StatusInTime
  <2> SUFFICES ASSUME StatusInv, NEW r \in Req, st[r] = "late", Discovered(r)
               PROVE  Cardinality(asked[r]) * ReadTimeoutS >= WriteTimeoutS
    BY DEF StatusInTime, Discovered
  <2>1. WriteTimeoutS <= Cardinality(asked[r]) * ReadTimeoutS
    BY DEF StatusInv, Punctual, PunctualOf
  <2>2. Cardinality(asked[r]) * ReadTimeoutS \in Nat /\ WriteTimeoutS \in Nat
    BY LookedIsNat, StatusAssumption DEF StatusInv
  <2> QED
    BY <2>1, <2>2
<1> QED
  BY <1>1, StatusInvariant, PTL

\* No fetch takes all hosts of a cluster away, also one that fails half way
\* (api/runners/gce-cache.go:25-32).
THEOREM KnownHostsStayAlways == Spec => KnownHostsStay
<1> DEFINE Stays == \A id \in Id : cache[id] # {} => cache'[id] # {} \/ deaths' # deaths
<1>1. TypeOK /\ [Next]_vars => [Stays]_vars
  <2> SUFFICES ASSUME TypeOK, Next PROVE Stays
    OBVIOUS
  <2>1. CASE Set
    BY <2>1 DEF Set
  <2>2. CASE ApiDies
    BY <2>2 DEF ApiDies, CacheLost, TypeOK, CacheTypeOK
  <2>3. CASE cache' = cache
    BY <2>3
  <2>4. Set \/ ApiDies \/ cache' = cache
    BY DEF Next, CacheNext, InstanceComes, InstanceGoes, GetRegion, RegionFails, ListZone,
           WakeUp, ZoneFails, Tick, cacheVars
  <2> QED
    BY <2>1, <2>2, <2>3, <2>4
<1> QED
  BY <1>1, StatusTyped, PTL DEF Spec, KnownHostsStay
=============================================================================
