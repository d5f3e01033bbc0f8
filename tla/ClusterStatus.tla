---------------------------- MODULE ClusterStatus ----------------------------
(***************************************************************************)
(* GET /status of the API (api/api/status.go, findClusterById in            *)
(* api/api/api.go) over the instance cache.  A path names one cluster, or   *)
(* with "any" all that match; they are looked at one after the other.  For  *)
(* a GCE cluster a goroutine per host asks that host's daemon and sends the *)
(* result on an unbuffered channel, and the handler receives as many        *)
(* results as there are hosts.  A host that does not answer has no status.  *)
(* The HTTP server writes nothing after its write timeout.                  *)
(*                                                                         *)
(* Time passes in seconds while hosts or Kubernetes are waited for; what    *)
(* the API computes takes none.                                             *)
(***************************************************************************)
EXTENDS GceCache, FiniteSets

CONSTANTS
    Req,            \* requests, each made once
    Cluster,        \* the clusters of all environments in the topology
    NoCluster,
    IdOf,           \* [Cluster -> Id]: environments may share an id
    Runtime,        \* [Cluster -> {"GCE", "GKE", "other"}]
    Static,         \* the hosts named in the configuration
    HostOf,         \* the host name of an instance in the domain of a cluster's environment
    Host,
    Query,          \* the sets of clusters that a path matches
    ReadTimeoutS,   \* how long a host is waited for
    WriteTimeoutS   \* how long after the request a response can still be written

ASSUME StatusAssumption ==
    /\ NoCluster \notin Cluster
    /\ IdOf \in [Cluster -> Id]
    /\ Runtime \in [Cluster -> {"GCE", "GKE", "other"}]
    /\ Static \in [Cluster -> SUBSET Host]
    /\ HostOf \in [Instance \X Cluster -> Host]
    /\ Query \subseteq SUBSET Cluster
    /\ IsFiniteSet(Cluster) /\ IsFiniteSet(Host)
    /\ ReadTimeoutS \in Nat \ {0} /\ WriteTimeoutS \in Nat \ {0}

VARIABLES
    st,         \* where each request is, and at last what became of it
    asked,      \* the clusters it is about
    todo,       \* those not yet looked at
    at,         \* the one looked at
    gor,        \* a goroutine per host of that cluster: whom it asks, and what it has got
    left,       \* how many results are still to be received
    entries,    \* HostStatuses of that cluster: "status", or "none" for null
    age,        \* seconds since the request, up to WriteTimeoutS
    since       \* seconds since the goroutines were started

reqVars == <<st, asked, todo, at, gor, left, entries, age, since>>
vars == <<cloud, cacheVars, reqVars>>

\* "dropped": the connection is closed without an answer; "late": after the write timeout.
Outcome == {"ok", "error", "late", "dropped"}

NoHosts == [h \in {} |-> {}]

\* Maps, with any of the keys.
MapOf(Key, Value) == UNION {[keys -> Value] : keys \in SUBSET Key}

Goroutine == [asks : Host, has : {"nothing", "status", "none", "ended"}]
Goroutines == MapOf(Host, Goroutine)
Entries == MapOf(Host, {"status", "none"})

TypeOK ==
    /\ CacheTypeOK
    /\ st \in [Req -> {"idle", "next", "gce", "gke"} \cup Outcome]
    /\ asked \in [Req -> SUBSET Cluster]
    /\ todo \in [Req -> SUBSET Cluster]
    /\ at \in [Req -> Cluster \cup {NoCluster}]
    /\ gor \in [Req -> Goroutines]
    /\ entries \in [Req -> Entries]
    /\ left \in [Req -> Nat]
    /\ age \in [Req -> 0..WriteTimeoutS]
    /\ since \in [Req -> 0..ReadTimeoutS]

Init ==
    /\ CacheInit
    /\ st = [r \in Req |-> "idle"]
    /\ asked = [r \in Req |-> {}]
    /\ todo = [r \in Req |-> {}]
    /\ at = [r \in Req |-> NoCluster]
    /\ gor = [r \in Req |-> NoHosts]
    /\ left = [r \in Req |-> 0]
    /\ entries = [r \in Req |-> NoHosts]
    /\ age = [r \in Req |-> 0]
    /\ since = [r \in Req |-> 0]
-----------------------------------------------------------------------------
(* The handler *)

\* The handler returns, and what it knew is gone.
Ends(r, how) ==
    /\ st' = [st EXCEPT ![r] = how]
    /\ todo' = [todo EXCEPT ![r] = {}]
    /\ at' = [at EXCEPT ![r] = NoCluster]
    /\ age' = [age EXCEPT ![r] = 0]
    /\ UNCHANGED <<asked, gor, left, entries, since>>

\* What is left of the write timeout decides whether the client gets the answer.
Answer(r, how) == Ends(r, IF age[r] < WriteTimeoutS THEN how ELSE "late")

\* A path that names one cluster and matches none is an error; with "any" it is a list.
Ask(r) ==
    /\ st[r] = "idle"
    /\ \E cs \in Query :
          /\ asked' = [asked EXCEPT ![r] = cs]
          /\ todo' = [todo EXCEPT ![r] = cs]
          /\ \/ st' = [st EXCEPT ![r] = "next"]
             \/ cs = {} /\ st' = [st EXCEPT ![r] = "error"]
    /\ UNCHANGED <<at, gor, left, entries, age, since>>

\* findClusterById: the hosts of the configuration, or else those in the cache now.
HostsFound(c) ==
    IF Static[c] # {} THEN Static[c] ELSE {HostOf[i, c] : i \in cache[IdOf[c]]}

Fork_OneName(r, hosts) ==
    /\ \E name \in Host :
          gor' = [gor EXCEPT ![r] = [h \in hosts |-> [asks |-> name, has |-> "nothing"]]]
    /\ left' = [left EXCEPT ![r] = Cardinality(hosts)]
    /\ since' = [since EXCEPT ![r] = 0]

\* One goroutine per host, and as many results to wait for.
Fork(r, hosts) ==
    /\ gor' = [gor EXCEPT ![r] = [h \in hosts |-> [asks |-> h, has |-> "nothing"]]]
    /\ left' = [left EXCEPT ![r] = Cardinality(hosts)]
    /\ since' = [since EXCEPT ![r] = 0]

\* GetClusterStatus of the next cluster, by its runtime.
NextCluster(r) ==
    /\ st[r] = "next"
    /\ \E c \in todo[r] :
          /\ todo' = [todo EXCEPT ![r] = @ \ {c}]
          /\ at' = [at EXCEPT ![r] = c]
          /\ \/ /\ Runtime[c] = "GCE"
                /\ Fork(r, HostsFound(c))
                /\ st' = [st EXCEPT ![r] = "gce"]
             \/ /\ Runtime[c] = "GKE"
                /\ st' = [st EXCEPT ![r] = "gke"]
                /\ UNCHANGED <<gor, left, since>>
    /\ UNCHANGED <<asked, entries, age>>

\* One cluster that cannot be looked at is the end of the whole request.
Unsupported(r) ==
    /\ st[r] = "next"
    /\ \E c \in todo[r] : Runtime[c] = "other"
    /\ Answer(r, "error")

Respond(r) ==
    /\ st[r] = "next"
    /\ todo[r] = {}
    /\ Answer(r, "ok")

\* A host named by the configuration, or that of an instance that is still there.
Reachable(h) ==
    \/ \E c \in Cluster : h \in Static[c]
    \/ \E i \in Instance, c \in Cluster : HostOf[i, c] = h /\ cloud[i] = "live"

HostResult_ErrorNotSent(r, h) ==
    /\ h \in DOMAIN gor[r]
    /\ gor[r][h].has = "nothing"
    /\ \E result \in {"ended"} \cup (IF Reachable(gor[r][h].asks) THEN {"status"} ELSE {}) :
          gor' = [gor EXCEPT ![r][h].has = result]
    /\ UNCHANGED <<st, asked, todo, at, left, entries, age, since>>

\* GetHostStatus: the daemon's answer, which has a status of the app or not; or an error,
\* at the latest when the client's timeout is over.
HostResult(r, h) ==
    /\ h \in DOMAIN gor[r]
    /\ gor[r][h].has = "nothing"
    /\ \E result \in {"none"} \cup (IF Reachable(gor[r][h].asks) THEN {"status"} ELSE {}) :
          gor' = [gor EXCEPT ![r][h].has = result]
    /\ UNCHANGED <<st, asked, todo, at, left, entries, age, since>>

Receive_Closed(r, h) ==
    /\ st[r] = "gce"
    /\ left[r] > 0
    /\ h \in DOMAIN gor[r]
    /\ gor[r][h].has # "ended"
    /\ LET key == gor[r][h].asks
       IN  entries' = [entries EXCEPT ![r] =
                          [k \in DOMAIN @ \cup {key} |-> IF k = key THEN gor[r][h].has
                                                         ELSE @[k]]]
    /\ gor' = [gor EXCEPT ![r][h].has = "ended"]
    /\ left' = [left EXCEPT ![r] = @ - 1]
    /\ UNCHANGED <<st, asked, todo, at, age, since>>

\* The channel has no buffer: a send is a receive, and the goroutine ends.
Receive(r, h) ==
    /\ st[r] = "gce"
    /\ left[r] > 0
    /\ h \in DOMAIN gor[r]
    /\ gor[r][h].has \in {"status", "none"}
    /\ LET key == gor[r][h].asks
       IN  entries' = [entries EXCEPT ![r] =
                          [k \in DOMAIN @ \cup {key} |-> IF k = key THEN gor[r][h].has
                                                         ELSE @[k]]]
    /\ gor' = [gor EXCEPT ![r][h].has = "ended"]
    /\ left' = [left EXCEPT ![r] = @ - 1]
    /\ UNCHANGED <<st, asked, todo, at, age, since>>

\* GetClusterStatusGCE returns, and its result is appended to the others.
AllReceived(r) ==
    /\ st[r] = "gce"
    /\ left[r] = 0
    /\ st' = [st EXCEPT ![r] = "next"]
    /\ at' = [at EXCEPT ![r] = NoCluster]
    /\ gor' = [gor EXCEPT ![r] = NoHosts]
    /\ entries' = [entries EXCEPT ![r] = NoHosts]
    /\ since' = [since EXCEPT ![r] = 0]
    /\ UNCHANGED <<asked, todo, left, age>>

\* GetClusterStatusGKE: the app's pods; no list of them is an error, and a pod that has
\* no container status yet is an index out of range, which net/http recovers from by
\* closing the connection.
Pods(r) ==
    /\ st[r] = "gke"
    /\ \/ /\ st' = [st EXCEPT ![r] = "next"]
          /\ at' = [at EXCEPT ![r] = NoCluster]
          /\ UNCHANGED <<asked, todo, gor, left, entries, age, since>>
       \/ Answer(r, "error")
       \/ Ends(r, "dropped")

Handler(r) ==
    \/ NextCluster(r) \/ Unsupported(r) \/ Respond(r) \/ AllReceived(r) \/ Pods(r)
    \/ \E h \in Host : HostResult(r, h) \/ Receive(r, h)
-----------------------------------------------------------------------------
(* Time and deaths *)

Busy(r) == st[r] \notin {"idle"} \cup Outcome

InTime_NoClientTimeout(r) ==
    /\ st[r] = "gce" => left[r] > 0 /\ \A h \in DOMAIN gor[r] : gor[r][h].has \in {"nothing", "ended"}
    /\ st[r] # "next"

\* A second may pass: r has nothing to do but wait, and the client's timeout is not over.
InTime(r) ==
    /\ st[r] # "next"
    /\ st[r] = "gce" =>
          /\ left[r] > 0
          /\ \A h \in DOMAIN gor[r] : \/ gor[r][h].has = "ended"
                                      \/ gor[r][h].has = "nothing" /\ since[r] < ReadTimeoutS

Later(x, most) == IF x < most THEN x + 1 ELSE most

Tick ==
    /\ \A r \in Req : InTime(r)
    /\ age' = [r \in Req |-> IF Busy(r) THEN Later(age[r], WriteTimeoutS) ELSE age[r]]
    /\ since' = [r \in Req |-> IF st[r] = "gce" THEN Later(since[r], ReadTimeoutS)
                               ELSE since[r]]
    /\ UNCHANGED <<cloud, cacheVars, st, asked, todo, at, gor, left, entries>>

ApiDies ==
    /\ CacheLost
    /\ st' = [r \in Req |-> IF Busy(r) THEN "dropped" ELSE st[r]]
    /\ todo' = [r \in Req |-> {}]
    /\ at' = [r \in Req |-> NoCluster]
    /\ gor' = [r \in Req |-> NoHosts]
    /\ left' = [r \in Req |-> 0]
    /\ entries' = [r \in Req |-> NoHosts]
    /\ age' = [r \in Req |-> 0]
    /\ since' = [r \in Req |-> 0]
    /\ UNCHANGED asked

Next ==
    \/ CacheNext /\ UNCHANGED reqVars
    \/ \E r \in Req : (Ask(r) \/ Handler(r)) /\ UNCHANGED <<cloud, cacheVars>>
    \/ Tick
    \/ ApiDies

Spec == Init /\ [][Next]_vars

\* The runner and the handlers run; the compute API, where it is called for ever, lists
\* each region and zone again and again; Kubernetes returns.
Fairness ==
    /\ WF_vars((WakeUp \/ Set) /\ UNCHANGED reqVars)
    /\ \A a \in Area : SF_vars(GetRegion(a, ZonesOf[a]) /\ UNCHANGED reqVars)
    /\ \A z \in Zone : SF_vars(ListZone(z) /\ UNCHANGED reqVars)
    /\ \A r \in Req : WF_vars(Handler(r) /\ UNCHANGED <<cloud, cacheVars>>)

FairSpec == Spec /\ Fairness
-----------------------------------------------------------------------------
(* Properties *)

\* When all results of a cluster are received they are one for each host that was found
\* when the cluster was looked up, each under the name of the host it is of; and no
\* goroutine is left waiting to send (api/api/status.go:228-253).  That the cache changes
\* meanwhile, that hosts fail, or that requests run side by side makes no difference.
AnswerCoversHosts ==
    \A r \in Req :
        /\ st[r] = "gce" /\ left[r] = 0 =>
              /\ DOMAIN entries[r] = DOMAIN gor[r]
              /\ \A h \in DOMAIN gor[r] : gor[r][h].has = "ended"
        /\ st[r] # "gce" => \A h \in DOMAIN gor[r] : gor[r][h].has = "ended"

\* Hosts are waited for side by side: however many of them hang, a response about n GCE
\* clusters is written in time if n times the host timeout is less than the write timeout.
\* (With the defaults of api/config/config.go, 10 and 10, one host that hangs is enough
\* for the response to be lost.)
StatusInTime ==
    \A r \in Req : st[r] = "late" /\ (\A c \in asked[r] : Runtime[c] = "GCE") =>
        Cardinality(asked[r]) * ReadTimeoutS >= WriteTimeoutS

\* A cluster whose instances the API has once seen is never again taken for one without
\* hosts, whatever regions and zones fail to be listed and in which order, as long as the
\* process lives.
KnownHostsStay ==
    [][\A id \in Id : cache[id] # {} => cache'[id] # {} \/ deaths' # deaths]_vars

\* Every request ends.
StatusAnswered == \A r \in Req : st[r] = "next" ~> st[r] \in Outcome

\* When no more VMs come and go, the hosts of a cluster that still has instances are, in
\* the end and for good, instances that exist; a cluster all of whose instances have been
\* deleted keeps the last one for ever.
GoneHostsLeave ==
    \A id \in Id :
        LET Live == {i \in Instance : cloud[i] = "live" /\ id \in IdsOf[i]}
        IN  <>[](Live = {} \/ (cache[id] # {} /\ cache[id] \subseteq Live))

\* A fetch collects all instances of a cluster in the zones it has listed
\* (api/gce/gce.go:47 "Collect all instances in region").
ListsAllInstances == found = listed
=============================================================================
