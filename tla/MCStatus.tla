------------------------------- MODULE MCStatus -------------------------------
(* Small instances of ClusterStatus. *)
EXTENDS ClusterStatus, TLC

CONSTANTS i1, i2, api, web, east, z1, z2, r1, r2, inCloud, inConfig, inPods, odd,
          n1, n2, h1, h2

\* One region of two zones with an instance in each, both of the cluster api.
TwoZones == [a \in Area |-> Zone]
OneInEach == [i \in Instance |-> IF i = i1 THEN z1 ELSE z2]
BothOfApi == [i \in Instance |-> {api}]

\* A cluster found through the cache, one with two hosts in the configuration, one on
\* Kubernetes, and one of a runtime that there is not.
MCIdOf == [c \in Cluster |-> IF c = inCloud THEN api ELSE web]
MCRuntime == [c \in Cluster |-> CASE c \in {inCloud, inConfig} -> "GCE"
                                  [] c = inPods -> "GKE" [] c = odd -> "other"]
MCStatic == [c \in Cluster |-> IF c = inConfig THEN {h1, h2} ELSE {}]
MCHostOf == [ic \in Instance \X Cluster |-> IF ic[1] = i1 THEN n1 ELSE n2]
MCQuery == {{}, {inCloud}, {inConfig}, {inCloud, inConfig}, {inPods, odd}}
OneCluster == {{inCloud}}
=============================================================================
