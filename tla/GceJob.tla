------------------------------- MODULE GceJob --------------------------------
(***************************************************************************)
(* The worker's deploy of a job to a cluster of GCE instances               *)
(* (worker/worker/worker.go, processDeployJobGCE and gceDeploy).  A thread  *)
(* looks up the cluster's instances and starts a goroutine for each; a      *)
(* channel with room for batchCount holds them back.  A goroutine asks its  *)
(* instance's app-controld for the deploy and waits for the answer or for   *)
(* GCEDeployTimeoutS.  The request itself has no deadline: it outlives the  *)
(* goroutine that gave it up, and a request that ends without a response    *)
(* takes the whole worker down, since the code goes on with resp = nil.     *)
(* What a worker that dies has sent may still arrive: the daemon starts the *)
(* deploy whether or not anyone waits for the answer.                       *)
(***************************************************************************)
EXTENDS JobQueue, Integers, FiniteSets

CONSTANTS
    Host,           \* the GCE instances
    Cluster,        \* [Job -> SUBSET Host]: the instances of the job's cluster
    Concurrency     \* [Job -> a Concurrency value]: the job's concurrency string

\* "50%" is [kind |-> "percent", n |-> 50]; a string Atoi refuses is "malformed".
ASSUME ClusterAssumption == Cluster \in [Job -> SUBSET Host] /\ IsFiniteSet(Host)
ASSUME ConcurrencyAssumption ==
    Concurrency \in [Job -> [kind : {"count", "percent", "malformed"}, n : Int]]

VARIABLES
    hpc,        \* [Thread -> [Host -> ...]]: the goroutine for each instance
    orphans,    \* the requests that outlived their goroutine
    late,       \* the requests to arrive of a worker that is dead; they may never do
    outcome     \* [Job -> {"none", "nil", "error"}]: the error ProcessJob returned

workerVars == <<hpc, orphans, late, outcome>>

HostPC == {"none", "queued", "sent", "accepted", "done"}
Orphan == [job : Job, host : Host, arrived : BOOLEAN]
Request == [job : Job, host : Host]
NoHosts == [h \in Host |-> "none"]

WorkerTypeOK ==
    /\ hpc \in [Thread -> [Host -> HostPC]]
    /\ orphans \in SUBSET Orphan
    /\ late \in SUBSET Request
    /\ outcome \in [Job -> {"none", "nil", "error"}]

WorkerInit ==
    /\ hpc = [t \in Thread |-> NoHosts]
    /\ orphans = {}
    /\ late = {}
    /\ outcome = [j \in Job |-> "none"]

\* The requests that are on their way to a daemon.
OnTheWay ==
    {r \in Request : \/ \E t \in Thread : job[t] = r.job /\ hpc[t][r.host] = "sent"
                     \/ \E o \in orphans : ~o.arrived /\ o.job = r.job /\ o.host = r.host}

\* The process dies, with every job it had acknowledged, and systemd starts it again.
WorkerDies ==
    /\ tpc' = [t \in Thread |-> "idle"]
    /\ job' = [t \in Thread |-> NoJob]
    /\ hpc' = [t \in Thread |-> NoHosts]
    /\ orphans' = {}
    /\ late' = late \cup OnTheWay
    /\ UNCHANGED <<topic, answer, sending, outcome>>
-----------------------------------------------------------------------------
\* concurrencyToBatchCount: a percentage is rounded down.
BatchCount(j) ==
    LET c == Concurrency[j] IN
    IF c.kind = "percent" THEN (Cardinality(Cluster[j]) * c.n) \div 100 ELSE c.n

\* log.Fatal on a string that is no number; make(chan, n) panics for a negative n.
Acceptable(j) == Concurrency[j].kind # "malformed" /\ BatchCount(j) >= 0

JobEnds(t, err) ==
    /\ Goto(t, "idle")
    /\ job' = [job EXCEPT ![t] = NoJob]
    /\ hpc' = [hpc EXCEPT ![t] = NoHosts]
    /\ outcome' = [outcome EXCEPT ![job[t]] = err]
    /\ UNCHANGED <<topic, answer, sending, orphans, late>>

\* GetInstancesForCluster and the loop that starts a goroutine for each instance.
GetInstances(t) ==
    /\ tpc[t] = "instances"
    /\ Acceptable(job[t])
    /\ Goto(t, "batch")
    /\ hpc' = [hpc EXCEPT ![t] =
                 [h \in Host |-> IF h \in Cluster[job[t]] THEN "queued" ELSE "none"]]
    /\ UNCHANGED <<topic, answer, sending, job, orphans, late, outcome>>

\* The region cannot be read: an error.  A zone cannot be: the loop appends the items of
\* a nil list before it looks at the error, and the worker panics.
GetInstancesFails(t) ==
    /\ "compute" \in Faults
    /\ tpc[t] = "instances"
    /\ JobEnds(t, "error") \/ WorkerDies

ConcurrencyRefused(t) ==
    /\ tpc[t] = "instances"
    /\ ~Acceptable(job[t])
    /\ WorkerDies

Asking(t) == {h \in Host : hpc[t][h] \in {"sent", "accepted"}}

HostGoes(t, h, where) == hpc' = [hpc EXCEPT ![t][h] = where]

Reserve_OneTooMany(t, h) ==
    /\ hpc[t][h] = "queued"
    /\ Cardinality(Asking(t)) <= BatchCount(job[t])
    /\ HostGoes(t, h, "sent")
    /\ UNCHANGED queueVars /\ UNCHANGED <<orphans, late, outcome>>

\* A goroutine gets a place in the channel and sends its request.
Reserve(t, h) ==
    /\ hpc[t][h] = "queued"
    /\ Cardinality(Asking(t)) < BatchCount(job[t])
    /\ HostGoes(t, h, "sent")
    /\ UNCHANGED queueVars /\ UNCHANGED <<orphans, late, outcome>>

TimesOut_KeepsItsPlace(t, h) ==
    /\ "timeout" \in Faults
    /\ h \in Asking(t)
    /\ orphans' = orphans \cup
          {[job |-> job[t], host |-> h, arrived |-> hpc[t][h] = "accepted"]}
    /\ UNCHANGED queueVars /\ UNCHANGED <<hpc, late, outcome>>

\* GCEDeployTimeoutS is over: the goroutine gives its place up, the request lives on.
TimesOut(t, h) ==
    /\ "timeout" \in Faults
    /\ h \in Asking(t)
    /\ HostGoes(t, h, "done")
    /\ orphans' = orphans \cup
          {[job |-> job[t], host |-> h, arrived |-> hpc[t][h] = "accepted"]}
    /\ UNCHANGED queueVars /\ UNCHANGED <<late, outcome>>

JobReturns_Unfinished(t) ==
    /\ tpc[t] = "batch"
    /\ \A h \in Host : hpc[t][h] \in {"none", "done"}
    /\ JobEnds(t, "incomplete")

JobReturns_NoWait(t) ==
    /\ tpc[t] = "batch"
    /\ \A h \in Host : hpc[t][h] \in {"none", "accepted", "done"}
    /\ JobEnds(t, "nil")

\* wg.Wait() is over.  What the instances answered was logged and is forgotten: the
\* job returns nil, nil.
JobReturns(t) ==
    /\ tpc[t] = "batch"
    /\ \A h \in Host : hpc[t][h] \in {"none", "done"}
    /\ JobEnds(t, "nil")

GceJobStep(t) ==
    \/ GetInstances(t) \/ GetInstancesFails(t) \/ ConcurrencyRefused(t) \/ JobReturns(t)
    \/ \E h \in Host : Reserve(t, h) \/ TimesOut(t, h)
=============================================================================
