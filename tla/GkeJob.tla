------------------------------- MODULE GkeJob --------------------------------
(***************************************************************************)
(* The worker's deploy of a job to a Kubernetes cluster                     *)
(* (worker/worker/worker.go, processDeployJobGKE, and worker/gke).  A       *)
(* thread fetches the job's config ball, unpacks it into a temporary        *)
(* directory, compiles the configuration, loads or generates the one        *)
(* Deployment in it, creates or updates and restarts that Deployment, and   *)
(* then looks at the app's pods until all are ready or 30 seconds are over. *)
(* Jobs of several threads may be for one Deployment.  The Kubernetes       *)
(* cluster is not in the repository: it is modelled by what this code sees. *)
(***************************************************************************)
EXTENDS Naturals, FiniteSets

CONSTANTS
    Job,            \* the jobs, all for the Deployment of one app
    NoJob,
    Version,
    VersionOf,      \* [Job -> Version]: the version each asks for
    Running,        \* the version that ran before, if any
    MaxJobThreads,
    Pod,            \* places for pods: the Deployment's replicas and its surge
    Replicas,
    Faults          \* what may go wrong: "bucket", "tar", "compile", "generate", ...

ASSUME JobAssumption ==
    /\ NoJob \notin Job /\ "deleted" \notin Job \cup {NoJob}
    /\ VersionOf \in [Job -> Version]
ASSUME PodAssumption == IsFiniteSet(Pod) /\ Replicas \in 1..(Cardinality(Pod) - 1)

VARIABLES
    pc,         \* where processDeployJobGKE is for each job
    defs,       \* [Job -> Defs]: what .gke/<env> of the job's directory holds
    dirs,       \* the jobs whose temporary directory is on disk
    result,     \* [Job -> ActionStatus]
    spec,       \* the Deployment's pod template, or NoSpec
    pods,       \* [Pod -> the app's pods]
    touched,    \* history: the jobs that changed the Deployment
    last        \* history: the job that set the Deployment's image last

jobVars == <<pc, defs, dirs, result>>
history == <<touched, last>>
vars == <<pc, defs, dirs, result, spec, pods, touched, last>>

AtWork == {"expand", "compile", "defs", "apply", "get", "create", "update", "patch",
           "sleep", "settle"}
Defs == {"none", "absent", "deployment", "other"}
ActionStatus == {"none", "INCOMPLETE", "FAILED", "COMPLETE"}

NoSpec == [version |-> Running, stamp |-> "deleted"]
NoPod == [of |-> NoSpec, state |-> "gone"]
Template == [version : Version \cup {Running}, stamp : Job \cup {NoJob}]
PodRecord == [of : Template, state : {"new", "starting", "ready"}]

TypeOK ==
    /\ pc \in [Job -> AtWork \cup {"none", "done", "lost"}]
    /\ defs \in [Job -> Defs]
    /\ dirs \subseteq Job
    /\ result \in [Job -> ActionStatus]
    /\ spec \in Template \cup {NoSpec}
    /\ pods \in [Pod -> PodRecord \cup {NoPod}]
    /\ touched \subseteq Job
    /\ last \in Job \cup {NoJob}

OfSpec == {p \in Pod : pods[p].of = spec}
Existing == {p \in Pod : pods[p] # NoPod}
Ready == {p \in Pod : pods[p].state = "ready"}

\* The app has never been deployed, or runs with all its replicas.
Init ==
    /\ pc = [j \in Job |-> "none"]
    /\ defs = [j \in Job |-> "none"]
    /\ dirs = {}
    /\ result = [j \in Job |-> "none"]
    /\ \/ spec = NoSpec /\ pods = [p \in Pod |-> NoPod]
       \/ /\ spec = [version |-> Running, stamp |-> NoJob]
          /\ \E R \in SUBSET Pod :
                /\ Cardinality(R) = Replicas
                /\ pods = [p \in Pod |-> IF p \in R THEN [of |-> spec, state |-> "ready"]
                                                    ELSE NoPod]
    /\ touched = {}
    /\ last = NoJob
-----------------------------------------------------------------------------
Goto(j, where) == pc' = [pc EXCEPT ![j] = where]

Goes(j, where) == Goto(j, where) /\ UNCHANGED <<defs, dirs, result>>

Returns_KeepsDir(j, status) ==
    /\ Goto(j, "done")
    /\ result' = [result EXCEPT ![j] = status]
    /\ UNCHANGED <<dirs, defs>>

\* processDeployJobGKE returns; once the ball is expanded, it wipes its directory.
Returns(j, status) ==
    /\ Goto(j, "done")
    /\ result' = [result EXCEPT ![j] = status]
    /\ dirs' = IF pc[j] \in {"none", "expand"} THEN dirs ELSE dirs \ {j}
    /\ UNCHANGED defs

\* The process dies with every job it is at work on, and systemd starts it again.
WorkerDies ==
    /\ pc' = [j \in Job |-> IF pc[j] \in AtWork THEN "lost" ELSE pc[j]]
    /\ UNCHANGED <<defs, dirs, result, spec, pods, touched, last>>

\* A thread takes the job, and getConfigBall reads the most recent matching ball.
GetConfigBall(j) ==
    /\ pc[j] = "none"
    /\ Cardinality({i \in Job : pc[i] \in AtWork}) < MaxJobThreads
    /\ \/ Goes(j, "expand")
       \/ "bucket" \in Faults /\ Returns(j, "INCOMPLETE")
    /\ UNCHANGED <<spec, pods, touched, last>>

\* expandConfigBall.  A ball that is not gzip leaves nothing; a tar that breaks off
\* leaves the directory, whose name is not returned.
ExpandConfigBall(j) ==
    /\ pc[j] = "expand"
    /\ \/ /\ Goto(j, "compile")
          /\ dirs' = dirs \cup {j}
          /\ \E d \in Defs \ {"none"} : defs' = [defs EXCEPT ![j] = d]
          /\ UNCHANGED result
       \/ "gzip" \in Faults /\ Returns(j, "INCOMPLETE")
       \/ /\ "tar" \in Faults
          /\ Goto(j, "done")
          /\ dirs' = dirs \cup {j}
          /\ result' = [result EXCEPT ![j] = "INCOMPLETE"]
          /\ UNCHANGED defs
    /\ UNCHANGED <<spec, pods, touched, last>>

\* compileConfig: no defaults, a layer that does not parse, a file that cannot be written.
CompileConfig(j) ==
    /\ pc[j] = "compile"
    /\ \/ Goes(j, "defs")
       \/ "compile" \in Faults /\ Returns(j, "INCOMPLETE")
    /\ UNCHANGED <<spec, pods, touched, last>>

\* generateOnlineResources, after the service account and the kind were found: the script,
\* the certificate or a template may be missing.
OnlineResources ==
    {[err |-> FALSE, defs |-> "deployment"]}
    \cup {[err |-> TRUE, defs |-> "other"] : f \in Faults \cap {"generate"}}

\* GenerateFromTemplate: what it may return and what .gke/<env> holds then.  No error, and
\* nothing done, when the compiled config is not read or is no AppConfig.
Generate(j, readable) ==
    LET nothing == [err |-> FALSE, defs |-> defs[j]] IN
    IF readable THEN OnlineResources \cup {nothing : f \in Faults \cap {"appconfig"}}
                ELSE {nothing}

\* kubeResourceDefsPresent is false whatever it finds, and the call that follows has its
\* two paths the wrong way round: the directory is read as the compiled config.
ResourceDefs(j) ==
    /\ pc[j] = "defs"
    /\ \E g \in Generate(j, FALSE) :
          IF g.err THEN Returns(j, "INCOMPLETE")
          ELSE /\ defs' = [defs EXCEPT ![j] = g.defs]
               /\ Goto(j, "apply")
               /\ UNCHANGED <<dirs, result>>
    /\ UNCHANGED <<spec, pods, touched, last>>

\* LoadDeployYaml finds one object to deploy, and it is no StatefulSet, which is loaded
\* but not decoded.
LoadsOneDeployment(d) == d = "deployment"

\* gkeApplyDeployment up to the call of ApplyDeployObject: generate when there is no
\* .gke/<env>, load, expect one Deployment.
GkeApplyDeployment(j) ==
    /\ pc[j] = "apply"
    /\ \E g \in IF defs[j] = "absent" THEN Generate(j, TRUE)
                                      ELSE {[err |-> FALSE, defs |-> defs[j]]} :
          IF g.err \/ ~LoadsOneDeployment(g.defs) THEN Returns(j, "FAILED")
          ELSE /\ defs' = [defs EXCEPT ![j] = g.defs]
               /\ Goto(j, "get")
               /\ UNCHANGED <<dirs, result>>
    /\ UNCHANGED <<spec, pods, touched, last>>
-----------------------------------------------------------------------------
GetDeployment(j) ==
    /\ pc[j] = "get"
    /\ Goes(j, IF spec = NoSpec THEN "create" ELSE "update")
    /\ UNCHANGED <<spec, pods, touched, last>>

Writes(j, stamp) ==
    /\ spec' = [version |-> VersionOf[j], stamp |-> stamp]
    /\ touched' = touched \cup {j}
    /\ last' = j

\* Create is refused when another thread's job was faster.
CreateDeployment(j) ==
    /\ pc[j] = "create"
    /\ \/ spec = NoSpec /\ Writes(j, NoJob) /\ Goes(j, "sleep")
       \/ spec # NoSpec /\ Returns(j, "FAILED") /\ UNCHANGED <<spec, touched, last>>
    /\ UNCHANGED pods

\* Update replaces the template whole: a restart annotation in it is gone.
UpdateDeployment(j) ==
    /\ pc[j] = "update"
    /\ Writes(j, NoJob)
    /\ Goes(j, "patch")
    /\ UNCHANGED pods

PatchDeployment_Whole(j) ==
    /\ pc[j] = "patch"
    /\ spec' = [version |-> VersionOf[j], stamp |-> j]
    /\ Goes(j, "sleep")
    /\ UNCHANGED <<pods, touched, last>>

\* The strategic merge patch sets restartedAt and nothing else.
PatchDeployment(j) ==
    /\ pc[j] = "patch"
    /\ spec' = [spec EXCEPT !.stamp = j]
    /\ Goes(j, "sleep")
    /\ UNCHANGED <<pods, touched, last>>

\* A call fails, before or after it has taken effect: the job ends FAILED.
CallFails(j) ==
    /\ "kube" \in Faults
    /\ pc[j] \in {"get", "create", "update", "patch", "settle"}
    /\ Returns(j, "FAILED")
    /\ \/ UNCHANGED <<spec, touched, last>>
       \/ pc[j] = "create" /\ spec = NoSpec /\ Writes(j, NoJob)
       \/ pc[j] = "update" /\ Writes(j, NoJob)
       \/ pc[j] = "patch" /\ spec' = [spec EXCEPT !.stamp = j] /\ UNCHANGED history
    /\ UNCHANGED pods

SettleSleep_Skipped(j) ==
    /\ pc[j] = "sleep"
    /\ Goes(j, "settle")
    /\ UNCHANGED <<spec, pods, touched, last>>

\* The Deployment is as the job left it.
Own(j) == last = j /\ spec.stamp \in {j, NoJob}

\* Three seconds of sleep and five until the first tick: a prompt cluster has started a
\* pod by then, unless another job has changed the template again.
SettleSleep(j) ==
    /\ pc[j] = "sleep"
    /\ Own(j) => OfSpec # {}
    /\ Goes(j, "settle")
    /\ UNCHANGED <<spec, pods, touched, last>>

\* getClusterStatus: every pod of the app is ready, of whichever template; so are none.
ClusterStatus == \A p \in Existing : pods[p].state = "ready"

Settled_Healthy(j) ==
    /\ pc[j] = "settle"
    /\ ClusterStatus
    /\ Returns(j, "HEALTHY")
    /\ UNCHANGED <<spec, pods, touched, last>>

\* A tick on which the status is good.  (One on which it is not changes nothing.)
Settled(j) ==
    /\ pc[j] = "settle"
    /\ ClusterStatus
    /\ Returns(j, "COMPLETE")
    /\ UNCHANGED <<spec, pods, touched, last>>

\* A pod whose containers have no status yet: ContainerStatuses[0] panics.
StatusPanics(j) ==
    /\ pc[j] = "settle"
    /\ \E p \in Existing : pods[p].state = "new"
    /\ WorkerDies

SettleTimesOut_Incomplete(j) ==
    /\ pc[j] = "settle"
    /\ Returns(j, "INCOMPLETE")
    /\ UNCHANGED <<spec, pods, touched, last>>

SettleTimesOut_AfterGoodStatus(j) ==
    /\ pc[j] = "settle"
    /\ ClusterStatus
    /\ Returns(j, "FAILED")
    /\ UNCHANGED <<spec, pods, touched, last>>

\* The context's 30 seconds are over.
SettleTimesOut(j) ==
    /\ pc[j] = "settle"
    /\ Returns(j, "FAILED")
    /\ UNCHANGED <<spec, pods, touched, last>>

JobStep(j) ==
    \/ GetConfigBall(j) \/ ExpandConfigBall(j) \/ CompileConfig(j) \/ ResourceDefs(j)
    \/ GkeApplyDeployment(j) \/ GetDeployment(j) \/ CreateDeployment(j)
    \/ UpdateDeployment(j) \/ PatchDeployment(j) \/ SettleSleep(j) \/ Settled(j)
    \/ SettleTimesOut(j)
-----------------------------------------------------------------------------
(* The Kubernetes cluster: a rolling update with a surge. *)

StartPod(p) ==
    /\ spec # NoSpec
    /\ pods[p] = NoPod
    /\ Cardinality(OfSpec) < Replicas
    /\ pods' = [pods EXCEPT ![p] = [of |-> spec, state |-> "new"]]
    /\ UNCHANGED <<jobVars, spec, history>>

\* A pod of an older template goes when it serves nothing, or when enough others do.
RemovePod(p) ==
    /\ p \in Existing \ OfSpec
    /\ p \in Ready => Cardinality(Ready) > Replicas
    /\ pods' = [pods EXCEPT ![p] = NoPod]
    /\ UNCHANGED <<jobVars, spec, history>>

\* Its containers are reported, become ready, and fail.
PodChanges(p) ==
    /\ \E c \in {<<"new", "starting">>, <<"starting", "ready">>, <<"ready", "starting">>} :
          /\ pods[p].state = c[1]
          /\ pods' = [pods EXCEPT ![p].state = c[2]]
    /\ UNCHANGED <<jobVars, spec, history>>

Rollout == \E p \in Pod : StartPod(p) \/ RemovePod(p)

Next ==
    \/ \E j \in Job : JobStep(j) \/ CallFails(j) \/ StatusPanics(j)
    \/ "daemon" \in Faults /\ WorkerDies
    \/ Rollout
    \/ \E p \in Pod : PodChanges(p)

\* Threads run, the context's timer fires, the cluster's controller starts and removes
\* pods.  No pod has to become ready.
Fairness == (\A j \in Job : WF_vars(JobStep(j))) /\ WF_vars(Rollout)

Spec == Init /\ [][Next]_vars /\ Fairness
-----------------------------------------------------------------------------
\* A job has its directory while it reads it, and a job that got one from expandConfigBall
\* and has returned left nothing on disk, whatever the other jobs wiped
\* (processDeployJobGKE, the deferred wipeTempDir).
WipesItsOwnDir ==
    \A j \in Job :
       /\ pc[j] \in {"compile", "defs", "apply"} => j \in dirs
       /\ pc[j] = "done" /\ defs[j] # "none" => j \notin dirs

\* A job that ends with an error (INCOMPLETE) has not touched the Deployment, and one that
\* ends COMPLETE has (processDeployJobGKE: only gkeApplyDeployment's errors are FAILED).
IncompleteTouchedNothing ==
    \A j \in Job :
       /\ result[j] = "INCOMPLETE" => j \notin touched
       /\ result[j] = "COMPLETE" => j \in touched

\* The Deployment's image is that of the job that created or updated it last, however
\* the restarts of other jobs come in between (ApplyDeployObject).
ImageOfTheLastUpdate == last # NoJob => spec.version = VersionOf[last]

\* When a job says COMPLETE and the Deployment is still as it left it, a pod of what it
\* deployed is ready: the wait before the first look is long enough for a prompt
\* cluster, and the pods of before do not pass for its own (ApplyDeployObject).
CompleteMeansServed ==
    [][\A j \in Job : result[j] # "COMPLETE" /\ result'[j] = "COMPLETE"
                        /\ Own(j) => Ready \cap OfSpec # {}]_vars

\* Every job that is begun ends, or is lost with the worker, also if its pods never come up.
EveryGkeJobEnds == \A j \in Job : pc[j] \in AtWork ~> pc[j] \in {"done", "lost"}
=============================================================================
