# App Control in TLA+

Specifications of the deploy system in this repository: TLA+ modules, the TLC configurations that
check them on small instances, and proofs that TLAPS checks for every instance. Paths below are
relative to `src/` unless they name a module.

    tlc -workers 2 -config Controld_safety.cfg MCControld.tla     # a run
    tlapm ControldProofs.tla                                      # a proof

`PROJECT.json` lists for every definition the lines of code it stands for, for every property a
plausible bug that violates it, the hazards of the code with the properties that watch them, and
what was found.

## 1. The system

    appcontrol CLI --HTTP--> app-control-api --Pub/Sub--> app-control-worker --HTTP--> app-controld
       (laptops)              |         \                   |                          (each VM)
                              |          Secret Manager     Kubernetes API
                              +--- /status of every VM

A user asks the API for a deploy of a version to a cluster. The API publishes a job; one of the
worker's eight threads takes it. For a cluster of GCE instances the worker asks the daemon on each
of them, at most `concurrency` at a time; for GKE it renders manifests and applies them. A daemon
installs the package, merges the configuration, writes the app's files, restarts its units and
waits until the version runs.

| Component | State | Operations | Hard behaviour | Correct when |
|---|---|---|---|---|
| Deploy cache (`daemon/model/deploy.go`) | map app -> Deploy under a mutex; memory only | AddDeploy, MarkDeployStart, MarkDeployComplete, DeleteDeploy, GetDeploys, CleanDeploys | GetDeploys returns the live map; entries are known by app name only; entries are deleted by age | nobody's entry is deleted, replaced or completed by others |
| /deploy of the daemon (`daemon/api/deploy.go`) | a goroutine per request, convergence goroutines without end | slot or 429, poll each second, convergence, answer; 408 after WriteTimeoutS | polls without a bound; reads a status cache that may be stale or lack the app; panics end the daemon | a request that got the slot is answered, truly, and frees it |
| Deploy runner (`daemon/runners/deploy.go`) | targets and error of a batch | clean, range, .oor markers, apt, configuration, systemd, mark | one error for a whole batch; half-done phases; dies anywhere | the batch is what the cache says; out of rotation while worked on |
| Status runner and cache (`daemon/runners/status.go`) | snapshot of versions | dpkg list, varz probe of each app, publish | late; aborted for all apps by one unparsable version; a listing cut short is published as if it were all | late, never wrong for long but for what it did not list |
| Host (`daemon/cli`) | installed, configured, running, .oor | apt, systemctl, tar, touch, rm | any command fails half way | - |
| Configuration pull (`daemon/runners/deploy.go:138-551`) | layers, config.yaml, files on disk | ball, unpack, merge, files and secrets | nothing is ever removed; stops anywhere; files are skipped with a warning; secrets change meanwhile | after a pull config.yaml and the files not skipped are what the layers say |
| Product schema (`api/config/product`) | - | ParseYaml, MultiMerge | deletion tags over four layers | the most specific layer decides |
| Secrets of the API (`api/secrets`, `api/api/secrets.go`) | Secret Manager's | create (2 writes), policy (read and write), update, delete | calls interleave and fail one by one | the owner is the creator; created means usable |
| Queue and /deploy of the API (`api/queue`, `api/api/deploy.go`) | topic, unacknowledged jobs | Enqueue, Dequeue | acknowledged before the work; confirmations and acknowledgements get lost; a publication outlives the wait for it | a promised job is worked on, once |
| Worker, GCE (`worker/worker`, `worker/gce`) | threads, channel of batchCount, goroutines | ProcessJob, gceDeploy | a request outlives the goroutine that gave it up, and the worker that sent it; nil responses end the process | rolling: at most batchCount at work; every job ends |
| Worker, GKE (`worker/gke`) | directory per job, Deployment | ball, compile, generate, create or update, restart, settle | threads write one Deployment; pods of before look ready | restarts never bring back an older image; COMPLETE is about the job's own pods |
| Instance cache (`api/runners/gce-cache.go`, `api/gce/gce.go`) | instances per cluster id | fetch of a region, merge into the map | partial fetches; instances come and go; map refreshed in place | clusters keep hosts, and they are ones that exist |
| Cluster status (`api/api/status.go`) | a goroutine per host, an unbuffered channel | walk over clusters, fan-out of /status, join | hosts hang; timeouts add up; the cache changes meanwhile | an entry per host, its own; in time |
| Health (`daemon/api/healthz.go`, `daemon/clients`, `daemon/runners/oor.go`) | health results in the status cache | poll of .oor and the health ports, /healthz | the load balancer learns late; markers outlive a daemon | never late by more than two polls; back in rotation |
| Access control (`api/rbac`, `api/api/auth.go`) | - | Authorized, two look-ups in the configuration | - | not modelled (section 7) |
| CLI, servers, configuration | - | - | - | inputs and CONSTANTS of the modules |

All three services are started again by systemd (`Restart=on-failure`). The defaults that matter:
DeployIntervalS 15, ConvergeTimeoutS 5, a poll of 1 s, StaleDeployCompletedS 300,
StaleDeployRequestedS 3600, WriteTimeoutS 10 in the daemon; GCEDeployTimeoutS 300 and MaxJobThreads
8 in the worker. `appcontrol deploy` always asks for concurrency "1".

## 2. Modules

**The daemon.** One module per part, each with its own variables, composed by Controld.

| Module | Code | State and actions |
|---|---|---|
| Apps | `daemon/config/config.go` | the constants App, Version, NoVersion, Faults |
| DeployCache | `daemon/model/deploy.go` | `deploys` (per app: stage, error, ages) and `iter`, the keys a range over the live map has yet to visit. Each method is a step; CleanAndRange is GetDeploys' clean-up and the start of the range. Ages replace time stamps |
| Host | `daemon/cli/cli.go` | `installed`, `configured`, `running`, `oor`, with what each command leaves when it fails half way |
| StatusRunner | `daemon/runners/status.go` | a poll lists packages (with "list" among the faults any part of them, without an error), asks the apps one by one and publishes; `statuses` is what handlers read |
| DeployRunner | `daemon/runners/deploy.go` | `rpc` walks through sleep, range, setOOR, apt, configs, reload, restart, unsetOOR, mark; `targets` is the batch, `pending` what a loop over it (markers, configurations, completion) has yet to come to |
| DeployHandler | `daemon/api/deploy.go` | `http` is the request, `pc` its Deploy() goroutine, which goes on after the 408; `probes` are convergence goroutines that outlived their wait |
| Controld | `daemon/app-controld.go` | interleaving, panics and restarts with both caches empty, and Tick |
| DeploySlot | - | the abstract promise: each app has one slot that a deploy goes through once, in order |
| Rotation | `daemon/runners/status.go`, `oor.go`, `daemon/api/healthz.go` | extends Controld: each listed app of a poll has its marker looked for, then its ports asked (`check`, `snapHealth`), then its version; `health` is what /healthz answers from; `missed` and `unlisted` remember which apps a poll's listing was cut short of |

A live Go map is written under a lock and ranged over without one. What the range sees is an entry
for each key that was there throughout, and any choice about the ones inserted or deleted
meanwhile; the runtime may also end the process, which is the fault "crash".

**The fleet.** JobQueue (the topic and the threads' Receive), GceJob (channel, goroutines,
requests, deaths of the worker) and Fleet, which composes them with the daemons. A daemon in
Fleet is an instance of DeploySlot, the specification that Controld is shown to implement, and
Fleet in turn is shown to implement Rollout, one job's promise: published, taken once, every instance
of the cluster started or passed over at most once with no more than Room busy at a time, ended.
The mapping reads a job's life off its place (topic, thread, outcome), what is left off its goroutines
and what is busy off the owners of the daemons' slots. Two things outlive whoever began them. `sending`
has the publications that Enqueue waited for in vain and that may yet get through: such a job is
still "new". `late` has the requests of a worker that died: each may reach its daemon, which starts
the deploy with nobody to hear of it, or never arrive. A job that is gone may start those instances,
within its Room, and no other. Requests of one job to one instance are not counted, so two that a
job sent in two lives are one.

**GKE.** GkeJob: `processDeployJobGKE` and `ApplyDeployObject` with each return and panic for
several jobs on one Deployment, and a rolling update by Kubernetes.

**Configuration.** ConfigLayers has an app's layers and Effective, which says key by key what they
stand for without merging; ConfigMerge is MultiMerge, translated for layers two keys deep: each
recursive function of the code is one operator for the keys and one for the leaves under a key.
PullConfig is `pullAndMergeConfigs` for one app, from the ball to the copied files; `skipped` remembers the
files this pull warned about and went on without. DeployRunner has all of it as one step per target, which
without an error leaves the version's configuration or a mixture (NoVersion): files that were skipped,
layers of older balls. Secrets is one secret of Secret Manager under create, update and delete.
ConfigDeploy composes PullConfig and Secrets.

**Status.** GceCache is the API's refresh loop: `found` is the map a fetch returns, of all the
zones that were listed or of some, and Set merges it into `cache`. ClusterStatus composes it with
the handler of /status: for each cluster of a request it reads the cache once, forks a goroutine
per host (`gor`) and receives as many results as there are hosts; Tick lets time pass for the
hosts that hang, the client's timeout and the server's write timeout.

**What is external**, modelled from how the code uses it: Pub/Sub delivers at least once and a
Receive has one callback at a time; net/http closes a connection whose handler is past the write
deadline, so a 408 may never arrive; Kubernetes starts pods of the current template and removes
old ones as a rolling update does, and has started one before the first look (3 s and a tick
of 5 s after the write); Secret Manager's calls are atomic, may fail before or after their effect, and
SetPolicy is refused when the policy is not the one that was read (two policies that nobody has
written yet are the same); Compute Engine lists the instances of a zone that are there, in any
order, or fails; a daemon on a host answers, refuses or hangs.

## 3. Runs

| Run | Instance | Distinct states | Shows |
|---|---|---|---|
| controld_safety | 1 app, 2 versions that parse to one number, 2 requests, a configuration fails or lacks files | 1.5 M | own entries, no orphans, answers are true, the proofs' IInv, refinement of DeploySlot |
| controld_batch | 2 apps, 2 requests, none of the versions parses, apt and systemd fail, services exit, the daemon dies | 1.4 M (apps and their slots exchanged) | batches and the markers they set, how long a slot is taken |
| rotation | 1 app, requests one after the other, services do not come up, listings are cut short, the daemon dies, time passes | 639 k | how late /healthz is, whose markers there are, every Deploy() returns |
| fleet_safety | 3 jobs, 2 threads, 3 instances; concurrency "2", "50%" and a word; publications fail or come late, processes die, their last requests arrive | 420 k | rolling, worked on once, not lost, refinement of Rollout |
| fleet_liveness | 2 jobs, 1 thread, 2 instances; time-outs, late answers, redelivery, failed deploys, fair | 547 k | a job ends; a goroutine waits for its own deploy |
| gke_jobs | 2 jobs, 2 threads, 3 pods, 2 replicas, everything fails | 312 k | directories, results, images, COMPLETE, every job ends |
| config_deploy | 3 versions, 2 pulls, 4 secret requests, everything fails, files are skipped or cut short; every 4 of 10 layers | 1.6 M | merges, files after a pull, owners, complete secrets |
| cluster_status | 4 clusters (cache, configuration, Kubernetes, unknown runtime), 2 instances in 2 zones, 1 request, compute API fails, the API dies once, fair | 213 k | entries, time-outs, what the cache keeps and loses, every request ends |
| controld_redeploy | one version twice | counterexample | finding 1 |
| controld_first | an app the host does not have | counterexample | finding 2 |
| fleet_rolling | 1 job, 2 instances, time-outs | counterexample | finding 3 |
| status_first_instance | 2 instances of one cluster | counterexample | finding 4 |

**Bounds.** The times of the Controld runs are the smallest for which the two inequalities of
Timely are equalities (waits of 2 against a staleness of 2, a lap of 5 against 5), so a wait or a
lap that was one tick longer would be seen. Two requests are what a race for a slot takes and two
apps what a shared batch takes; with two versions of one number convergence cannot tell the version
asked for from the one before, and a 200 must be true all the same; slots are used again and again, so a run is not limited to two
requests in all. Three instances with a batchCount of 1 (50 % of three, rounded down) and 2, three
jobs for two threads; a deploy that fails is in fleet_liveness only, since nothing in the worker
depends on it. Two versions, so that a job can deploy what already runs. The layers of
MergeIsEffective are two keys deep, with leaves, shared maps, maps replaced by leaves and
deletions at both depths (deeper ones are not modelled: the code recurses into
them with the same functions), and files that are absent, empty or no configuration. Two pulls are
enough for one to find what another left, half unpacked or of another version; MaxPulls is the
bound. MaxBatchS, StatusPeriodS and PollS bound what the code leaves to the host and the scheduler.
gke_jobs and config_deploy end by themselves (their jobs, requests and pulls are used up), so
they do not check for deadlock; the others do. In rotation a poll and a batch may each take all of
their period, which is the longest a result can lag, so UpIsRecent is checked at its bound. In
cluster_status a host time-out of 2 and a write time-out of 3 make one GCE cluster safe and two not; the
two instances are in zones of their own, so that a fetch can have one without the other; MaxDeaths
bounds the deaths of the API. The faults are divided among the runs to keep each within minutes, and
the theorems are about all of them at once: apt fails in controld_batch and a configuration in
controld_safety; a service that does not come up ("start") is in rotation and one that exits by itself
("exit") in controld_batch, since the two leave the same host and differ in when; the worker and the
daemons die in fleet_safety, where no fairness is asked, and EveryJobEnds is checked without deaths.

**Fairness.** Rotation, for the daemon: weak for the steps of whichever goroutine has used up its
time (Due), since Go runs every runnable goroutine and none of them waits for a lock that is not
released; strong for the second, since time passes although steps keep interrupting it. Nothing is
asked of a goroutine that is still within its time, nor of services. Fleet: weak for each thread's
own steps, timers included; nothing is asked of the instances. GkeJob: weak for the steps of each
job and for the controller that starts and removes pods; no pod ever has to become ready.
ClusterStatus: weak for the refresh loop and each request's handler and goroutines, which the
runtime schedules (a host that hangs is ended by the client's time-out); strong for fetching each
region and listing each zone, since the loop asks for them again and again and the compute API does
not fail every time for ever. Kubernetes returns from a List.

## 4. Properties

- *OwnEntry, NoOrphans* - a Deploy() polls, answers with and deletes by app name; still, what it
  finds there is its own entry, and no entry is without a goroutine that will delete it.
- *BatchIsCache, OutOfRotationCoversBatch* - the runner's list and the started entries agree
  version by version although requests come and go while it works; its targets are out of
  rotation from before the first package to after the last restart, and back before the answer.
- *AnswerIsTrue* - a 200 is about the version that is installed, and no other runs; what is on disk is no
  other version's configuration. That it is all of the version's is not claimed: a file whose secret was
  not read, or that was not written, is left out with a warning (`daemon/runners/deploy.go:262-279`) and
  the layers of older balls are merged in. PulledFilesAreCurrent says what can be said of the files.
- *SlotFreesInTime* - however a request meets the runner's laps, its deploy is taken up within a batch
  and a sleep, done within another batch, and its app's slot free after the wait for convergence.
- *DeployReturns* - while Timely, every Deploy() returns, to the host with its health polls too.
- *UpIsRecent, DownIsRecent* - /healthz says OK of an app no longer than two polls after its marker was
  set or its service went away, and refuses one that serves without a marker no longer than that,
  also across restarts. Marker and ports are read at two instants and published at a third. Both are
  about a daemon whose last poll was published: one version that does not parse stops all polls. DownIsRecent
  is about the apps that poll listed, for the errors of the listing are not looked at
  (`daemon/runners/status.go:109-110, 145`) and an app it was cut short of is refused until the next one.
- *MarkersAreAccountedFor* - a marker is the batch's, or was left by a daemon that died in one; with
  DeployReturns, an app taken out of rotation comes back unless the daemon dies first.
- *AnswerCoversHosts, StatusInTime, StatusAnswered* - of a request to /status: an entry for each host
  found, under its name and from it; n GCE clusters are answered in time if n host time-outs are
  shorter than the write time-out; it ends.
- *KnownHostsStay, GoneHostsLeave* - of the instance cache: failed fetches take no cluster's hosts away,
  and in the end the hosts of a cluster that has instances are instances that exist.
- *ImplementsSlot* - Controld implements DeploySlot (with `wanted` and `state` read off the cache).
- *ImplementsRollout* - each job of Fleet is a Rollout: in particular it is done only when it has come to
  all its instances and none is at work on it, and once lost starts no instance but those its worker had
  sent a request to. Stated as initial condition and step, since TLC
  does not take a refinement under a quantifier.
- *RollingDeploy, WorkedOnOnce, NoJobIsLost, WaitsForItsOwn, EveryJobEnds* - of the worker. NoJobIsLost lets
  go of a job when all threads are idle after a step, which is what a death of the worker looks like: a
  thread that dropped its job while no other had one would pass for it.
- *WipesItsOwnDir, IncompleteTouchedNothing, ImageOfTheLastUpdate, CompleteMeansServed,
  EveryGkeJobEnds* - of GKE deploys.
- *MergeIsEffective, PulledIsMerged, PulledFilesAreCurrent* - MultiMerge is what the layers stand
  for; after a pull config.yaml is the merge of the layers on disk and a secret's file has a value
  that was the latest one while the pull ran, whatever earlier pulls left, skipped or half wrote; the
  files this pull itself warned about are excepted. A read does not look at the secret's policy: one whose
  SetPolicy failed is read if Secret Manager lets it be, and is a skipped file if not.
- *OwnerIsCreator, CreatedIsComplete* - of secrets. OwnerIsCreator supposes one delete: of two
  deletes authorized for one secret the second can take away the next secret of that name
  while it is being created, and with a third create the second's policy lands on it.

PulledIsMerged speaks of the layers on the disk, not of the version's: a layer that an older ball
had and this one has not is still there, and still merged. That is what the code does and nothing
in the repository says otherwise.

## 5. Findings

1. `daemon/api/deploy.go:212` - convergence can be judged on the poll made before the restart, so
   redeploying the installed version answers 200 with nothing running.
2. `daemon/api/deploy.go:212` - for an app that the status cache does not list yet the version is
   nil, and the dereference ends the daemon with every deploy in flight.
3. `worker/worker/worker.go:569` - a request given up after GCEDeployTimeoutS gives its place in the
   channel to the next instance while its own is still to deploy: more than batchCount at work.
4. `api/gce/gce.go:83` - the slice a cluster's second instance is appended to is never stored back:
   each fetch keeps one instance per cluster, and /status answers for one host of it.

Beyond these, what the models show of the code and no run checks: outside Timely (a batch
longer than StaleDeployRequestedS) Deploy() polls for ever for an entry that was swept; a file
without a content, which the CLI packs into the ball, panics in extractFiles (PullConfig has it); with
the default time-outs of the API, 10 s and 10 s, a host that hangs costs the whole response
(StatusInTime with n = 1); a cluster whose last instance is deleted keeps it in the cache; two
environments' clusters of one id share an entry of the cache.

## 6. Proofs

All are safety and hold for every value of the constants that satisfies the named assumptions.

**ControldProofs.** Typed needs nothing; the others need Timely:

    PollS + ConvergeTimeoutS <= StaleDeployCompletedS
    DeployIntervalS + 2 MaxBatchS + PollS + ConvergeTimeoutS <= StaleDeployRequestedS

With the defaults this is a batch of at most 1789 s. OwnEntry alone is not inductive: CleanDeploys
deletes by age, so one has to know why no entry gets old while its goroutine lives. IInv bounds
the age of a completed entry by its goroutine's wait (CompletedIsYoung), and of one requested or
started by the runner's position: missed by one range, taken by the next (EntryIsYoung). Timely
turns the bounds into "nothing is stale", so the clean-up deletes nothing that is owned. BatchDone
and CompletedIsInPlace carry what each phase has done to the host to the answer. From IInv follow
OwnEntryAlways, NoOrphansAlways, BatchIsCacheAlways, AnswerIsTrueAlways, SlotFreesInTimeAlways
(the bounds on ages, read off) and Implements, the refinement of DeploySlot, where every action is a
step of a slot or a stutter. RotationAlways also
supposes that touch and rm do not fail ("sudo" not among Faults).

**RotationProofs.** RefinesControld: every step of Rotation is one of Controld or leaves its
variables alone, so ControldProofs' theorems hold of it. MarkersAreAccountedFor is inductive with
TypeOK: only SetOOR and UnsetOOR touch a marker, target by target, for the batch's own. HealthInv bounds what
a poll in progress has seen by the time since the last poll's end (SeenIsRecent), and what was
published by that and a period more (PublishedIsRecent); UpIsRecentAlways and DownIsRecentAlways
follow, since no poll takes longer than StatusPeriodS. An app that a listing was cut short of carries no
bound (`missed`, then `unlisted`) until a poll lists it. They need no Timely.

**FleetProofs.** WaitsForItsOwnAlways holds whatever fails: from TypeOK and ThreadShape (a thread
has goroutines only in its batch). WorkedOnOnceAlways supposes that no acknowledgement is lost,
NoJobIsLostAlways that the stream does not fail under a Receive that has a job, and
RollingDeployAlways that no acknowledgement is lost and no request is given up by worker or daemon
before its deploy is done; fleet_rolling shows that without the last it is false. Its invariant
RollingInv is AwaitedInv and LateInv. AwaitedInv says that an instance at work on a thread's job has that
thread waiting for it (OwnersAwaited) and that those who ask fit into the channel (WithinBatch). LateInv
says that a job whose worker died with requests on their way is nobody's any more, neither in the topic
nor to be published, and that those requests and the instances at work on it are within its batchCount. Under the same conditions
ImplementsRolloutAlways, and JobIsARollout for a single job: with OwnCluster (goroutines are for
instances of the job's cluster) every step is a step of Rollout for each job. Most leave a job
Untouched, which keeps its life and what is left of it; a slot that is taken is a Start within the
room RollingInv leaves, also for a request of a dead worker (UnawaitedRolls), and OwnersAwaited says that a job that ends has nobody at work.

**GkeProofs.** JobShape (what a job has done by each of its program counters), WrittenIsThere and
LooksAtItsOwn (a job that looks at pods of its own template has seen one start) give
WipesItsOwnDirAlways, IncompleteTouchedNothingAlways, ImageOfTheLastUpdateAlways and
CompleteMeansServedAlways, for any number of jobs and whatever fails. The last rests on the
prompt cluster of section 2.

**ClusterStatusProofs.** For any topology, clusters, hosts, requests and time-outs. AnswerCoversHosts
needs that the results still to be received are as many as the goroutines that have not sent, that
each asks the host it is named for, and that the entries are those of the ones that have sent; StatusInTime
a bound on the age of a request by the clusters it has behind it and the wait for the present one.
KnownHostsStayAlways is a step property of the cache.

**SecretsProofs.** For any requests and faults. While a create is under way the secret is its own
and nobody's yet (Underway), so no delete can have been authorized for it (Authorized), and its
policy lands on its own secret: OwnerIsCreatorAlways. A create past its first version left a
value (Valued), and no action takes it away but a delete: CreatedIsCompleteAlways.

**MergeProofs.** MultiMergeIsEffective: any four layers two keys deep, whatever their keys and
values, are merged to what they stand for. The code merges in place, layer by layer, and strips tags
after each; Effective looks at all layers at once. The argument keeps ResultOf for the first i
layers: the result fails when one of them is no configuration, and otherwise *stands for* them, that
is, stripped of tags it is their Effective. OneMoreLayer is the step. It needs to know which layers are
in force for a key once one more layer names it (SaidByNext) or does not (NotSaidByNext), that
stripping leaves before a merge makes no difference after it (StripAfter), and that stripping twice
is stripping once.

**ConfigProofs.** For any versions, balls, secret requests, faults and number of pulls; the layers of
the balls are two keys deep (PullAssumption). A pull past a step has what the step was for: Laid,
MergedIs (by MultiMergeIsEffective), Listed, Extracted. FilesAreNamed shows from Effective that
config.yaml names no file that no layer names; Watched, that the secret's latest value is always among
those collected since the pull began, gives PulledFilesAreCurrentAlways. ConfigKeepsSecrets carries
SecretsProofs' theorems over to the composition.

**Only model-checked:** liveness (DeployReturns, EveryJobEnds, EveryGkeJobEnds,
StatusAnswered, GoneHostsLeave), which needs fairness and ENABLED;
and the counterexamples.

## 7. Not modelled

- Access control: `Authorized` is two look-ups in lists of the configuration and `authenticated` a
  call to the identity provider; neither keeps state, and written in TLA+ the code would be its own
  reference definition. Whether a request is allowed is an input of JobQueue and Secrets.
- The CLI (one HTTP request per command and its printing), routing, TLS, defaults, logging.
- Inside modelled components: the load balancer that asks /healthz, the worker's RESTART jobs
  (nothing makes one), which ball is the newest, the typed fields of a configuration (MultiMerge
  ignores those of the overriding layers), configuration maps deeper than two keys, how templates
  render, how versions and ports are read off pods, the markers of unpacked balls. A message that does not
  decode (`api/queue/queue.go:48-52`) is no step of JobQueue: the API's own jobs all decode, and one that does
  not would be left unacknowledged with the Receive going on.

## 8. Where to go on

1. Fleet over many clusters.
2. The daemon's 408 and the worker's reading of it in one refinement.
3. GKE with several Deployments, and the compilation of `compile.go` against the merge on the host.
