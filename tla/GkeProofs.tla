------------------------------ MODULE GkeProofs ------------------------------
(***************************************************************************)
(* Safety of GKE deploys, for every number of jobs, threads and pods and    *)
(* whatever fails.                                                          *)
(***************************************************************************)
EXTENDS GkeJob, TLAPS

\* What a job has done by each of its program counters.
JobShape ==
    \A j \in Job :
       /\ pc[j] \in {"none", "expand"} => defs[j] = "none"
       /\ pc[j] \in {"compile", "defs", "apply"} => j \in dirs
       /\ pc[j] = "done" /\ defs[j] # "none" => j \notin dirs
       /\ pc[j] \in {"none", "expand", "compile", "defs", "apply", "get", "create", "update"}
             => j \notin touched
       /\ pc[j] \in {"patch", "sleep", "settle"} => j \in touched
       /\ result[j] # "none" => pc[j] = "done"
       /\ result[j] = "INCOMPLETE" => j \notin touched
       /\ result[j] = "COMPLETE" => j \in touched

\* A job that looks at the pods of a template of its own has seen one of them start.
LooksAtItsOwn == \A j \in Job : pc[j] = "settle" /\ Own(j) => spec # NoSpec /\ OfSpec # {}

\* Once a job has written the Deployment, it is there.
WrittenIsThere == last # NoJob => spec # NoSpec

GkeInv ==
    /\ TypeOK
    /\ JobShape
    /\ ImageOfTheLastUpdate
    /\ WrittenIsThere
    /\ LooksAtItsOwn

LEMMA NoSpecIsNoTemplate == NoSpec \notin Template
  BY JobAssumption DEF NoSpec, Template

\* The initial states.
LEMMA GkeInit == Init => GkeInv
<1>1. SUFFICES ASSUME Init PROVE GkeInv
  OBVIOUS
<1>2. TypeOK
  BY <1>1 DEF Init, TypeOK, Defs, ActionStatus, Template, PodRecord, NoPod
<1>3. JobShape /\ ImageOfTheLastUpdate /\ WrittenIsThere /\ LooksAtItsOwn
  BY <1>1 DEF Init, JobShape, ImageOfTheLastUpdate, WrittenIsThere, LooksAtItsOwn
<1>4. QED
  BY <1>2, <1>3 DEF GkeInv

-----------------------------------------------------------------------------
\* A step of a job that leaves the Deployment and the pods alone.
LEMMA LocalStep ==
    ASSUME NEW j \in Job, GkeInv, UNCHANGED <<spec, pods, touched, last>>,
           \/ GetConfigBall(j) \/ ExpandConfigBall(j) \/ CompileConfig(j) \/ ResourceDefs(j)
           \/ GkeApplyDeployment(j) \/ GetDeployment(j) \/ SettleSleep(j) \/ Settled(j)
           \/ SettleTimesOut(j) \/ CreateDeployment(j) \/ CallFails(j)
    PROVE  GkeInv'
<1> USE DEF GkeInv
<1>1. TypeOK'
  BY DEF TypeOK, AtWork, Defs, ActionStatus, GetConfigBall, ExpandConfigBall, CompileConfig,
         ResourceDefs, GkeApplyDeployment, GetDeployment, SettleSleep, Settled,
         SettleTimesOut, CreateDeployment, CallFails, Goes, Goto, Returns, Generate, OnlineResources, Writes
<1>2. JobShape'
  BY DEF TypeOK, JobShape, GetConfigBall, ExpandConfigBall, CompileConfig, ResourceDefs,
         GkeApplyDeployment, GetDeployment, SettleSleep, Settled, SettleTimesOut,
         CreateDeployment, CallFails, Goes, Goto, Returns, Generate, OnlineResources, Writes
<1>3. ImageOfTheLastUpdate' /\ WrittenIsThere'
  BY DEF ImageOfTheLastUpdate, WrittenIsThere
<1>4. LooksAtItsOwn'
  <2>1. \A i \in Job : pc'[i] = "settle" => pc[i] = "settle" \/ (i = j /\ SettleSleep(j))
    BY DEF TypeOK, GetConfigBall, ExpandConfigBall, CompileConfig, ResourceDefs,
           GkeApplyDeployment, GetDeployment, SettleSleep, Settled, SettleTimesOut,
           CreateDeployment, CallFails, Goes, Goto, Returns
  <2>2. SettleSleep(j) /\ Own(j) => spec # NoSpec /\ OfSpec # {}
    BY JobAssumption DEF SettleSleep, Own, WrittenIsThere
  <2>3. QED
    BY <2>1, <2>2 DEF LooksAtItsOwn, Own, OfSpec
<1>5. QED
  BY <1>1, <1>2, <1>3, <1>4

\* Writing the whole template, by Create or Update, whether or not the job hears of it.
LEMMA WriteStep ==
    ASSUME NEW j \in Job, GkeInv, Writes(j, NoJob), UNCHANGED pods,
           pc[j] \in {"create", "update"},
           Goes(j, "sleep") \/ Goes(j, "patch") \/ Returns(j, "FAILED")
    PROVE  GkeInv'
<1> USE DEF GkeInv
<1>1. spec' = [version |-> VersionOf[j], stamp |-> NoJob] /\ spec' \in Template
  BY JobAssumption DEF Writes, Template
<1>2. TypeOK'
  BY <1>1 DEF TypeOK, AtWork, ActionStatus, Writes, Goes, Goto, Returns
<1>3. JobShape'
  BY DEF TypeOK, JobShape, Writes, Goes, Goto, Returns
<1>4. ImageOfTheLastUpdate' /\ WrittenIsThere'
  BY <1>1, NoSpecIsNoTemplate DEF ImageOfTheLastUpdate, WrittenIsThere, Writes
<1>5. LooksAtItsOwn'
  BY JobAssumption DEF LooksAtItsOwn, Own, Writes, TypeOK, Goes, Goto, Returns
<1>6. QED
  BY <1>2, <1>3, <1>4, <1>5

\* Patching the restart annotation.
LEMMA PatchStep ==
    ASSUME NEW j \in Job, GkeInv, pc[j] = "patch",
           spec' = [spec EXCEPT !.stamp = j], UNCHANGED <<pods, touched, last>>,
           Goes(j, "sleep") \/ Returns(j, "FAILED")
    PROVE  GkeInv'
<1> USE DEF GkeInv
<1>1. spec' = [version |-> spec.version, stamp |-> j] /\ spec' \in Template
  BY DEF TypeOK, Template, NoSpec
<1>2. TypeOK'
  BY <1>1 DEF TypeOK, AtWork, ActionStatus, Goes, Goto, Returns
<1>3. JobShape'
  BY DEF TypeOK, JobShape, Goes, Goto, Returns
<1>4. ImageOfTheLastUpdate' /\ WrittenIsThere'
  BY <1>1, NoSpecIsNoTemplate DEF ImageOfTheLastUpdate, WrittenIsThere
<1>5. LooksAtItsOwn'
  <2>1. ASSUME NEW i \in Job, pc'[i] = "settle" PROVE ~Own(i)'
    BY <1>1, <2>1, JobAssumption DEF Own, TypeOK, Goes, Goto, Returns
  <2>2. QED
    BY <2>1 DEF LooksAtItsOwn
<1>6. QED
  BY <1>2, <1>3, <1>4, <1>5

\* A step of the cluster starts a pod, changes one, or removes one of an older template.
LEMMA ClusterStep ==
    ASSUME GkeInv, NEW p \in Pod, StartPod(p) \/ RemovePod(p) \/ PodChanges(p)
    PROVE  GkeInv'
<1> USE DEF GkeInv
<1>1. UNCHANGED <<pc, defs, dirs, result, spec, touched, last>>
  BY DEF StartPod, RemovePod, PodChanges, jobVars, history
<1>2. TypeOK'
  <2>1. CASE StartPod(p)
    BY <2>1, <1>1 DEF StartPod, TypeOK, PodRecord
  <2>2. CASE RemovePod(p)
    BY <2>2, <1>1 DEF RemovePod, TypeOK
  <2>3. CASE PodChanges(p)
    BY <2>3, <1>1 DEF PodChanges, TypeOK, PodRecord, NoPod
  <2>4. QED
    BY <2>1, <2>2, <2>3
<1>3. OfSpec # {} => OfSpec' # {}
  <2>1. SUFFICES ASSUME NEW q \in Pod, pods[q].of = spec PROVE \E r \in Pod : pods'[r].of = spec
    BY <1>1 DEF OfSpec
  <2>2. CASE StartPod(p)
    BY <2>2 DEF StartPod, TypeOK
  <2>3. CASE RemovePod(p)
    BY <2>1, <2>3 DEF RemovePod, OfSpec, TypeOK
  <2>4. CASE PodChanges(p)
    BY <2>1, <2>4 DEF PodChanges, TypeOK, PodRecord, NoPod
  <2>5. QED
    BY <2>2, <2>3, <2>4
<1>4. JobShape' /\ ImageOfTheLastUpdate' /\ WrittenIsThere' /\ LooksAtItsOwn'
  BY <1>1, <1>3 DEF JobShape, ImageOfTheLastUpdate, WrittenIsThere, LooksAtItsOwn, Own
<1>5. QED
  BY <1>2, <1>4

\* The worker dies: its jobs are lost where they were.
LEMMA DeathStep == GkeInv /\ WorkerDies => GkeInv'
<1> SUFFICES ASSUME GkeInv, WorkerDies PROVE GkeInv'
  OBVIOUS
<1> USE DEF GkeInv, WorkerDies
<1>1. TypeOK'
  BY DEF TypeOK
<1>2. JobShape'
  BY DEF TypeOK, JobShape, AtWork
<1>3. ImageOfTheLastUpdate' /\ WrittenIsThere'
  BY DEF ImageOfTheLastUpdate, WrittenIsThere
<1>4. LooksAtItsOwn'
  BY DEF LooksAtItsOwn, Own, OfSpec, TypeOK
<1>5. QED
  BY <1>1, <1>2, <1>3, <1>4

\* The invariant holds after every step.
LEMMA GkeStep == GkeInv /\ [Next]_vars => GkeInv'
<1> SUFFICES ASSUME GkeInv, [Next]_vars PROVE GkeInv'
  OBVIOUS
<1>1. ASSUME NEW j \in Job, JobStep(j) \/ CallFails(j) \/ StatusPanics(j) PROVE GkeInv'
  <2>1. CASE StatusPanics(j)
    BY <2>1, DeathStep DEF StatusPanics
  <2>2. CASE UpdateDeployment(j)
    BY <2>2, WriteStep DEF UpdateDeployment
  <2>3. CASE PatchDeployment(j)
    BY <2>3, PatchStep DEF PatchDeployment
  <2>4. CASE CreateDeployment(j)
    <3>1. CASE Writes(j, NoJob) /\ Goes(j, "sleep")
      BY <2>4, <3>1, WriteStep DEF CreateDeployment
    <3>2. CASE UNCHANGED <<spec, touched, last>>
      BY <2>4, <3>2, LocalStep DEF CreateDeployment
    <3>3. QED
      BY <2>4, <3>1, <3>2 DEF CreateDeployment
  <2>5. CASE CallFails(j)
    <3>1. CASE UNCHANGED <<spec, touched, last>>
      BY <2>5, <3>1, LocalStep DEF CallFails
    <3>2. CASE pc[j] \in {"create", "update"} /\ Writes(j, NoJob)
      BY <2>5, <3>2, WriteStep DEF CallFails
    <3>3. CASE pc[j] = "patch" /\ spec' = [spec EXCEPT !.stamp = j] /\ UNCHANGED history
      BY <2>5, <3>3, PatchStep DEF CallFails, history
    <3>4. QED
      BY <2>5, <3>1, <3>2, <3>3 DEF CallFails
  <2>6. CASE \/ GetConfigBall(j) \/ ExpandConfigBall(j) \/ CompileConfig(j)
             \/ ResourceDefs(j) \/ GkeApplyDeployment(j) \/ GetDeployment(j)
             \/ SettleSleep(j) \/ Settled(j) \/ SettleTimesOut(j)
    <3>1. UNCHANGED <<spec, pods, touched, last>>
      BY <2>6 DEF GetConfigBall, ExpandConfigBall, CompileConfig, ResourceDefs,
                  GkeApplyDeployment, GetDeployment, SettleSleep, Settled, SettleTimesOut
    <3>2. QED
      BY <2>6, <3>1, LocalStep
  <2>7. QED
    BY <1>1, <2>1, <2>2, <2>3, <2>4, <2>5, <2>6 DEF JobStep
<1>2. CASE WorkerDies
  BY <1>2, DeathStep
<1>3. ASSUME NEW p \in Pod, StartPod(p) \/ RemovePod(p) \/ PodChanges(p) PROVE GkeInv'
  BY <1>3, ClusterStep
<1>4. CASE UNCHANGED vars
  BY <1>4 DEF vars, GkeInv, TypeOK, JobShape, ImageOfTheLastUpdate, WrittenIsThere,
              LooksAtItsOwn, Own, OfSpec
<1>5. QED
  BY <1>1, <1>2, <1>3, <1>4 DEF Next, Rollout

\* The inductive invariant holds throughout (processDeployJobGKE, ApplyDeployObject).
THEOREM GkeInvariant == Spec => []GkeInv
  BY GkeInit, GkeStep, PTL DEF Spec

\* Every variable of the GKE jobs keeps its type: no job is somewhere the code has no
\* statement for, whatever fails and whoever dies.
THEOREM GkeTyped == Spec => []TypeOK
<1>1. GkeInv => TypeOK
  BY DEF GkeInv
<1>2. QED
  BY <1>1, GkeInvariant, PTL

\* No job reads a directory that is gone or leaves one behind (wipeTempDir).
THEOREM WipesItsOwnDirAlways == Spec => []WipesItsOwnDir
<1>1. GkeInv => WipesItsOwnDir
  BY DEF GkeInv, JobShape, WipesItsOwnDir
<1>2. QED
  BY <1>1, GkeInvariant, PTL

\* An error means the Deployment is untouched, COMPLETE that it was written.
THEOREM IncompleteTouchedNothingAlways == Spec => []IncompleteTouchedNothing
<1>1. GkeInv => IncompleteTouchedNothing
  BY DEF GkeInv, JobShape, IncompleteTouchedNothing
<1>2. QED
  BY <1>1, GkeInvariant, PTL

\* The Deployment runs the version of the job that wrote it last (ApplyDeployObject).
THEOREM ImageOfTheLastUpdateAlways == Spec => []ImageOfTheLastUpdate
<1>1. GkeInv => ImageOfTheLastUpdate
  BY DEF GkeInv
<1>2. QED
  BY <1>1, GkeInvariant, PTL

\* A COMPLETE job whose Deployment is as it left it has a ready pod (getClusterStatus).
THEOREM CompleteMeansServedAlways == Spec => CompleteMeansServed
<1>1. ASSUME GkeInv, [Next]_vars, NEW j \in Job,
             result[j] # "COMPLETE", result'[j] = "COMPLETE", Own(j)
      PROVE  Ready \cap OfSpec # {}
  <2>1. pc[j] = "settle" /\ ClusterStatus
    <3>1. PICK i \in Job : JobStep(i) \/ CallFails(i)
      BY <1>1 DEF Next, vars, StatusPanics, WorkerDies, Rollout, StartPod, RemovePod,
                  PodChanges, jobVars
    <3>2. Settled(i) /\ i = j
      BY <1>1, <3>1 DEF GkeInv, TypeOK, JobStep, GetConfigBall, ExpandConfigBall,
            CompileConfig, ResourceDefs, GkeApplyDeployment, GetDeployment, CreateDeployment,
            UpdateDeployment, PatchDeployment, SettleSleep, Settled, SettleTimesOut,
            CallFails, Goes, Goto, Returns
    <3>3. QED
      BY <3>2 DEF Settled
  <2>2. PICK p \in Pod : pods[p].of = spec /\ spec # NoSpec
    BY <1>1, <2>1 DEF GkeInv, LooksAtItsOwn, OfSpec
  <2>3. pods[p].state = "ready"
    BY <2>1, <2>2 DEF ClusterStatus, Existing, NoPod
  <2>4. QED
    BY <2>2, <2>3 DEF Ready, OfSpec
<1>2. GkeInv /\ [Next]_vars =>
        [\A j \in Job : result[j] # "COMPLETE" /\ result'[j] = "COMPLETE"
                          /\ Own(j) => Ready \cap OfSpec # {}]_vars
  BY <1>1
<1>3. QED
  BY <1>2, GkeInvariant, PTL DEF Spec, CompleteMeansServed
=============================================================================
