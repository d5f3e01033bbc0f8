--------------------------- MODULE ControldProofs ----------------------------
(***************************************************************************)
(* Proofs about Controld, for every set of apps, versions and requests and  *)
(* every bound.                                                             *)
(***************************************************************************)
EXTENDS Controld, TLAPS

USE VersionAssumption, StaleAssumption, FaultsAssumption, ParsedAssumption,
    PeriodAssumption, RunnerAssumption, ReqAssumption, TimeoutAssumption

LEMMA InitTyped == Init => TypeOK
  BY DEF Init, NewDeployCache, HostInit, StatusInit, RunnerInit, HandlerInit, TypeOK,
     CacheTypeOK, HostTypeOK, StatusTypeOK, RunnerTypeOK, HandlerTypeOK, EmptyMap,
     ZeroDeploy, Deploy, NoStatuses, NoStatus, Status, MaybeNumber, MaybeVersion, RunnerPC,
     NoTargets, PhaseS, DeployPC, Code

\* The operations of the cache keep its type: those of the whole map ...
LEMMA CacheTyped ==
  ASSUME CacheTypeOK
  PROVE  /\ CleanAndRange => CacheTypeOK'
         /\ AgeDeploys => CacheTypeOK'
         /\ CacheLost => CacheTypeOK'
         /\ UNCHANGED cacheVars => CacheTypeOK'
  <1> USE DEF CacheTypeOK, Deploy, ZeroDeploy, MaybeVersion
  <1>1. CleanAndRange => CacheTypeOK'
    BY DEF CleanAndRange, Cleaned
  <1>2. AgeDeploys => CacheTypeOK'
    BY DEF AgeDeploys, OlderDeploy, Older
  <1>3. CacheLost => CacheTypeOK'
    BY DEF CacheLost, EmptyMap
  <1>4. UNCHANGED cacheVars => CacheTypeOK'
    BY DEF cacheVars
  <1> QED BY <1>1, <1>2, <1>3, <1>4

\* ... and those of one entry.
LEMMA EntryTyped ==
  ASSUME CacheTypeOK, NEW a \in App
  PROVE  /\ \A v \in MaybeVersion : AddDeploy(a, v) => CacheTypeOK'
         /\ \A err \in {"nil", "failed"} : MarkDeployComplete(a, err) => CacheTypeOK'
         /\ DeleteDeploy(a) => CacheTypeOK'
         /\ MarkDeployStart(a) /\ iter' = iter \ {a} => CacheTypeOK'
  <1> USE DEF CacheTypeOK, Deploy, ZeroDeploy, MaybeVersion
  <1>1. ASSUME NEW v \in MaybeVersion, AddDeploy(a, v) PROVE CacheTypeOK'
    BY <1>1 DEF AddDeploy, NewDeploy
  <1>2. ASSUME NEW err \in {"nil", "failed"}, MarkDeployComplete(a, err) PROVE CacheTypeOK'
    BY <1>2 DEF MarkDeployComplete, CompletedDeploy
  <1>3. DeleteDeploy(a) => CacheTypeOK'
    BY DEF DeleteDeploy
  <1>4. MarkDeployStart(a) /\ iter' = iter \ {a} => CacheTypeOK'
    BY DEF MarkDeployStart, StartedDeploy
  <1> QED BY <1>1, <1>2, <1>3, <1>4

LEMMA TypeStep == TypeOK /\ [Next]_vars => TypeOK'
  <1> SUFFICES ASSUME TypeOK, [Next]_vars PROVE TypeOK'
    OBVIOUS
  <1> USE DEF TypeOK
  <1>1. CASE Runner
    <2>1. RunnerNext /\ UNCHANGED statusVars /\ UNCHANGED handlerVars
      BY <1>1 DEF Runner
    <2>2. StatusTypeOK' /\ HandlerTypeOK'
      BY <2>1 DEF statusVars, handlerVars, StatusTypeOK, HandlerTypeOK
    <2>3. CASE StartLap
      BY <2>2, <2>3, CacheTyped DEF StartLap, CacheTypeOK, hostVars, HostTypeOK,
         RunnerTypeOK, PhaseS, RunnerPC
    <2> USE <2>2 DEF hostVars, HostTypeOK, RunnerTypeOK, RunnerPC
    <2>4. CASE RangeEnds
      BY <2>4, CacheTyped DEF RangeEnds, PhaseS, Targeted
    <2>5. ASSUME NEW a \in App, SetOOR(a) PROVE TypeOK'
      BY <2>5, CacheTyped DEF SetOOR, TouchOOR, Done, PhaseS
    <2>6. CASE AptUpdate
      BY <2>6, CacheTyped DEF AptUpdate, Fail, PhaseS, Targeted
    <2>7. CASE AptInstall
      BY <2>7, CacheTyped DEF AptInstall, Fail, InstallPackages, PhaseS, Targeted
    <2>8. CASE ConfigsEnd
      BY <2>8, CacheTyped DEF ConfigsEnd, PhaseS
    <2>9. CASE SystemdReload
      BY <2>9, CacheTyped DEF SystemdReload, Fail, PhaseS, Targeted
    <2>10. CASE SystemdRestart
      BY <2>10, CacheTyped DEF SystemdRestart, RestartServices, Fail, PhaseS, MaybeVersion,
         Targeted
    <2>11. ASSUME NEW a \in App, UnsetOOR(a) PROVE TypeOK'
      BY <2>11, CacheTyped DEF UnsetOOR, Unmarked, RemoveOOR, Done, Targeted, PhaseS
    <2>12. CASE EndLap
      BY <2>12, CacheTyped DEF EndLap, NoTargets, MaybeVersion, PhaseS
    <2>13. ASSUME NEW a \in App, RangeOver(a) PROVE TypeOK'
      BY <2>13, EntryTyped DEF RangeOver, PhaseS, CacheTypeOK, Deploy, MaybeVersion
    <2>14. ASSUME NEW a \in App, PullAndMergeConfig(a) PROVE TypeOK'
      BY <2>14, CacheTyped DEF PullAndMergeConfig, Written, WriteConfig, Fail, MaybeVersion,
         PhaseS, Targeted
    <2>15. ASSUME NEW a \in App, MarkTarget(a) PROVE TypeOK'
      BY <2>15, EntryTyped DEF MarkTarget, PhaseS
    <2> QED
      BY <2>1, <2>3, <2>4, <2>5, <2>6, <2>7, <2>8, <2>9, <2>10, <2>11, <2>12, <2>13,
         <2>14, <2>15 DEF RunnerNext
  <1>2. CASE Handler
    <2>1. /\ HandlerNext
          /\ HostTypeOK' /\ StatusTypeOK' /\ RunnerTypeOK'
      BY <1>2 DEF Handler, hostVars, statusVars, runnerVars, HostTypeOK, StatusTypeOK,
         RunnerTypeOK, PhaseS
    <2> USE DEF HandlerTypeOK, DeployPC, Code, MaybeVersion
    <2>2. ASSUME NEW r \in Req, Add(r) PROVE TypeOK'
      <3>1. CacheTypeOK'
        BY <2>2, CacheTyped, EntryTyped DEF Add
      <3> QED BY <2>1, <2>2, <3>1 DEF Add, Send
    <2>3. ASSUME NEW r \in Req, PollCompleted(r) PROVE TypeOK'
      BY <2>1, <2>3, CacheTyped DEF PollCompleted, ReturnWith
    <2>4. ASSUME NEW r \in Req, PollAgain(r) PROVE TypeOK'
      BY <2>1, <2>4, CacheTyped DEF PollAgain
    <2>5. ASSUME NEW r \in Req, ConvergeSucceeds(r) PROVE TypeOK'
      BY <2>1, <2>5, CacheTyped DEF ConvergeSucceeds, ReturnWith
    <2>6. ASSUME NEW r \in Req, ConvergeTimesOut(r) PROVE TypeOK'
      BY <2>1, <2>6, CacheTyped DEF ConvergeTimesOut, ReturnWith
    <2>7. ASSUME NEW r \in Req, Return(r) PROVE TypeOK'
      BY <2>1, <2>7, EntryTyped DEF Return
    <2>8. ASSUME NEW r \in Req, GoroutineEnds(r) PROVE TypeOK'
      BY <2>1, <2>8, CacheTyped DEF GoroutineEnds
    <2>9. ASSUME NEW r \in Req, HttpTimeout(r) PROVE TypeOK'
      BY <2>1, <2>9, CacheTyped DEF HttpTimeout
    <2>10. ASSUME NEW r \in Req, NEW v \in Version, Request(r, v) PROVE TypeOK'
      BY <2>1, <2>10, CacheTyped DEF Request
    <2>11. ASSUME NEW p \in probes, ProbeEnds(p) PROVE TypeOK'
      BY <2>1, <2>11, CacheTyped DEF ProbeEnds
    <2> QED
      BY <2>1, <2>2, <2>3, <2>4, <2>5, <2>6, <2>7, <2>8, <2>9, <2>10, <2>11 DEF HandlerNext,
         HandlerStep
  <1>3. CASE StatusPoll
    <2>1. /\ StatusNext
          /\ CacheTypeOK' /\ HostTypeOK' /\ RunnerTypeOK' /\ HandlerTypeOK'
      BY <1>3 DEF StatusPoll, cacheVars, hostVars, runnerVars, handlerVars, CacheTypeOK,
         HostTypeOK, RunnerTypeOK, PhaseS, HandlerTypeOK
    <2> USE DEF StatusTypeOK, Status, MaybeNumber, NoStatuses, NoStatus
    <2>2. CASE ListInstalled
      BY <2>1, <2>2 DEF ListInstalled, Listed, Done, HostTypeOK, MaybeVersion
    <2>3. CASE ListFails
      BY <2>1, <2>3 DEF ListFails
    <2>4. CASE Publish
      BY <2>1, <2>4 DEF Publish
    <2>5. ASSUME NEW a \in App, ProbeRunning(a) PROVE TypeOK'
      <3>1. RunningVersion(a) \in MaybeNumber
        BY DEF RunningVersion, HostTypeOK, MaybeVersion
      <3>2. PICK v \in MaybeNumber : snap' = [snap EXCEPT ![a].running = v]
        BY <2>5, <3>1 DEF ProbeRunning
      <3>3. snap' \in [App -> Status]
        BY <3>2
      <3> QED BY <2>1, <2>5, <3>3 DEF ProbeRunning
    <2> QED BY <2>1, <2>2, <2>3, <2>4, <2>5 DEF StatusNext
  <1>4. CASE Services
    BY <1>4 DEF Services, HostNext, ServiceExits, ServiceComesUp, cacheVars, statusVars,
       runnerVars, handlerVars, CacheTypeOK, HostTypeOK, StatusTypeOK, RunnerTypeOK, PhaseS,
       HandlerTypeOK, MaybeVersion
  <1>5. CASE Restart
    BY <1>5 DEF Restart, CacheLost, StatusLost, RunnerLost, HandlerLost, hostVars,
       CacheTypeOK, HostTypeOK, StatusTypeOK, RunnerTypeOK, HandlerTypeOK, EmptyMap,
       ZeroDeploy, Deploy, NoStatuses, NoStatus, Status, MaybeNumber, MaybeVersion,
       RunnerPC, NoTargets, PhaseS, DeployPC, Code
  <1>6. CASE Tick
    BY <1>6, CacheTyped DEF Tick, hostVars, HostTypeOK, StatusTypeOK, RunnerTypeOK, PhaseS,
       HandlerTypeOK
  <1>7. CASE UNCHANGED vars
    BY <1>7 DEF vars, cacheVars, hostVars, statusVars, runnerVars, handlerVars, CacheTypeOK,
       HostTypeOK, StatusTypeOK, RunnerTypeOK, PhaseS, HandlerTypeOK
  <1> QED
    BY <1>1, <1>2, <1>3, <1>4, <1>5, <1>6, <1>7 DEF Next, Panic, Crash

\* Every variable keeps its type (checked on small instances as TypeOK).
THEOREM Typed == Spec => []TypeOK
  BY InitTyped, TypeStep, PTL DEF Spec

-----------------------------------------------------------------------------
(* The inductive invariant *)

\* What the types say of the fields the arguments below compute with.
LEMMA Fields ==
  ASSUME TypeOK
  PROVE  /\ \A a \in App : /\ deploys[a].stage \in {"absent", "requested", "started", "completed"}
                           /\ deploys[a].err \in {"nil", "failed"}
                           /\ deploys[a].version \in MaybeVersion
                           /\ deploys[a].requestedAgo \in Nat
                           /\ deploys[a].completedAgo \in Nat
         /\ \A r \in Req : waited[r] \in Nat /\ AppOf[r] \in App
         /\ since \in Nat
  BY DEF TypeOK, CacheTypeOK, Deploy, HandlerTypeOK, RunnerTypeOK, PhaseS

LEMMA InitIInv == Init => IInv
  <1> SUFFICES ASSUME Init PROVE IInv
    OBVIOUS
  <1>1. TypeOK
    BY InitTyped
  <1>2. /\ \A a \in App : deploys[a].stage = "absent" /\ targets[a] = NoVersion
        /\ \A r \in Req : pc[r] = "idle"
        /\ rpc = "sleep" /\ targets = NoTargets /\ batchErr = "nil"
    BY DEF Init, NewDeployCache, EmptyMap, ZeroDeploy, RunnerInit, NoTargets, HandlerInit
  <1> QED
    BY <1>1, <1>2 DEF IInv, OwnEntry, NoOrphans, BatchIsCache, VersionsReal, Punctual,
       CompletedIsYoung, EntryIsYoung, RunnerShape, BatchDone, BatchWentWell,
       CompletedIsInPlace, ResultOfEntry, Deploying, Present, Completed, Timed, Targeted

LEMMA RestartIInv == TypeOK' /\ Restart => IInv'
  <1> SUFFICES ASSUME TypeOK', Restart PROVE IInv'
    OBVIOUS
  <1>2. /\ \A a \in App : deploys'[a].stage = "absent" /\ targets'[a] = NoVersion
        /\ \A r \in Req : pc'[r] = "idle"
        /\ rpc' = "sleep" /\ targets' = NoTargets /\ batchErr' = "nil"
    BY DEF Restart, CacheLost, EmptyMap, ZeroDeploy, RunnerLost, NoTargets, HandlerLost
  <1> QED
    BY <1>2 DEF IInv, OwnEntry, NoOrphans, BatchIsCache, VersionsReal, Punctual,
       CompletedIsYoung, EntryIsYoung, RunnerShape, BatchDone, BatchWentWell,
       CompletedIsInPlace, ResultOfEntry, Deploying, Present, Completed, Timed, Targeted,
       NoTargets

\* The heart of the matter: whatever CleanDeploys finds in a Timely daemon is too young
\* for it, because every entry still has its goroutine.
LEMMA NothingIsStale ==
  ASSUME IInv, Timely, rpc = "sleep"
  PROVE  \A a \in App : ~Stale(deploys[a])
  <1> SUFFICES ASSUME NEW a \in App, Stale(deploys[a]) PROVE FALSE
    OBVIOUS
  <1> USE Fields DEF IInv
  <1>1. Present(a)
    BY DEF Stale, Present
  <1>2. PICK r \in Req : AppOf[r] = a /\ Deploying(r)
    BY <1>1 DEF NoOrphans
  <1>3. deploys[a].stage \in {"requested", "completed"}
    BY <1>1 DEF BatchIsCache, Present, RunnerShape, NoTargets, VersionsReal
  <1>4. CASE deploys[a].stage = "completed"
    <2>1. deploys[a].completedAgo <= WaitS
      BY <1>2, <1>4 DEF CompletedIsYoung, Completed, Deploying, Punctual, Timed, Limit,
         WaitS
    <2>2. deploys[a].requestedAgo <= 2 * MaxBatchS + DeployIntervalS + deploys[a].completedAgo
      BY <1>4 DEF EntryIsYoung
    <2> QED BY <1>4, <2>1, <2>2 DEF Stale, Timely, WaitS
  <1>5. CASE deploys[a].stage = "requested"
    <2>1. since <= DeployIntervalS
      BY DEF TypeOK, RunnerTypeOK, PhaseS
    <2>2. deploys[a].requestedAgo <= MaxBatchS + since
      BY <1>5 DEF EntryIsYoung
    <2> QED BY <1>5, <2>1, <2>2 DEF Stale, Timely, WaitS
  <1> QED BY <1>3, <1>4, <1>5

\* The requests' half of the invariant, and the states it reads.
RequestsOK == OwnEntry /\ NoOrphans /\ VersionsReal /\ CompletedIsYoung /\ ResultOfEntry

LEMMA RequestsFrame ==
  ASSUME RequestsOK, UNCHANGED <<deploys, pc, version, waited, result>>
  PROVE  RequestsOK'
  BY DEF RequestsOK, OwnEntry, NoOrphans, VersionsReal, CompletedIsYoung, ResultOfEntry,
     Deploying, Present, Completed

LEMMA TickIInv == IInv /\ Timely /\ TypeOK' /\ Tick => IInv'
  <1> SUFFICES ASSUME IInv, Timely, TypeOK', Tick PROVE IInv'
    OBVIOUS
  <1> USE Fields DEF IInv, Tick
  <1>1. \A a \in App : /\ deploys'[a].stage = deploys[a].stage
                       /\ deploys'[a].version = deploys[a].version
                       /\ deploys'[a].err = deploys[a].err
                       /\ deploys'[a].requestedAgo \in {deploys[a].requestedAgo, deploys[a].requestedAgo + 1}
                       /\ deploys'[a].completedAgo \in {deploys[a].completedAgo, deploys[a].completedAgo + 1}
    BY DEF AgeDeploys, OlderDeploy, Older
  <1>2. \A r \in Req : waited'[r] = IF Timed(r) THEN waited[r] + 1 ELSE waited[r]
    OBVIOUS
  <1>3. OwnEntry' /\ NoOrphans' /\ VersionsReal' /\ ResultOfEntry'
    BY <1>1 DEF OwnEntry, NoOrphans, VersionsReal, ResultOfEntry, Deploying, Present,
       Completed
  <1>4. CompletedIsYoung'
    BY <1>1, <1>2 DEF CompletedIsYoung, Deploying, Completed, Timed
  <1>5. Punctual'
    BY <1>2 DEF Punctual, Timed, Limit
  <1>6. \A a \in App : Completed(a) => deploys[a].completedAgo <= StaleDeployCompletedS
    BY DEF NoOrphans, Completed, Present, CompletedIsYoung, Deploying, Punctual, Timed,
       Limit, WaitS, Timely
  <1>7. \A a \in App : Completed(a) => deploys'[a].completedAgo = deploys[a].completedAgo + 1
    BY <1>6 DEF AgeDeploys, OlderDeploy, Older, Completed, Present
  <1>8. EntryIsYoung'
    BY <1>1, <1>7 DEF EntryIsYoung, Completed, BatchPC, RunnerPC
  <1>9. BatchIsCache' /\ RunnerShape' /\ BatchDone' /\ CompletedIsInPlace'
    BY <1>1 DEF BatchIsCache, RunnerShape, BatchDone, BatchWentWell, CompletedIsInPlace,
       Completed, Targeted, hostVars
  <1> QED BY <1>3, <1>4, <1>5, <1>8, <1>9

\* Status polls, and services that exit or come back, leave the deploys alone.
LEMMA OutsideIInv == IInv /\ TypeOK' /\ (StatusPoll \/ Services) => IInv'
  <1> SUFFICES ASSUME IInv, TypeOK', StatusPoll \/ Services PROVE IInv'
    OBVIOUS
  <1>1. /\ UNCHANGED <<deploys, iter>>
        /\ UNCHANGED <<rpc, targets, pending, batchErr, since>>
        /\ UNCHANGED <<http, pc, version, result, waited, probes>>
        /\ UNCHANGED <<installed, configured>>
        /\ \A a \in App : running'[a] \in {running[a], NoVersion, installed[a]}
    BY DEF StatusPoll, Services, HostNext, ServiceExits, ServiceComesUp, cacheVars,
       runnerVars, handlerVars, hostVars, IInv, TypeOK, HostTypeOK
  <1>2. RequestsOK'
    BY <1>1, RequestsFrame DEF IInv, RequestsOK
  <1>3. Punctual' /\ BatchIsCache' /\ EntryIsYoung' /\ RunnerShape'
    BY <1>1 DEF IInv, Punctual, BatchIsCache, EntryIsYoung, RunnerShape, Timed, Limit,
       Targeted
  <1>4. BatchDone' /\ CompletedIsInPlace'
    BY <1>1 DEF IInv, BatchDone, BatchWentWell, CompletedIsInPlace, Completed, Targeted
  <1> QED BY <1>2, <1>3, <1>4 DEF IInv, RequestsOK

\* The rest of the invariant, and what it reads besides the entries' versions and stages.
WorkOK ==
    Punctual /\ BatchIsCache /\ EntryIsYoung /\ RunnerShape /\ BatchDone /\ CompletedIsInPlace

LEMMA WorkFrame ==
  ASSUME Punctual', BatchIsCache, EntryIsYoung, RunnerShape, BatchDone, CompletedIsInPlace,
         UNCHANGED <<deploys, iter, rpc, targets, pending, batchErr, since,
                     installed, configured, running>>
  PROVE  WorkOK'
  BY DEF WorkOK, BatchIsCache, EntryIsYoung, RunnerShape, BatchDone, BatchWentWell,
     CompletedIsInPlace, Targeted, Completed

LEMMA HandlerIInv == IInv /\ Timely /\ TypeOK' /\ Handler => IInv'
  <1> SUFFICES ASSUME IInv, TypeOK', Handler PROVE RequestsOK' /\ WorkOK'
    BY DEF IInv, RequestsOK, WorkOK
  <1> USE Fields DEF IInv
  <1>0. /\ UNCHANGED <<rpc, targets, pending, batchErr, since, installed, configured, running>>
        /\ HandlerNext
    BY DEF Handler, runnerVars, hostVars
  <1>t. /\ pc \in [Req -> DeployPC]
        /\ version \in [Req -> MaybeVersion]
        /\ result \in [Req -> Code]
        /\ waited \in [Req -> Nat]
        /\ deploys \in [App -> Deploy]
    BY DEF TypeOK, HandlerTypeOK, CacheTypeOK
  <1> USE DEF RequestsOK, OwnEntry, NoOrphans, VersionsReal, CompletedIsYoung, ResultOfEntry,
     Deploying, Present, Completed, Punctual, Timed, Limit
  <1>1. ASSUME NEW r \in Req, Add(r) PROVE RequestsOK' /\ WorkOK'
    <2>1. CASE AddDeploy(AppOf[r], version[r]) /\ pc' = [pc EXCEPT ![r] = "poll"]
                 /\ waited' = [waited EXCEPT ![r] = 0] /\ UNCHANGED result
      <3>1. /\ deploys' = [deploys EXCEPT ![AppOf[r]] = NewDeploy(version[r])]
            /\ deploys[AppOf[r]].stage = "absent"
            /\ UNCHANGED <<iter, version>>
        BY <1>1, <2>1 DEF AddDeploy, Add
      <3>2. \A q \in Req : Deploying(q) => AppOf[q] # AppOf[r]
        BY <3>1
      <3>3. RequestsOK'
        BY <1>1, <1>t, <2>1, <3>1, <3>2 DEF NewDeploy, Add
      <3>4. Punctual'
        BY <1>0, <1>1, <1>t, <2>1 DEF Add
      <3>5. targets[AppOf[r]] = NoVersion \/ (rpc = "mark" /\ AppOf[r] \notin pending)
        BY <3>1 DEF BatchIsCache
      <3>6. BatchIsCache' /\ EntryIsYoung' /\ RunnerShape'
        BY <1>0, <1>t, <3>1, <3>5 DEF BatchIsCache, EntryIsYoung, RunnerShape, NewDeploy,
           Targeted, BatchPC
      <3>7. BatchDone' /\ CompletedIsInPlace'
        BY <1>0, <1>t, <3>1 DEF BatchDone, BatchWentWell, CompletedIsInPlace, NewDeploy,
           Targeted
      <3> QED BY <3>3, <3>4, <3>6, <3>7 DEF WorkOK
    <2>2. CASE Send(r, 429) /\ UNCHANGED waited /\ UNCHANGED cacheVars
      <3>1. Punctual' /\ UNCHANGED <<deploys, iter>>
        BY <1>0, <1>1, <1>t, <2>2 DEF Add, Send, cacheVars
      <3>2. RequestsOK'
        BY <1>1, <1>t, <2>2, <3>1 DEF Add, Send
      <3> QED BY <1>0, <3>1, <3>2, WorkFrame
    <2> QED BY <1>1, <2>1, <2>2 DEF Add
  <1>2. ASSUME NEW r \in Req, PollCompleted(r) PROVE RequestsOK' /\ WorkOK'
    <2>1. Punctual' /\ UNCHANGED <<deploys, iter, version>>
      BY <1>0, <1>2, <1>t DEF PollCompleted, ReturnWith, cacheVars
    <2>2. deploys[AppOf[r]].completedAgo <= PollS
      BY <1>2 DEF PollCompleted
    <2>3. RequestsOK'
      BY <1>2, <1>t, <2>1, <2>2 DEF PollCompleted, ReturnWith, WaitS
    <2> QED BY <1>0, <2>1, <2>3, WorkFrame
  <1>3. ASSUME NEW r \in Req, PollAgain(r) PROVE RequestsOK' /\ WorkOK'
    <2>1. Punctual' /\ UNCHANGED <<deploys, iter, version, pc, result>>
      BY <1>0, <1>3, <1>t DEF PollAgain, cacheVars
    <2>2. RequestsOK'
      BY <1>3, <1>t, <2>1 DEF PollAgain
    <2> QED BY <1>0, <2>1, <2>2, WorkFrame
  <1>4. ASSUME NEW r \in Req, ConvergeSucceeds(r) \/ ConvergeTimesOut(r)
        PROVE RequestsOK' /\ WorkOK'
    <2>1. /\ pc[r] = "converge"
          /\ pc' = [pc EXCEPT ![r] = "return"]
          /\ waited' = [waited EXCEPT ![r] = 0]
          /\ \E code \in {200, 408} : result' = [result EXCEPT ![r] = code]
          /\ UNCHANGED <<deploys, iter, version>>
      BY <1>4 DEF ConvergeSucceeds, ConvergeTimesOut, ReturnWith, LooksAtStatus, cacheVars
    <2>2. Punctual'
      BY <1>0, <1>t, <2>1
    <2>3. deploys[AppOf[r]].completedAgo <= WaitS
      BY <2>1 DEF WaitS
    <2>4. RequestsOK'
      BY <1>t, <2>1, <2>3
    <2> QED BY <1>0, <2>1, <2>2, <2>4, WorkFrame
  <1>5. ASSUME NEW r \in Req, Return(r) PROVE RequestsOK' /\ WorkOK'
    <2>1. /\ pc[r] = "return" /\ pc' = [pc EXCEPT ![r] = "sent"]
          /\ deploys' = [deploys EXCEPT ![AppOf[r]] = ZeroDeploy]
          /\ iter' = iter \ {AppOf[r]}
          /\ UNCHANGED <<version, result, waited>>
          /\ deploys[AppOf[r]].stage = "completed"
      BY <1>5 DEF Return, DeleteDeploy
    <2>2. RequestsOK' /\ Punctual'
      BY <1>0, <1>t, <2>1 DEF ZeroDeploy
    <2>3. BatchIsCache' /\ EntryIsYoung' /\ RunnerShape'
      BY <1>0, <1>t, <2>1 DEF BatchIsCache, EntryIsYoung, RunnerShape, ZeroDeploy, Targeted,
         BatchPC
    <2>4. BatchDone' /\ CompletedIsInPlace'
      BY <1>0, <1>t, <2>1 DEF BatchDone, BatchWentWell, CompletedIsInPlace, ZeroDeploy,
         Targeted
    <2> QED BY <2>2, <2>3, <2>4 DEF WorkOK
  <1>6. ASSUME NEW r \in Req, GoroutineEnds(r) PROVE RequestsOK' /\ WorkOK'
    <2>1. Punctual' /\ UNCHANGED <<deploys, iter, waited>>
      BY <1>0, <1>6, <1>t DEF GoroutineEnds, cacheVars
    <2>2. RequestsOK'
      BY <1>6, <1>t, <2>1 DEF GoroutineEnds
    <2> QED BY <1>0, <2>1, <2>2, WorkFrame
  <1>7. ASSUME NEW r \in Req, NEW v \in Version, Request(r, v) PROVE RequestsOK' /\ WorkOK'
    <2>1. Punctual' /\ UNCHANGED <<deploys, iter, waited, result>>
      BY <1>0, <1>7, <1>t DEF Request, cacheVars
    <2>2. RequestsOK'
      BY <1>7, <1>t, <2>1 DEF Request
    <2> QED BY <1>0, <2>1, <2>2, WorkFrame
  <1>8. CASE (\E r \in Req : HttpTimeout(r)) \/ (\E p \in probes : ProbeEnds(p))
    <2>1. UNCHANGED <<deploys, iter, pc, version, result, waited>>
      BY <1>8 DEF HttpTimeout, ProbeEnds, cacheVars
    <2>2. Punctual' /\ RequestsOK'
      BY <1>0, <2>1, RequestsFrame
    <2> QED BY <1>0, <2>1, <2>2, WorkFrame
  <1> QED
    BY <1>0, <1>1, <1>2, <1>3, <1>4, <1>5, <1>6, <1>7, <1>8 DEF HandlerNext, HandlerStep
\* A step of the batch: the cache, the targets and the clocks stay, and so does what
\* the host has of an app whose deploy is completed.
LEMMA BatchFrame ==
  ASSUME IInv, TypeOK', UNCHANGED handlerVars, UNCHANGED cacheVars, UNCHANGED <<targets, since>>,
         rpc \in BatchPC \ {"mark"}, rpc' \in BatchPC,
         \A a \in App \ Targeted : /\ installed'[a] = installed[a]
                                   /\ configured'[a] = configured[a]
                                   /\ running'[a] \in {running[a], NoVersion, installed[a]},
         RunnerShape', BatchDone'
  PROVE  IInv'
  <1> USE Fields DEF IInv
  <1>1. /\ UNCHANGED <<deploys, iter, pc, version, waited, result>>
        /\ Targeted' = Targeted
    BY DEF cacheVars, handlerVars, Targeted
  <1>2. RequestsOK'
    BY <1>1, RequestsFrame DEF RequestsOK
  <1>3. Punctual'
    BY <1>1 DEF Punctual, Timed, Limit, BatchPC
  <1>4. BatchIsCache' /\ EntryIsYoung'
    BY <1>1 DEF BatchIsCache, EntryIsYoung, BatchPC
  <1>5. \A a \in App : Completed(a) => a \notin Targeted
    BY DEF BatchIsCache, Completed, Targeted, BatchPC
  <1>6. CompletedIsInPlace'
    BY <1>1, <1>5 DEF CompletedIsInPlace, Completed
  <1> QED BY <1>2, <1>3, <1>4, <1>6 DEF RequestsOK

LEMMA BatchIInv ==
  ASSUME IInv, TypeOK', UNCHANGED handlerVars,
         \/ AptUpdate \/ AptInstall \/ ConfigsEnd \/ SystemdReload \/ SystemdRestart
         \/ \E a \in App : SetOOR(a) \/ PullAndMergeConfig(a) \/ UnsetOOR(a)
  PROVE  IInv'
  <1> USE Fields DEF IInv, BatchPC, RunnerPC, Fail, RunnerShape, BatchDone, BatchWentWell
  <1>t. /\ installed \in [App -> MaybeVersion] /\ configured \in [App -> MaybeVersion]
        /\ running \in [App -> MaybeVersion] /\ targets \in [App -> MaybeVersion]
    BY DEF TypeOK, HostTypeOK, RunnerTypeOK
  <1>1. ASSUME NEW a \in App, SetOOR(a) PROVE IInv'
    BY <1>1, BatchFrame DEF SetOOR, TouchOOR, Targeted
  <1>2. CASE AptUpdate
    BY <1>2, BatchFrame DEF AptUpdate, hostVars, Targeted
  <1>3. CASE AptInstall
    <2>1. \A a \in App \ Targeted : installed'[a] = installed[a]
      BY <1>3, <1>t DEF AptInstall, InstallPackages, Targeted
    <2>2. RunnerShape' /\ BatchDone'
      BY <1>3, <1>t DEF AptInstall, InstallPackages, Targeted
    <2> QED BY <1>3, <2>1, <2>2, BatchFrame DEF AptInstall, InstallPackages, Targeted
  <1>4. CASE ConfigsEnd
    BY <1>4, BatchFrame DEF ConfigsEnd, hostVars, Targeted
  <1>5. CASE SystemdReload
    BY <1>5, BatchFrame DEF SystemdReload, hostVars, Targeted
  <1>6. CASE SystemdRestart
    <2>1. \A a \in App \ Targeted : running'[a] = running[a]
      BY <1>6, <1>t DEF SystemdRestart, RestartServices, Targeted, Done
    <2>2. /\ UNCHANGED <<targets, installed, configured>>
          /\ rpc' = "unsetOOR" /\ pending' = Targeted
      BY <1>6 DEF SystemdRestart, RestartServices
    <2>3. RestartServices(Targeted) =>
             \A a \in Targeted : running'[a] \in {installed[a], NoVersion}
      BY DEF RestartServices, Targeted
    <2>4. batchErr' = "nil" => \A a \in Targeted : running'[a] \in {installed[a], NoVersion}
      BY <1>6, <2>3 DEF SystemdRestart
    <2>5. RunnerShape' /\ BatchDone'
      <3>1. rpc = "restart" /\ Targeted' = Targeted
        BY <1>6, <2>2 DEF SystemdRestart, Targeted
      <3>2. RunnerShape'
        BY <2>2, <3>1
      <3>3. \A a \in Targeted : /\ installed[a] = targets[a]
                                /\ configured[a] \in Written(targets[a])
        BY <3>1
      <3>4. BatchDone'
        BY <2>2, <2>4, <3>1, <3>3
      <3> QED BY <3>2, <3>4
    <2> QED BY <1>6, <2>1, <2>2, <2>5, BatchFrame DEF SystemdRestart
  <1>7. ASSUME NEW b \in App, UnsetOOR(b) PROVE IInv'
    <2>1. \A a \in App \ Targeted : deploys[a].stage # "started"
      BY DEF BatchIsCache, VersionsReal, Present, Targeted
    <2>2. /\ rpc = "unsetOOR" /\ Targeted' = Targeted
          /\ \/ rpc' = "mark" /\ pending' = Targeted
             \/ rpc' = "unsetOOR" /\ pending' = pending \ {b}
          /\ UNCHANGED <<deploys, targets, batchErr, installed, configured, running>>
      BY <1>7 DEF UnsetOOR, Unmarked, RemoveOOR, Targeted, cacheVars
    <2>3. RunnerShape'
      BY <2>1, <2>2
    <2>4. BatchDone'
      BY <2>2
    <2> QED BY <1>7, <2>2, <2>3, <2>4, BatchFrame DEF UnsetOOR, Unmarked, RemoveOOR
  <1>8. ASSUME NEW a \in App, PullAndMergeConfig(a) PROVE IInv'
    <2>1. a \in Targeted /\ \A b \in App \ {a} : configured'[b] = configured[b]
      BY <1>8, <1>t DEF PullAndMergeConfig, WriteConfig, Targeted
    <2>2. RunnerShape' /\ BatchDone'
      BY <1>8, <1>t DEF PullAndMergeConfig, WriteConfig, Targeted
    <2> QED BY <1>8, <2>1, <2>2, BatchFrame DEF PullAndMergeConfig, WriteConfig, Targeted
  <1> QED BY <1>1, <1>2, <1>3, <1>4, <1>5, <1>6, <1>7, <1>8

\* Where a lap begins and ends.
LEMMA LapIInv ==
  ASSUME IInv, Timely, TypeOK', UNCHANGED handlerVars, StartLap \/ RangeEnds \/ EndLap
  PROVE  IInv'
  <1> USE Fields DEF IInv, BatchPC, RunnerPC
  <1>1. /\ UNCHANGED <<pc, version, waited, result, installed, configured, running>>
        /\ since <= PhaseS
    BY DEF handlerVars, StartLap, RangeEnds, EndLap, hostVars, TypeOK, RunnerTypeOK, PhaseS
  <1>2. \A a \in App : deploys[a].stage = "started" => a \in Targeted
    BY DEF BatchIsCache, VersionsReal, Present, Targeted
  <1>3. deploys' = deploys
    <2>1. CASE StartLap
      BY <2>1, NothingIsStale DEF StartLap, CleanAndRange, Cleaned, TypeOK, CacheTypeOK
    <2> QED BY <2>1 DEF RangeEnds, EndLap, cacheVars
  <1>4. RequestsOK'
    BY <1>1, <1>3, RequestsFrame DEF RequestsOK
  <1>5. Punctual' /\ CompletedIsInPlace'
    BY <1>1, <1>3 DEF Punctual, Timed, Limit, CompletedIsInPlace, Completed, StartLap,
       RangeEnds, EndLap
  <1>6. CASE StartLap
    <2>1. iter' = {a \in App : deploys[a].stage # "absent"}
      BY <1>3, <1>6 DEF StartLap, CleanAndRange
    <2>2. \A a \in App : deploys[a].stage # "started"
      BY <1>2, <1>6 DEF StartLap, RunnerShape, NoTargets, Targeted
    <2>3. EntryIsYoung'
      BY <1>1, <1>3, <1>6, <2>1, <2>2 DEF StartLap, EntryIsYoung, PhaseS
    <2> QED BY <1>3, <1>4, <1>5, <1>6, <2>2, <2>3 DEF StartLap, RequestsOK, BatchIsCache,
       RunnerShape, BatchDone, BatchWentWell, Targeted, NoTargets
  <1>7. CASE RangeEnds
    <2>1. EntryIsYoung'
      BY <1>1, <1>2, <1>3, <1>7 DEF RangeEnds, EntryIsYoung, PhaseS, Punctual
    <2>2. Targeted = {} => targets = NoTargets
      BY DEF Targeted, NoTargets, TypeOK, RunnerTypeOK
    <2>3. BatchIsCache' /\ RunnerShape' /\ BatchDone'
      BY <1>3, <1>7, <2>2 DEF RangeEnds, BatchIsCache, RunnerShape, BatchDone,
         BatchWentWell, Targeted
    <2> QED BY <1>4, <1>5, <2>1, <2>3 DEF RequestsOK
  <1>8. CASE EndLap
    <2>1. \A a \in App : deploys[a].stage # "started"
      BY <1>8 DEF EndLap, RunnerShape
    <2>2. EntryIsYoung'
      BY <1>1, <1>3, <1>8, <2>1 DEF EndLap, EntryIsYoung, PhaseS
    <2>3. BatchIsCache' /\ RunnerShape' /\ BatchDone'
      BY <1>3, <1>8, <2>1 DEF EndLap, BatchIsCache, RunnerShape, BatchDone, BatchWentWell,
         Targeted, NoTargets
    <2> QED BY <1>4, <1>5, <2>2, <2>3 DEF RequestsOK
  <1> QED BY <1>6, <1>7, <1>8
\* The range takes up one entry.
LEMMA RangeIInv ==
  ASSUME IInv, TypeOK', UNCHANGED handlerVars, NEW a \in App, RangeOver(a)
  PROVE  IInv'
  <1> USE Fields DEF IInv, BatchPC, RunnerPC
  <1>1. /\ rpc = "range" /\ Present(a) /\ targets[a] = NoVersion
        /\ UNCHANGED <<rpc, pending, batchErr, since, installed, configured, running>>
        /\ UNCHANGED <<pc, version, waited, result>>
        /\ iter' = iter \ {a}
        /\ targets \in [App -> MaybeVersion] /\ deploys \in [App -> Deploy]
    BY DEF RangeOver, hostVars, handlerVars, TypeOK, RunnerTypeOK, CacheTypeOK
  <1>2. deploys[a].stage \in {"requested", "completed"}
    BY <1>1 DEF BatchIsCache, VersionsReal, Present
  <1>3. Punctual' /\ since = 0
    BY <1>1 DEF Punctual, Timed, Limit
  <1>4. CASE Completed(a)
    <2>1. UNCHANGED <<targets, deploys>>
      BY <1>4 DEF RangeOver
    <2>2. RequestsOK'
      BY <1>1, <2>1, RequestsFrame DEF RequestsOK
    <2>3. EntryIsYoung' /\ RunnerShape'
      BY <1>1, <1>4, <2>1 DEF EntryIsYoung, RunnerShape, Completed, Targeted
    <2>4. BatchIsCache' /\ BatchDone' /\ CompletedIsInPlace'
      BY <1>1, <2>1 DEF BatchIsCache, BatchDone, BatchWentWell, CompletedIsInPlace,
         Completed, Targeted
    <2> QED BY <1>3, <2>2, <2>3, <2>4 DEF RequestsOK
  <1>5. CASE deploys[a].stage = "requested"
    <2>1. /\ targets' = [targets EXCEPT ![a] = deploys[a].version]
          /\ \A b \in App \ {a} : deploys'[b] = deploys[b] /\ targets'[b] = targets[b]
          /\ deploys'[a].stage = "started"
          /\ deploys'[a].version = deploys[a].version
          /\ targets'[a] = deploys[a].version
          /\ deploys'[a].requestedAgo = deploys[a].requestedAgo
          /\ deploys'[a].err = deploys[a].err
      BY <1>1, <1>5 DEF RangeOver, Completed, MarkDeployStart, StartedDeploy, Deploy
    <2>2. RequestsOK'
      BY <1>1, <1>5, <2>1 DEF RequestsOK, OwnEntry, NoOrphans, VersionsReal,
         CompletedIsYoung, ResultOfEntry, Deploying, Present, Completed
    <2>3. EntryIsYoung'
      BY <1>1, <1>3, <1>5, <2>1 DEF EntryIsYoung
    <2>4. BatchIsCache' /\ RunnerShape' /\ BatchDone' /\ CompletedIsInPlace'
      BY <1>1, <1>5, <2>1 DEF BatchIsCache, RunnerShape, BatchDone, BatchWentWell,
         CompletedIsInPlace, Completed, Targeted
    <2> QED BY <1>3, <2>2, <2>3, <2>4 DEF RequestsOK
  <1> QED BY <1>2, <1>4, <1>5 DEF Completed

\* The end of the batch reaches one target.
LEMMA MarkIInv ==
  ASSUME IInv, TypeOK', UNCHANGED handlerVars, NEW a \in App, MarkTarget(a)
  PROVE  IInv'
  <1> USE Fields DEF IInv, BatchPC, RunnerPC
  <1>1. /\ rpc = "mark" /\ a \in pending /\ pending' = pending \ {a}
        /\ UNCHANGED <<rpc, targets, batchErr, since, installed, configured, running>>
        /\ UNCHANGED <<pc, version, waited, result, iter>>
        /\ deploys \in [App -> Deploy]
        /\ since <= MaxBatchS
    BY DEF MarkTarget, MarkDeployComplete, hostVars, handlerVars, TypeOK, CacheTypeOK,
       RunnerTypeOK, PhaseS
  <1>2. /\ a \in Targeted
        /\ deploys[a].stage = "started"
        /\ targets[a] = deploys[a].version
    BY <1>1 DEF RunnerShape, BatchIsCache, Targeted
  <1>3. /\ \A b \in App \ {a} : deploys'[b] = deploys[b]
        /\ deploys'[a].stage = "completed" /\ deploys'[a].completedAgo = 0
        /\ deploys'[a].err = batchErr
        /\ deploys'[a].version = deploys[a].version
        /\ deploys'[a].requestedAgo = deploys[a].requestedAgo
    BY <1>1, <1>2 DEF MarkTarget, MarkDeployComplete, CompletedDeploy, Present
  <1>4. Punctual'
    BY <1>1 DEF Punctual, Timed, Limit
  <1>5. OwnEntry' /\ NoOrphans' /\ VersionsReal'
    BY <1>1, <1>2, <1>3 DEF OwnEntry, NoOrphans, VersionsReal, Deploying, Present, Completed
  <1>6. \A r \in Req : Deploying(r) /\ AppOf[r] = a => pc[r] = "poll"
    BY <1>2 DEF OwnEntry, Completed, Deploying
  <1>7. CompletedIsYoung' /\ ResultOfEntry'
    BY <1>1, <1>3, <1>6 DEF CompletedIsYoung, ResultOfEntry, Completed, Deploying
  <1>8. EntryIsYoung'
    BY <1>1, <1>2, <1>3 DEF EntryIsYoung
  <1>9. BatchIsCache' /\ RunnerShape' /\ BatchDone' /\ CompletedIsInPlace'
    BY <1>1, <1>2, <1>3 DEF BatchIsCache, RunnerShape, BatchDone, BatchWentWell,
       CompletedIsInPlace, Completed, Targeted
  <1> QED BY <1>4, <1>5, <1>7, <1>8, <1>9

LEMMA IInvStep == IInv /\ Timely /\ [Next]_vars => IInv'
  <1> SUFFICES ASSUME IInv, Timely, [Next]_vars PROVE IInv'
    OBVIOUS
  <1>1. TypeOK'
    BY TypeStep DEF IInv
  <1>2. CASE Runner
    BY <1>1, <1>2, BatchIInv, LapIInv, RangeIInv, MarkIInv DEF Runner, RunnerNext
  <1>3. CASE UNCHANGED vars
    <2>1. /\ UNCHANGED <<deploys, iter, rpc, targets, pending, batchErr, since>>
          /\ UNCHANGED <<pc, version, waited, result, installed, configured, running>>
      BY <1>3 DEF vars, cacheVars, runnerVars, handlerVars, hostVars
    <2>2. RequestsOK' /\ Punctual'
      BY <2>1, RequestsFrame DEF IInv, RequestsOK, Punctual, Timed, Limit
    <2>3. WorkOK'
      BY <2>1, <2>2, WorkFrame DEF IInv
    <2> QED BY <1>1, <2>2, <2>3 DEF IInv, RequestsOK, WorkOK
  <1> QED
    BY <1>1, <1>2, <1>3, HandlerIInv, OutsideIInv, RestartIInv, TickIInv DEF Next, Panic,
       Crash

\* As long as the configuration is Timely the invariant holds, whatever fails and
\* however the goroutines interleave.
THEOREM Invariant == ASSUME Timely PROVE Spec => []IInv
  <1>1. IInv /\ [Next]_vars => IInv'
    BY IInvStep
  <1> QED BY <1>1, InitIInv, PTL DEF Spec
\* What a Deploy() polls, answers with and deletes is its own entry.
THEOREM OwnEntryAlways == ASSUME Timely PROVE Spec => []OwnEntry
  <1>1. IInv => OwnEntry
    BY DEF IInv
  <1> QED BY <1>1, Invariant, PTL

\* No app is turned away for good: whatever is in the cache has a goroutine that will
\* delete it.
THEOREM NoOrphansAlways == ASSUME Timely PROVE Spec => []NoOrphans
  <1>1. IInv => NoOrphans
    BY DEF IInv
  <1> QED BY <1>1, Invariant, PTL

\* The runner's targets are the started entries: MarkDeployComplete never fails, and
\* never completes somebody else's request.
THEOREM BatchIsCacheAlways == ASSUME Timely PROVE Spec => []BatchIsCache
  <1>1. IInv => BatchIsCache
    BY DEF IInv
  <1> QED BY <1>1, Invariant, PTL

\* A request is taken up in the first lap that begins after it, or in the one under way, so
\* no deploy holds its app's slot for longer than two batches, a sleep and Deploy()'s waits.
THEOREM SlotFreesInTimeAlways == ASSUME Timely PROVE Spec => []SlotFreesInTime
  <1>1. IInv => SlotFreesInTime
    <2> SUFFICES ASSUME IInv, NEW a \in App, Present(a)
                 PROVE  LET age == deploys[a].requestedAgo IN
                        /\ deploys[a].stage = "requested" => age <= MaxBatchS + DeployIntervalS
                        /\ deploys[a].stage = "started" => age <= 2 * MaxBatchS + DeployIntervalS
                        /\ Present(a) => age <= 2 * MaxBatchS + DeployIntervalS + WaitS
      BY DEF SlotFreesInTime, Present
    <2> DEFINE age == deploys[a].requestedAgo
               doneAgo == deploys[a].completedAgo
    <2>0. TypeOK /\ NoOrphans /\ BatchIsCache /\ RunnerShape /\ VersionsReal /\ Punctual
          /\ CompletedIsYoung /\ EntryIsYoung
      BY DEF IInv
    <2>1. /\ deploys[a].stage \in {"requested", "started", "completed"}
          /\ age \in Nat /\ doneAgo \in Nat /\ since \in Nat /\ WaitS \in Nat
      BY <2>0, Fields DEF WaitS, Present
    <2>2. /\ rpc \in RunnerPC
          /\ rpc = "range" => since = 0
          /\ rpc = "sleep" => since <= DeployIntervalS
          /\ rpc # "sleep" => since <= MaxBatchS
      BY <2>0 DEF TypeOK, RunnerTypeOK, PhaseS, Punctual
    <2>3. CASE deploys[a].stage = "requested"
      BY <2>0, <2>1, <2>2, <2>3 DEF EntryIsYoung, BatchPC, RunnerPC
    <2>4. CASE deploys[a].stage = "started"
      <3>1. rpc # "sleep"
        BY <2>0, <2>4 DEF BatchIsCache, RunnerShape, NoTargets, VersionsReal, Present
      <3> QED BY <2>0, <2>1, <2>2, <2>4, <3>1 DEF EntryIsYoung
    <2>5. CASE deploys[a].stage = "completed"
      <3>1. PICK r \in Req : AppOf[r] = a /\ Deploying(r)
        BY <2>0, <2>5 DEF NoOrphans, Present
      <3>2. /\ waited[r] \in Nat
            /\ pc[r] = "poll" => doneAgo <= waited[r] /\ waited[r] <= PollS
            /\ pc[r] = "converge" => doneAgo <= PollS + waited[r] /\ waited[r] <= ConvergeTimeoutS
            /\ pc[r] = "return" => doneAgo <= WaitS
        BY <2>0, <2>5, <3>1, Fields DEF CompletedIsYoung, Completed, Punctual, Timed, Limit
      <3>3. doneAgo <= WaitS
        BY <2>1, <3>1, <3>2 DEF Deploying, WaitS
      <3> QED BY <2>0, <2>1, <2>5, <3>3 DEF EntryIsYoung
    <2> QED BY <2>1, <2>3, <2>4, <2>5
  <1> QED BY <1>1, Invariant, PTL

\* A 200 is about what is installed and running now, with no other version's
\* configuration, and a 500 about a batch that failed.
THEOREM AnswerIsTrueAlways == ASSUME Timely PROVE Spec => []AnswerIsTrue
  <1>1. IInv => AnswerIsTrue
    <2> SUFFICES ASSUME IInv, NEW r \in Req, pc[r] = "return"
                 PROVE  LET a == AppOf[r] IN
                        /\ result[r] = 200 => /\ installed[a] = version[r]
                                              /\ configured[a] \in Written(version[r])
                                              /\ running[a] \in {version[r], NoVersion}
                        /\ result[r] = 500 <=> deploys[a].err = "failed"
      BY DEF AnswerIsTrue
    <2>1. /\ AppOf[r] \in App
          /\ deploys[AppOf[r]].version = version[r]
          /\ Completed(AppOf[r])
          /\ deploys[AppOf[r]].err \in {"nil", "failed"}
      BY Fields DEF IInv, OwnEntry, Deploying
    <2> QED BY <2>1 DEF IInv, ResultOfEntry, CompletedIsInPlace
  <1> QED BY <1>1, Invariant, PTL
-----------------------------------------------------------------------------
(* Rotation *)

\* What the requests' goroutines do to the cache.
LEMMA HandlerWrites ==
  ASSUME HandlerNext
  PROVE  \/ deploys' = deploys
         \/ \E r \in Req : pc[r] = "add" /\ AddDeploy(AppOf[r], version[r])
         \/ \E r \in Req : pc[r] = "return" /\ DeleteDeploy(AppOf[r])
  <1>1. ASSUME NEW r \in Req, HandlerStep(r)
        PROVE  \/ deploys' = deploys
               \/ pc[r] = "add" /\ AddDeploy(AppOf[r], version[r])
               \/ pc[r] = "return" /\ DeleteDeploy(AppOf[r])
    BY <1>1 DEF HandlerStep, Add, PollCompleted, PollAgain, ConvergeSucceeds,
       ConvergeTimesOut, Return, GoroutineEnds, cacheVars
  <1>2. CASE \/ \E r \in Req, v \in Version : Request(r, v)
             \/ \E r \in Req : HttpTimeout(r)
             \/ \E p \in probes : ProbeEnds(p)
    BY <1>2 DEF Request, HttpTimeout, ProbeEnds, cacheVars
  <1> QED BY <1>1, <1>2 DEF HandlerNext

RotationInv ==
    /\ OutOfRotationCoversBatch
    /\ rpc = "mark" => Targeted \cap oor = {}
    /\ rpc = "unsetOOR" => (Targeted \ pending) \cap oor = {}

LEMMA RotationStep ==
  ASSUME "sudo" \notin Faults, IInv, IInv', RotationInv, [Next]_vars
  PROVE  RotationInv'
  <1> USE DEF RotationInv, OutOfRotationCoversBatch, BatchPC, RunnerPC, IInv
  <1>1. \A a \in App : Completed(a) /\ rpc # "mark" => a \notin Targeted
    BY DEF BatchIsCache, Completed, Targeted
  <1>2. CASE UNCHANGED <<oor, rpc, targets, pending>>
             /\ \A a \in App : Completed(a)' => Completed(a)
    BY <1>2 DEF Targeted
  <1>3. CASE Runner
    <2>1. CASE StartLap \/ RangeEnds \/ EndLap
      BY <2>1, <1>3 DEF StartLap, RangeEnds, EndLap, hostVars, cacheVars, CleanAndRange,
         Cleaned, ZeroDeploy, Completed, Targeted
    <2>2. ASSUME NEW a \in App, SetOOR(a) \/ UnsetOOR(a) PROVE RotationInv'
      <3>1. pending \subseteq Targeted
        BY <2>2 DEF SetOOR, UnsetOOR, RunnerShape
      <3>2. CASE SetOOR(a)
        BY <1>1, <3>1, <3>2 DEF SetOOR, TouchOOR, Done, cacheVars, Completed, Targeted
      <3>3. CASE UnsetOOR(a)
        BY <1>1, <3>1, <3>3 DEF UnsetOOR, Unmarked, RemoveOOR, Done, cacheVars, Completed,
           Targeted
      <3> QED BY <2>2, <3>2, <3>3
    <2>3. CASE AptUpdate \/ AptInstall \/ ConfigsEnd \/ SystemdReload \/ SystemdRestart
      BY <2>3 DEF AptUpdate, AptInstall, ConfigsEnd, SystemdReload, SystemdRestart, Fail,
         InstallPackages, RestartServices, hostVars, cacheVars, Completed, Targeted
    <2>4. ASSUME NEW a \in App, PullAndMergeConfig(a) PROVE RotationInv'
      BY <2>4 DEF PullAndMergeConfig, WriteConfig, Fail, cacheVars, Completed, Targeted
    <2>5. ASSUME NEW a \in App, RangeOver(a) PROVE RotationInv'
      BY <2>5 DEF RangeOver, MarkDeployStart, StartedDeploy, hostVars, Completed, TypeOK,
         CacheTypeOK, Deploy
    <2>6. ASSUME NEW a \in App, MarkTarget(a) PROVE RotationInv'
      <3>1. a \in Targeted /\ UNCHANGED <<oor, rpc, targets>>
        BY <2>6 DEF MarkTarget, hostVars, RunnerShape
      <3>2. \A b \in App \ {a} : Completed(b)' => Completed(b)
        BY <2>6 DEF MarkTarget, MarkDeployComplete, Completed, TypeOK, CacheTypeOK
      <3> QED BY <2>6, <3>1, <3>2 DEF MarkTarget, Targeted
    <2> QED BY <1>3, <2>1, <2>2, <2>3, <2>4, <2>5, <2>6 DEF Runner, RunnerNext
  <1>4. CASE Handler
    <2>1. UNCHANGED <<oor, rpc, targets, pending>> /\ HandlerNext
      BY <1>4 DEF Handler, hostVars, runnerVars
    <2>2. \A a \in App : Completed(a)' => Completed(a)
      <3>1. ASSUME NEW b \in App, NEW v, AddDeploy(b, v) \/ DeleteDeploy(b)
            PROVE  \A a \in App : Completed(a)' => Completed(a)
        BY <3>1 DEF AddDeploy, NewDeploy, DeleteDeploy, ZeroDeploy, Completed, TypeOK,
           CacheTypeOK
      <3>2. deploys' = deploys => \A a \in App : Completed(a)' => Completed(a)
        BY DEF Completed
      <3> QED BY <2>1, <3>1, <3>2, HandlerWrites
    <2> QED BY <1>2, <2>1, <2>2
  <1>5. CASE Restart
    BY <1>5 DEF Restart, RunnerLost, CacheLost, EmptyMap, ZeroDeploy, Completed
  <1>6. CASE Tick
    BY <1>2, <1>6 DEF Tick, hostVars, AgeDeploys, OlderDeploy, Completed, TypeOK,
       CacheTypeOK
  <1>7. CASE StatusPoll \/ Services \/ UNCHANGED vars
    BY <1>2, <1>7 DEF StatusPoll, Services, HostNext, ServiceExits, ServiceComesUp, vars,
       cacheVars, hostVars, runnerVars, Completed
  <1> QED BY <1>3, <1>4, <1>5, <1>6, <1>7 DEF Next, Panic, Crash

\* On a host where touch and rm do not fail, a batch only works on apps that are out of
\* rotation, and an answered Deploy() left its app in rotation, a daemon that died
\* in the middle notwithstanding.
THEOREM RotationAlways ==
  ASSUME Timely, "sudo" \notin Faults PROVE Spec => []OutOfRotationCoversBatch
  <1>1. Init => RotationInv
    BY DEF Init, RotationInv, OutOfRotationCoversBatch, RunnerInit, NewDeployCache,
       EmptyMap, ZeroDeploy, Completed, BatchPC
  <1>2. IInv /\ IInv' /\ RotationInv /\ [Next]_vars => RotationInv'
    BY RotationStep
  <1>3. RotationInv => OutOfRotationCoversBatch
    BY DEF RotationInv
  <1> QED BY <1>1, <1>2, <1>3, Invariant, PTL DEF Spec
-----------------------------------------------------------------------------
(* Refinement *)

SlotStates == [a \in App |-> SlotState(deploys[a])]
SlotWanted == [a \in App |-> deploys[a].version]

\* A step that keeps every entry's slot and what is installed is a stutter of DeploySlot.
LEMMA SlotStutter ==
  ASSUME UNCHANGED installed,
         \A a \in App : /\ SlotState(deploys'[a]) = SlotState(deploys[a])
                        /\ deploys'[a].version = deploys[a].version
  PROVE  UNCHANGED Slot!slotVars
  <1>1. SlotStates' = SlotStates /\ SlotWanted' = SlotWanted
    BY DEF SlotStates, SlotWanted
  <1> QED BY <1>1 DEF Slot!slotVars, SlotStates, SlotWanted

LEMMA SlotStep ==
  ASSUME Timely, IInv, IInv', [Next]_vars
  PROVE  [Slot!SlotNext]_(Slot!slotVars)
  <1> USE DEF IInv
  <1>t. /\ deploys \in [App -> Deploy] /\ installed \in [App -> MaybeVersion]
        /\ targets \in [App -> MaybeVersion]
    BY DEF TypeOK, CacheTypeOK, HostTypeOK, RunnerTypeOK
  <1>s. ASSUME UNCHANGED <<deploys, installed>> PROVE UNCHANGED Slot!slotVars
    BY <1>s, SlotStutter
  <1>1. CASE Runner
    <2>1. CASE StartLap \/ RangeEnds \/ EndLap
      <3>1. deploys' = deploys
        BY <2>1, <1>t, NothingIsStale DEF StartLap, RangeEnds, EndLap, CleanAndRange,
           Cleaned, cacheVars
      <3> QED BY <2>1, <3>1, <1>s DEF StartLap, RangeEnds, EndLap, hostVars
    <2>2. CASE \/ AptUpdate \/ ConfigsEnd \/ SystemdReload \/ SystemdRestart
               \/ \E a \in App : SetOOR(a) \/ UnsetOOR(a)
      BY <2>2, <1>s DEF SetOOR, AptUpdate, ConfigsEnd, SystemdReload, SystemdRestart,
         UnsetOOR, Unmarked, TouchOOR, RemoveOOR, RestartServices, hostVars, cacheVars
    <2>3. CASE AptInstall
      <3>1. PICK some \in SUBSET Targeted : InstallPackages(some, targets)
        BY <2>3 DEF AptInstall
      <3>2. \A a \in Targeted : /\ a \in App
                                /\ deploys[a].stage = "started"
                                /\ targets[a] = deploys[a].version
        BY <2>3 DEF AptInstall, BatchIsCache, Targeted
      <3>3. some \in SUBSET {a \in App : SlotStates[a] = "working"}
        BY <3>1, <3>2 DEF SlotStates, SlotState
      <3>4. installed' = [a \in App |-> IF a \in some THEN SlotWanted[a] ELSE installed[a]]
        BY <3>1, <3>2 DEF InstallPackages, SlotWanted
      <3>5. SlotStates' = SlotStates /\ SlotWanted' = SlotWanted
        BY <2>3 DEF AptInstall, cacheVars, SlotStates, SlotWanted
      <3>6. Slot!Install
        BY <3>3, <3>4, <3>5 DEF Slot!Install, SlotStates, SlotWanted
      <3> QED BY <3>6 DEF Slot!SlotNext
    <2>4. ASSUME NEW a \in App, PullAndMergeConfig(a) PROVE UNCHANGED Slot!slotVars
      BY <2>4, <1>s DEF PullAndMergeConfig, WriteConfig, cacheVars
    <2>5. ASSUME NEW a \in App, RangeOver(a) PROVE [Slot!SlotNext]_(Slot!slotVars)
      <3>1. CASE Completed(a)
        BY <2>5, <3>1, <1>s DEF RangeOver, hostVars
      <3>2. CASE ~Completed(a)
        <4>1. /\ deploys[a].stage = "requested"
              /\ deploys' = [deploys EXCEPT ![a] = StartedDeploy(deploys[a])]
              /\ UNCHANGED installed
          BY <2>5, <3>2, <1>t DEF RangeOver, MarkDeployStart, hostVars, Completed, Present,
             Deploy, BatchIsCache, VersionsReal
        <4>2. /\ SlotState(deploys[a]) = "asked"
              /\ SlotState(StartedDeploy(deploys[a])) = "working"
              /\ StartedDeploy(deploys[a]).version = deploys[a].version
          BY <4>1, <1>t DEF SlotState, StartedDeploy, Deploy
        <4>3. /\ SlotStates' = [SlotStates EXCEPT ![a] = "working"]
              /\ SlotWanted' = [SlotWanted EXCEPT ![a] = deploys[a].version]
              /\ SlotStates[a] = "asked"
              /\ SlotWanted[a] = deploys[a].version
          BY <4>1, <4>2, <1>t DEF SlotStates, SlotWanted
        <4>4. SlotWanted' = SlotWanted
          BY <4>3 DEF SlotWanted
        <4>5. Slot!Take(a)
          BY <4>1, <4>3, <4>4 DEF Slot!Take, SlotStates, SlotWanted
        <4> QED BY <4>5 DEF Slot!SlotNext
      <3> QED BY <3>1, <3>2
    <2>6. ASSUME NEW a \in App, MarkTarget(a) PROVE [Slot!SlotNext]_(Slot!slotVars)
      <3> DEFINE d == CompletedDeploy(deploys[a], batchErr)
      <3>1. /\ deploys[a].stage = "started"
            /\ deploys' = [deploys EXCEPT ![a] = d]
            /\ UNCHANGED installed
            /\ batchErr = "nil" => installed[a] = deploys[a].version
            /\ batchErr \in {"nil", "failed"}
        BY <2>6 DEF MarkTarget, MarkDeployComplete, Present, hostVars, BatchIsCache,
           RunnerShape, BatchDone, BatchWentWell, Targeted, TypeOK, RunnerTypeOK
      <3>2. /\ SlotState(deploys[a]) = "working"
            /\ SlotState(d) = IF batchErr = "nil" THEN "ok" ELSE "failed"
            /\ d.version = deploys[a].version
        BY <3>1 DEF SlotState, CompletedDeploy
      <3>3. /\ SlotStates' = [SlotStates EXCEPT ![a] = SlotState(d)]
            /\ SlotWanted' = [SlotWanted EXCEPT ![a] = deploys[a].version]
            /\ SlotStates[a] = "working"
            /\ SlotWanted[a] = deploys[a].version
        BY <3>1, <3>2, <1>t DEF SlotStates, SlotWanted
      <3>4. SlotWanted' = SlotWanted
        BY <3>3 DEF SlotWanted
      <3>5. SlotState(d) \in {"ok", "failed"} /\ (SlotState(d) = "ok" => installed[a] = SlotWanted[a])
        BY <3>1, <3>2, <3>3
      <3>6. Slot!Finish(a)
        BY <3>1, <3>3, <3>4, <3>5 DEF Slot!Finish, SlotStates, SlotWanted
      <3> QED BY <3>6 DEF Slot!SlotNext
    <2> QED BY <1>1, <2>1, <2>2, <2>3, <2>4, <2>5, <2>6 DEF Runner, RunnerNext
  <1>2. CASE Handler
    <2>1. UNCHANGED installed /\ HandlerNext
      BY <1>2 DEF Handler, hostVars
    <2>2. ASSUME NEW r \in Req, pc[r] = "add", AddDeploy(AppOf[r], version[r])
          PROVE  Slot!SlotNext
      <3>1. PICK a \in App, v \in Version : a = AppOf[r] /\ v = version[r]
        BY <2>2 DEF VersionsReal
      <3>2. deploys[a].stage = "absent" /\ deploys' = [deploys EXCEPT ![a] = NewDeploy(v)]
        BY <2>2, <3>1 DEF AddDeploy, Present
      <3>3. /\ SlotState(deploys[a]) = "free"
            /\ SlotState(NewDeploy(v)) = "asked"
            /\ NewDeploy(v).version = v
        BY <3>2 DEF SlotState, NewDeploy
      <3>4. /\ SlotStates' = [SlotStates EXCEPT ![a] = "asked"]
            /\ SlotWanted' = [SlotWanted EXCEPT ![a] = v]
            /\ SlotStates[a] = "free"
        BY <2>1, <3>2, <3>3, <1>t DEF SlotStates, SlotWanted
      <3>5. Slot!Ask(a, v)
        BY <2>1, <3>4 DEF Slot!Ask, SlotStates, SlotWanted
      <3> QED BY <3>5 DEF Slot!SlotNext
    <2>3. ASSUME NEW r \in Req, pc[r] = "return", DeleteDeploy(AppOf[r])
          PROVE  Slot!SlotNext
      <3>1. /\ deploys[AppOf[r]].stage = "completed"
            /\ deploys' = [deploys EXCEPT ![AppOf[r]] = ZeroDeploy]
            /\ AppOf[r] \in App
        BY <2>3 DEF DeleteDeploy, OwnEntry, Deploying, Completed
      <3>2. /\ SlotState(deploys[AppOf[r]]) \in {"ok", "failed"}
            /\ SlotState(ZeroDeploy) = "free"
            /\ ZeroDeploy.version = NoVersion
        BY <3>1 DEF SlotState, ZeroDeploy
      <3>3. /\ SlotStates' = [SlotStates EXCEPT ![AppOf[r]] = "free"]
            /\ SlotWanted' = [SlotWanted EXCEPT ![AppOf[r]] = NoVersion]
            /\ SlotStates[AppOf[r]] \in {"ok", "failed"}
        BY <2>1, <3>1, <3>2, <1>t DEF SlotStates, SlotWanted
      <3>4. Slot!Free(AppOf[r])
        BY <2>1, <3>3 DEF Slot!Free, SlotStates, SlotWanted
      <3> QED BY <3>1, <3>4 DEF Slot!SlotNext
    <2>4. deploys' = deploys => UNCHANGED Slot!slotVars
      BY <2>1, <1>s
    <2> QED BY <2>1, <2>2, <2>3, <2>4, HandlerWrites
  <1>3. CASE Restart
    <2>1. /\ SlotStates' = [a \in App |-> "free"]
          /\ SlotWanted' = [a \in App |-> NoVersion]
          /\ UNCHANGED installed
      BY <1>3 DEF Restart, CacheLost, EmptyMap, ZeroDeploy, SlotState, hostVars, SlotStates,
         SlotWanted
    <2> QED BY <2>1 DEF Slot!Forget, Slot!SlotNext, SlotStates, SlotWanted
  <1>4. CASE Tick
    <2>1. \A a \in App : /\ deploys'[a].stage = deploys[a].stage
                         /\ deploys'[a].err = deploys[a].err
                         /\ deploys'[a].version = deploys[a].version
      BY <1>4 DEF Tick, AgeDeploys, OlderDeploy
    <2> QED BY <1>4, <2>1, SlotStutter DEF Tick, hostVars, SlotState
  <1>5. CASE StatusPoll \/ Services \/ UNCHANGED vars
    BY <1>5, <1>s DEF StatusPoll, Services, HostNext, ServiceExits, ServiceComesUp, vars,
       cacheVars, hostVars
  <1> QED BY <1>1, <1>2, <1>3, <1>4, <1>5 DEF Next, Panic, Crash

\* A Timely daemon implements DeploySlot: every deploy goes through its app's slot in
\* order, and a deploy that is done without an error left its version installed.
THEOREM Implements == ASSUME Timely PROVE Spec => ImplementsSlot
  <1>1. Init => Slot!SlotInit
    BY DEF Init, NewDeployCache, EmptyMap, ZeroDeploy, HostInit, MaybeVersion, SlotState,
       Slot!SlotInit
  <1>2. IInv /\ IInv' /\ [Next]_vars => [Slot!SlotNext]_(Slot!slotVars)
    BY SlotStep
  <1> QED BY <1>1, <1>2, Invariant, PTL DEF Spec, ImplementsSlot, Slot!SlotSpec
=============================================================================
