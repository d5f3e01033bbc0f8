---------------------------- MODULE DeployRunner -----------------------------
(***************************************************************************)
(* The one goroutine that installs what the cache asks for                  *)
(* (daemon/runners/deploy.go).  Each lap cleans the cache, ranges over it   *)
(* and takes every deploy not yet completed as a target, marking it         *)
(* started; takes the targets out of rotation; runs apt, the configuration  *)
(* of each target in turn, and systemd, where the first error ends the      *)
(* batch; puts the targets back; and marks each of them completed with the  *)
(* one error of the whole batch.                                            *)
(***************************************************************************)
EXTENDS DeployCache, Host

CONSTANTS
    DeployIntervalS,    \* the sleep between two laps
    MaxBatchS           \* a bound on what apt, the configurations and systemd may take

ASSUME RunnerAssumption == DeployIntervalS \in Nat /\ MaxBatchS \in Nat

VARIABLES
    rpc,            \* where the loop is
    targets,        \* [App -> MaybeVersion]: aptTargets, NoVersion for an app not in it
    pending,        \* targets the current per-target loop has not reached
    batchErr,       \* err of aptInstallAndRestart
    since           \* seconds since the runner fell asleep or woke up

runnerVars == <<rpc, targets, pending, batchErr, since>>

RunnerPC == {"sleep", "range", "setOOR", "update", "install", "configs", "reload",
             "restart", "unsetOOR", "mark"}
BatchPC == RunnerPC \ {"sleep", "range"}

NoTargets == [a \in App |-> NoVersion]
Targeted == {a \in App : targets[a] # NoVersion}

\* How long the phase the runner is in may last.
PhaseS == IF rpc = "sleep" THEN DeployIntervalS ELSE MaxBatchS

RunnerTypeOK ==
    /\ rpc \in RunnerPC
    /\ targets \in [App -> MaybeVersion]
    /\ pending \in SUBSET App
    /\ batchErr \in {"nil", "failed"}
    /\ since \in 0..PhaseS

RunnerInit ==
    /\ rpc = "sleep"
    /\ targets = NoTargets
    /\ pending = {}
    /\ batchErr = "nil"
    /\ since = 0

RunnerLost ==
    /\ rpc' = "sleep"
    /\ targets' = NoTargets
    /\ pending' = {}
    /\ batchErr' = "nil"
    /\ since' = 0
-----------------------------------------------------------------------------
\* time.Sleep(DeployIntervalS) is over: CleanDeploys, then the range begins.
StartLap ==
    /\ rpc = "sleep"
    /\ since >= DeployIntervalS
    /\ CleanAndRange
    /\ rpc' = "range"
    /\ since' = 0
    /\ UNCHANGED <<targets, pending, batchErr>> /\ UNCHANGED hostVars

RangeOver_TakesCompleted(a) ==
    /\ rpc = "range"
    /\ Present(a)
    /\ targets[a] = NoVersion
    /\ targets' = [targets EXCEPT ![a] = deploys[a].version]
    /\ MarkDeployStart(a)
    /\ iter' = iter \ {a}
    /\ UNCHANGED <<rpc, pending, batchErr, since>> /\ UNCHANGED hostVars

RangeOver_OneALap(a) ==
    /\ rpc = "range"
    /\ Present(a)
    /\ targets[a] = NoVersion
    /\ IF Completed(a) \/ Targeted # {}
       THEN UNCHANGED <<targets, deploys>>
       ELSE /\ targets' = [targets EXCEPT ![a] = deploys[a].version]
            /\ MarkDeployStart(a)
    /\ iter' = iter \ {a}
    /\ UNCHANGED <<rpc, pending, batchErr, since>> /\ UNCHANGED hostVars

\* The iteration produces the entry of a.
RangeOver(a) ==
    /\ rpc = "range"
    /\ Present(a)
    /\ targets[a] = NoVersion
    /\ IF Completed(a)
       THEN UNCHANGED <<targets, deploys>>
       ELSE /\ targets' = [targets EXCEPT ![a] = deploys[a].version]
            /\ MarkDeployStart(a)
    /\ iter' = iter \ {a}
    /\ UNCHANGED <<rpc, pending, batchErr, since>> /\ UNCHANGED hostVars

RangeEnds ==
    /\ rpc = "range"
    /\ iter = {}
    /\ \/ Targeted = {} /\ rpc' = "sleep" /\ since' = 0 /\ UNCHANGED pending
       \/ Targeted # {} /\ rpc' = "setOOR" /\ pending' = Targeted /\ UNCHANGED since
    /\ UNCHANGED <<targets, batchErr>>
    /\ UNCHANGED cacheVars /\ UNCHANGED hostVars

\* The marker of one target; the last one ends the loop.
SetOOR(a) ==
    /\ rpc = "setOOR"
    /\ a \in pending
    /\ TouchOOR(a)
    /\ pending' = pending \ {a}
    /\ rpc' = IF pending = {a} THEN "update" ELSE "setOOR"
    /\ UNCHANGED <<targets, batchErr, since>> /\ UNCHANGED cacheVars

\* aptInstallAndRestart stops at its first error, which becomes the batch's; the loop that
\* unsets the markers is next.
Fail(fault) ==
    /\ fault \in Faults
    /\ rpc' = "unsetOOR"
    /\ pending' = Targeted
    /\ batchErr' = "failed"

AptUpdate ==
    /\ rpc = "update"
    /\ \/ rpc' = "install" /\ UNCHANGED <<pending, batchErr>>
       \/ Fail("apt")
    /\ UNCHANGED <<targets, since>>
    /\ UNCHANGED cacheVars /\ UNCHANGED hostVars

\* One command for the whole batch; when it fails some packages may be in place.
AptInstall ==
    /\ rpc = "install"
    /\ \/ /\ InstallPackages(Targeted, targets)
          /\ rpc' = "configs"
          /\ pending' = Targeted
          /\ UNCHANGED batchErr
       \/ /\ Fail("apt")
          /\ \E some \in SUBSET Targeted : InstallPackages(some, targets)
    /\ UNCHANGED <<targets, since>> /\ UNCHANGED cacheVars

\* pullAndMergeConfigs does one target.  No error does not mean that all of the version's
\* configuration is there (Written).  On an error that target may be torn, the ones before
\* it are done and the ones after it untouched.
PullAndMergeConfig(a) ==
    /\ rpc = "configs"
    /\ a \in pending
    /\ \/ /\ \E v \in Written(targets[a]) : WriteConfig(a, v)
          /\ pending' = pending \ {a}
          /\ UNCHANGED <<rpc, batchErr>>
       \/ /\ Fail("config")
          /\ \E v \in {NoVersion, configured[a]} : WriteConfig(a, v)
    /\ UNCHANGED <<targets, since>> /\ UNCHANGED cacheVars

ConfigsEnd ==
    /\ rpc = "configs"
    /\ pending = {}
    /\ rpc' = "reload"
    /\ UNCHANGED <<targets, pending, batchErr, since>>
    /\ UNCHANGED cacheVars /\ UNCHANGED hostVars

SystemdReload ==
    /\ rpc = "reload"
    /\ \/ rpc' = "restart" /\ UNCHANGED <<pending, batchErr>>
       \/ Fail("systemd")
    /\ UNCHANGED <<targets, since>>
    /\ UNCHANGED cacheVars /\ UNCHANGED hostVars

SystemdRestart ==
    /\ rpc = "restart"
    /\ \/ /\ RestartServices(Targeted)
          /\ rpc' = "unsetOOR"
          /\ pending' = Targeted
          /\ batchErr' = "nil"
       \/ /\ Fail("systemd")
          /\ \E some \in SUBSET Targeted : RestartServices(some)
    /\ UNCHANGED <<targets, since>> /\ UNCHANGED cacheVars

\* The loop that unsets the markers is done with a; after the last target the loop that
\* marks them completed begins.
Unmarked(a) ==
    /\ IF pending = {a} THEN rpc' = "mark" /\ pending' = Targeted
                        ELSE rpc' = "unsetOOR" /\ pending' = pending \ {a}
    /\ UNCHANGED <<targets, batchErr, since>> /\ UNCHANGED cacheVars

UnsetOOR_OnlyOnSuccess(a) ==
    /\ rpc = "unsetOOR"
    /\ a \in pending
    /\ IF batchErr = "nil" THEN RemoveOOR(a) ELSE UNCHANGED hostVars
    /\ Unmarked(a)

UnsetOOR_IfRunning(a) ==
    /\ rpc = "unsetOOR"
    /\ a \in pending
    /\ IF running[a] # NoVersion THEN RemoveOOR(a) ELSE UNCHANGED hostVars
    /\ Unmarked(a)

\* Whatever the batch's outcome, every target goes back into rotation.
UnsetOOR(a) ==
    /\ rpc = "unsetOOR"
    /\ a \in pending
    /\ RemoveOOR(a)
    /\ Unmarked(a)

\* MarkDeployComplete for one target; when it finds no entry that is only logged.
MarkTarget(a) ==
    /\ rpc = "mark"
    /\ a \in pending
    /\ MarkDeployComplete(a, batchErr)
    /\ pending' = pending \ {a}
    /\ UNCHANGED <<rpc, targets, batchErr, since>> /\ UNCHANGED hostVars

\* The loop goes back to sleep; its locals go out of scope.
EndLap ==
    /\ rpc = "mark"
    /\ pending = {}
    /\ rpc' = "sleep"
    /\ targets' = NoTargets
    /\ batchErr' = "nil"
    /\ since' = 0
    /\ UNCHANGED pending
    /\ UNCHANGED cacheVars /\ UNCHANGED hostVars

RunnerNext ==
    \/ StartLap \/ RangeEnds \/ AptUpdate \/ AptInstall \/ ConfigsEnd
    \/ SystemdReload \/ SystemdRestart \/ EndLap
    \/ \E a \in App :
          RangeOver(a) \/ SetOOR(a) \/ PullAndMergeConfig(a) \/ UnsetOOR(a) \/ MarkTarget(a)
=============================================================================
