------------------------------- MODULE Controld ------------------------------
(***************************************************************************)
(* app-controld as one process (daemon/app-controld.go): the status runner, *)
(* the deploy runner and the goroutines of the /deploy requests around the  *)
(* two caches, on one host, and the passing of time.  The caches, and with  *)
(* them every deploy in flight, live in memory only: when the process dies  *)
(* systemd starts it again (Restart=on-failure) with both of them empty     *)
(* and the host as the dead one left it.                                    *)
(***************************************************************************)
EXTENDS DeployHandler, DeployRunner

vars == <<cacheVars, hostVars, statusVars, runnerVars, handlerVars>>

Init ==
    /\ NewDeployCache
    /\ HostInit
    /\ StatusInit
    /\ RunnerInit
    /\ HandlerInit

TypeOK ==
    /\ CacheTypeOK
    /\ HostTypeOK
    /\ StatusTypeOK
    /\ RunnerTypeOK
    /\ HandlerTypeOK
-----------------------------------------------------------------------------
(* The interleaving of the goroutines *)

Runner == RunnerNext /\ UNCHANGED statusVars /\ UNCHANGED handlerVars

Handler ==
    /\ HandlerNext
    /\ UNCHANGED hostVars /\ UNCHANGED statusVars /\ UNCHANGED runnerVars

StatusPoll ==
    /\ StatusNext
    /\ UNCHANGED cacheVars /\ UNCHANGED hostVars
    /\ UNCHANGED runnerVars /\ UNCHANGED handlerVars

Services ==
    /\ HostNext
    /\ UNCHANGED cacheVars /\ UNCHANGED statusVars
    /\ UNCHANGED runnerVars /\ UNCHANGED handlerVars

Restart ==
    /\ CacheLost
    /\ StatusLost
    /\ RunnerLost
    /\ HandlerLost
    /\ UNCHANGED hostVars

\* A nil version pointer is dereferenced: no handler recovers a goroutine's panic.
Panic == (\E a \in App : Dereferences(a)) /\ Restart

\* log.Fatal on an unreadable configuration, the runtime's fatal error on an
\* unsynchronised access to the live map that GetDeploys returns, a kill.
Crash == "crash" \in Faults /\ Restart
-----------------------------------------------------------------------------
(* Time *)

Deploying(r) == pc[r] \in {"poll", "converge", "return"}

\* How long Deploy() may still stay where it is.
Limit(r) == IF pc[r] = "poll" THEN PollS ELSE ConvergeTimeoutS
Timed(r) == pc[r] \in {"poll", "converge"}

\* Steps in memory take no time, a goroutine that sleeps or waits does so no longer
\* than it asked for, and a batch and a status poll are over within their bounds.
Tick ==
    /\ rpc \notin {"range", "mark"}
    /\ since < PhaseS
    /\ sincePoll < StatusPeriodS
    /\ \A r \in Req : /\ pc[r] \notin {"add", "return", "sent"}
                      /\ Timed(r) => waited[r] < Limit(r)
    /\ AgeDeploys
    /\ since' = since + 1
    /\ sincePoll' = sincePoll + 1
    /\ waited' = [r \in Req |-> IF Timed(r) THEN waited[r] + 1 ELSE waited[r]]
    /\ UNCHANGED <<rpc, targets, pending, batchErr, statuses, snap, toProbe, spc>>
    /\ UNCHANGED <<http, pc, version, result, probes>> /\ UNCHANGED hostVars

Next == Runner \/ Handler \/ StatusPoll \/ Services \/ Panic \/ Crash \/ Tick

Spec == Init /\ [][Next]_vars
-----------------------------------------------------------------------------
(* What the daemon is configured to keep: batches and waits short of the     *)
(* staleness bounds.                                                         *)

WaitS == PollS + ConvergeTimeoutS

Timely ==
    /\ WaitS <= StaleDeployCompletedS
    /\ DeployIntervalS + 2 * MaxBatchS + WaitS <= StaleDeployRequestedS
-----------------------------------------------------------------------------
(* Properties *)

\* A Deploy() that has not returned still has the very entry it added: no one deleted
\* it, no other request for the app got a slot of its own, and once it has seen the
\* entry completed it stays completed.  What it polls, answers with and finally
\* deletes (daemon/api/deploy.go:136-147, by app name only) is its own deploy.
OwnEntry ==
    /\ \A r \in Req : Deploying(r) =>
          /\ Present(AppOf[r])
          /\ deploys[AppOf[r]].version = version[r]
          /\ pc[r] # "poll" => Completed(AppOf[r])
    /\ \A r, q \in Req :
          Deploying(r) /\ Deploying(q) /\ AppOf[r] = AppOf[q] => r = q

\* From the end of the range to the end of the lap the runner's list of targets and
\* the started deploys in the cache agree, version by version.  So MarkDeployComplete
\* never fails ("Unexpected failure to mark deploy as completed",
\* daemon/runners/deploy.go:87-89) and never completes a request that came later.
BatchIsCache ==
    \A a \in App :
        /\ deploys[a].stage = "started" => targets[a] = deploys[a].version
        /\ targets[a] # NoVersion /\ (rpc = "mark" => a \in pending) =>
              deploys[a].stage = "started"

\* A 200 says what it seems to say, as far as the code sees to it: the version asked for is
\* the one installed, what is on disk is not the configuration of another version (it may
\* lack files, daemon/runners/deploy.go:262-279), and no process of another version is
\* running.  A 500 is about a batch that failed (daemon/api/deploy.go:149-155).
AnswerIsTrue ==
    \A r \in Req : pc[r] = "return" =>
        LET a == AppOf[r] IN
        /\ result[r] = 200 => /\ installed[a] = version[r]
                              /\ configured[a] \in Written(version[r])
                              /\ running[a] \in {version[r], NoVersion}
        /\ result[r] = 500 <=> deploys[a].err = "failed"

\* Every target is out of rotation from before its package is touched until it was
\* restarted or the batch failed (daemon/runners/deploy.go:61-81), and is back before its
\* deploy is completed, so an answered Deploy() left its app in rotation.  For hosts
\* where touch and rm do not fail.
OutOfRotationCoversBatch ==
    /\ rpc \in BatchPC \ {"setOOR", "unsetOOR", "mark"} => Targeted \subseteq oor
    /\ rpc = "setOOR" => Targeted \ pending \subseteq oor
    /\ rpc = "unsetOOR" => pending \subseteq oor
    /\ \A a \in App : Completed(a) => a \notin oor

\* Every deploy in the cache is somebody's: an entry whose goroutine is gone would
\* turn every request for its app away with a 429 until it is stale.
NoOrphans ==
    \A a \in App : Present(a) => \E r \in Req : AppOf[r] = a /\ Deploying(r)

\* A deploy is taken up within a batch and a sleep of being asked for, done within another
\* batch, and its app's slot free once Deploy() has seen that and waited for convergence,
\* however the request meets the laps: nobody is answered 429 for longer on account of one
\* deploy (daemon/api/deploy.go:127, daemon/runners/deploy.go:47-52).
SlotFreesInTime ==
    \A a \in App :
        LET age == deploys[a].requestedAgo IN
        /\ deploys[a].stage = "requested" => age <= MaxBatchS + DeployIntervalS
        /\ deploys[a].stage = "started" => age <= 2 * MaxBatchS + DeployIntervalS
        /\ Present(a) => age <= 2 * MaxBatchS + DeployIntervalS + WaitS

-----------------------------------------------------------------------------
(* The inductive invariant: what makes the properties above hold as long as  *)
(* the configuration is Timely.                                              *)

\* Versions are real ones wherever there is a request or an entry.
VersionsReal ==
    /\ \A r \in Req : pc[r] # "idle" => version[r] \in Version
    /\ \A a \in App : Present(a) => deploys[a].version \in Version

\* No goroutine is late.
Punctual ==
    /\ \A r \in Req : Timed(r) => waited[r] <= Limit(r)
    /\ rpc = "range" => since = 0

\* A completed entry is as young as its goroutine's wait: Timely keeps it from being
\* stale before the goroutine deletes it.
CompletedIsYoung ==
    \A r \in Req : Deploying(r) /\ Completed(AppOf[r]) =>
        LET age == deploys[AppOf[r]].completedAgo IN
        /\ pc[r] = "poll"     => age <= waited[r]
        /\ pc[r] = "converge" => age <= PollS + waited[r]
        /\ pc[r] = "return"   => age <= WaitS

\* An entry missed by one lap's range is taken up by the next.
EntryIsYoung ==
    \A a \in App :
        LET age == deploys[a].requestedAgo IN
        /\ deploys[a].stage = "requested" =>
              /\ rpc = "sleep" => age <= MaxBatchS + since
              /\ rpc = "range" /\ a \in iter => age <= MaxBatchS + DeployIntervalS
              /\ rpc = "range" /\ a \notin iter => age <= since
              /\ rpc \in BatchPC => age <= since
        /\ deploys[a].stage = "started" => age <= MaxBatchS + DeployIntervalS + since
        /\ deploys[a].stage = "completed" =>
              age <= 2 * MaxBatchS + DeployIntervalS + deploys[a].completedAgo

\* What the runner's position says of its lists.
RunnerShape ==
    /\ rpc = "sleep" => targets = NoTargets
    /\ rpc \in {"setOOR", "configs", "unsetOOR", "mark"} => pending \subseteq Targeted
    /\ rpc \notin {"unsetOOR", "mark"} => batchErr = "nil"
    /\ rpc = "mark" => \A a \in App \ pending : deploys[a].stage # "started"

\* What a batch has done to a target when it has got to the runner's position.
BatchWentWell == rpc \in {"unsetOOR", "mark"} /\ batchErr = "nil"

BatchDone ==
    \A a \in Targeted :
        /\ (rpc \in {"configs", "reload", "restart"} \/ BatchWentWell) =>
              installed[a] = targets[a]
        /\ (rpc \in {"reload", "restart"} \/ BatchWentWell \/ (rpc = "configs" /\ a \notin pending)) =>
              configured[a] \in Written(targets[a])
        /\ BatchWentWell => running[a] \in {targets[a], NoVersion}

\* A deploy completed without an error is in place, and stays so until it is deleted.
CompletedIsInPlace ==
    \A a \in App : Completed(a) /\ deploys[a].err = "nil" =>
        /\ installed[a] = deploys[a].version
        /\ configured[a] \in Written(deploys[a].version)
        /\ running[a] \in {deploys[a].version, NoVersion}

ResultOfEntry ==
    \A r \in Req :
        /\ pc[r] = "converge" => deploys[AppOf[r]].err = "nil"
        /\ pc[r] = "return" => IF deploys[AppOf[r]].err = "nil"
                               THEN result[r] \in {200, 408} ELSE result[r] = 500

IInv ==
    /\ TypeOK
    /\ OwnEntry
    /\ NoOrphans
    /\ BatchIsCache
    /\ VersionsReal
    /\ Punctual
    /\ CompletedIsYoung
    /\ EntryIsYoung
    /\ RunnerShape
    /\ BatchDone
    /\ CompletedIsInPlace
    /\ ResultOfEntry
-----------------------------------------------------------------------------
(* The abstract specification, and what the documentation promises *)

\* The cache goes through the slots of DeploySlot: no deploy is forgotten before it is
\* done or taken up twice, and only the runner's batch changes what is installed, to
\* the version asked for.
SlotState(d) ==
    CASE d.stage = "absent"    -> "free"
      [] d.stage = "requested" -> "asked"
      [] d.stage = "started"   -> "working"
      [] d.stage = "completed" -> IF d.err = "nil" THEN "ok" ELSE "failed"

Slot == INSTANCE DeploySlot WITH
            state  <- [a \in App |-> SlotState(deploys[a])],
            wanted <- [a \in App |-> deploys[a].version]

ImplementsSlot == Slot!SlotSpec

\* "waits a max amount of time for a bg runner to complete successfully [...] if it
\* does not complete, a failure is returned" (daemon/api/deploy.go:114-117): Deploy()
\* returns.  The wait has no bound of its own, so this takes a Timely configuration.
DeployReturns == \A r \in Req : Deploying(r) ~> ~Deploying(r)

\* A goroutine that waits for convergence ends with an answer, 200 or the 408 of
\* "error on time out based a configured converge interval"
\* (daemon/api/deploy.go:157-159), not with the death of the daemon.
ConvergeIsAnswered ==
    [][\A r \in Req : pc[r] = "converge" => pc'[r] \in {"converge", "return"}]_vars

\* "confirm from statusCache that install+running statuses converged on requested
\* version" (daemon/api/deploy.go:158): after a 200 the version is running.
SuccessMeansRunning ==
    \A r \in Req : pc[r] = "return" /\ result[r] = 200 =>
        running[AppOf[r]] = version[r]
=============================================================================
