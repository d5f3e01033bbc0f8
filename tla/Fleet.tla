-------------------------------- MODULE Fleet --------------------------------
(***************************************************************************)
(* A deploy from end to end: the API and the queue, the worker and its      *)
(* threads, and the app-controld of every instance of one application.      *)
(* Each daemon is the slot of DeploySlot, the specification that Controld   *)
(* implements: DeploySlot's set of apps is here the set of hosts, each      *)
(* with its one app.  The module adds what passes between worker and        *)
(* daemon: a request arrives, gets a 429 or the slot, and is answered when  *)
(* Deploy() returns, at the daemon's own deadline, or never.                *)
(***************************************************************************)
EXTENDS GceJob

CONSTANTS
    Version, NoVersion,
    VersionOf           \* [Job -> Version]: the version the job deploys

ASSUME VersionAssumption == VersionOf \in [Job -> Version] /\ NoVersion \notin Version

VARIABLES
    slot, wanted, installed,    \* each host's deploy slot (see DeploySlot)
    owner                       \* [Host -> Job \cup {NoJob}]: whose deploy is in the slot

hostVars == <<slot, wanted, installed, owner>>
vars == <<queueVars, workerVars, hostVars>>

Slot == INSTANCE DeploySlot WITH App <- Host, state <- slot

TypeOK ==
    /\ QueueTypeOK
    /\ WorkerTypeOK
    /\ slot \in [Host -> {"free", "asked", "working", "ok", "failed"}]
    /\ wanted \in [Host -> Version \cup {NoVersion}]
    /\ installed \in [Host -> Version \cup {NoVersion}]
    /\ owner \in [Host -> Job \cup {NoJob}]

Init ==
    /\ QueueInit
    /\ WorkerInit
    /\ Slot!SlotInit
    /\ installed = [h \in Host |-> NoVersion]
    /\ owner = [h \in Host |-> NoJob]
-----------------------------------------------------------------------------
(* Requests *)

TakesSlot(h, j) ==
    /\ Slot!Ask(h, VersionOf[j])
    /\ owner' = [owner EXCEPT ![h] = j]

Busy(h) == slot[h] # "free"

Arrive_Joins(t, h) ==
    /\ hpc[t][h] = "sent"
    /\ HostGoes(t, h, "accepted")
    /\ TakesSlot(h, job[t]) \/ (Busy(h) /\ UNCHANGED hostVars)
    /\ UNCHANGED queueVars /\ UNCHANGED <<orphans, late, outcome>>

\* A request reaches the daemon and gets the slot, or a 429 at once.
Arrive(t, h) ==
    /\ hpc[t][h] = "sent"
    /\ \/ TakesSlot(h, job[t]) /\ HostGoes(t, h, "accepted")
       \/ Busy(h) /\ HostGoes(t, h, "done") /\ UNCHANGED hostVars
    /\ UNCHANGED queueVars /\ UNCHANGED <<orphans, late, outcome>>

\* So does one whose goroutine has given it up.
ArriveLate(o) ==
    /\ o \in orphans
    /\ ~o.arrived
    /\ \/ /\ TakesSlot(o.host, o.job)
          /\ orphans' = (orphans \ {o}) \cup {[o EXCEPT !.arrived = TRUE]}
       \/ /\ Busy(o.host)
          /\ orphans' = orphans \ {o}
          /\ UNCHANGED hostVars
    /\ UNCHANGED queueVars /\ UNCHANGED <<hpc, late, outcome>>

\* And one whose worker is dead: the daemon does its deploy, and nobody gets the answer.
ArriveUnawaited(l) ==
    /\ l \in late
    /\ late' = late \ {l}
    /\ TakesSlot(l.host, l.job) \/ (Busy(l.host) /\ UNCHANGED hostVars)
    /\ UNCHANGED queueVars /\ UNCHANGED <<hpc, orphans, outcome>>

Waiting(h) ==
    \/ \E t \in Thread : hpc[t][h] = "accepted"
    \/ \E o \in orphans : o.host = h /\ o.arrived

\* Whoever waits for the host's deploy gets a response, whatever it says.
Answered(h) ==
    /\ hpc' = [t \in Thread |->
                 [hpc[t] EXCEPT ![h] = IF @ = "accepted" THEN "done" ELSE @]]
    /\ orphans' = {o \in orphans : ~(o.host = h /\ o.arrived)}
    /\ UNCHANGED <<late, outcome>>

\* Deploy() returns: its entry is deleted and its result sent.
DeployReturns(h) ==
    /\ Slot!Free(h)
    /\ owner' = [owner EXCEPT ![h] = NoJob]
    /\ Answered(h)
    /\ UNCHANGED queueVars

\* The daemon's deadline for a response passes, and its deploy goes on.  The 408 gets
\* through, or the server has closed the connection (see Break).
Deadline(h) ==
    /\ "deadline" \in Faults
    /\ Waiting(h)
    /\ Answered(h)
    /\ UNCHANGED queueVars /\ UNCHANGED hostVars

\* A connection is refused, reset or closed without a response: client.Do returns an
\* error and a nil response, and the next line reads its body.
Break ==
    /\ "break" \in Faults
    /\ orphans # {} \/ \E t \in Thread : Asking(t) # {}
    /\ WorkerDies
    /\ UNCHANGED hostVars
-----------------------------------------------------------------------------
(* The daemons *)

\* The runner takes a deploy up, installs its version and completes it.
Work(h) ==
    /\ \/ Slot!Take(h)
       \/ Slot!Install /\ installed' = [installed EXCEPT ![h] = wanted[h]]
       \/ Slot!Finish(h) /\ (slot'[h] = "failed" => "fail" \in Faults)
    /\ UNCHANGED owner /\ UNCHANGED queueVars /\ UNCHANGED workerVars

\* A daemon dies and forgets its deploy; a request that waited for it breaks.
DaemonDies(h) ==
    /\ "daemon" \in Faults
    /\ slot' = [slot EXCEPT ![h] = "free"]
    /\ wanted' = [wanted EXCEPT ![h] = NoVersion]
    /\ owner' = [owner EXCEPT ![h] = NoJob]
    /\ UNCHANGED installed
    /\ IF Waiting(h) THEN WorkerDies ELSE UNCHANGED queueVars /\ UNCHANGED workerVars

Queue == QueueNext /\ UNCHANGED workerVars /\ UNCHANGED hostVars

Worker(t) == GceJobStep(t) /\ UNCHANGED hostVars

Next ==
    \/ Queue
    \/ \E t \in Thread : Worker(t)
    \/ \E t \in Thread, h \in Host : Arrive(t, h)
    \/ \E o \in orphans : ArriveLate(o)
    \/ \E l \in late : ArriveUnawaited(l)
    \/ \E h \in Host : DeployReturns(h) \/ Deadline(h) \/ Work(h) \/ DaemonDies(h)
    \/ Break

Spec == Init /\ [][Next]_vars

\* The worker's goroutines run and its timers fire; nothing is asked of the hosts.
FairSpec == Spec /\ \A t \in Thread : WF_vars(Worker(t))
-----------------------------------------------------------------------------
(* Properties *)

InProgress(j) == {h \in Host : owner[h] = j}

\* The places in the channel of a job's goroutines.
Places(j) == IF BatchCount(j) > 0 THEN BatchCount(j) ELSE 0

\* "parallelize app-controld deploys only up to the requested concurrency's batchCount"
\* (worker/worker/worker.go:469): no more instances are at work on a job at once.
RollingDeploy ==
    \A j \in Job : Cardinality(InProgress(j)) <= Places(j)

\* A goroutine that waits for an accepted request waits for the deploy in its host's
\* slot, which is its own job's, and nobody else does: the answer it gets is about it.
WaitsForItsOwn ==
    \A h \in Host, t \in Thread : hpc[t][h] = "accepted" =>
        /\ Busy(h)
        /\ owner[h] = job[t]
        /\ wanted[h] = VersionOf[job[t]]
        /\ \A u \in Thread \ {t} : hpc[u][h] # "accepted"

Held(j) == \E t \in Thread : job[t] = j

\* Where acknowledgements are not lost a job is worked on once: by one thread, and not
\* again after it has ended.
WorkedOnOnce ==
    \A j \in Job :
        /\ \A t, u \in Thread : job[t] = j /\ job[u] = j => t = u
        /\ Held(j) => topic[j] = 0 /\ outcome[j] = "none"
        /\ topic[j] = 1 => outcome[j] = "none"

Life(j) ==
    CASE outcome[j] = "nil"   -> "done"
      [] outcome[j] = "error" -> "failed"
      [] outcome[j] = "none" /\ topic[j] = 1 -> "queued"
      [] outcome[j] = "none" /\ topic[j] = 0 /\ Held(j) -> "taken"
      [] OTHER -> IF answer[j] = "none" \/ j \in sending THEN "new" ELSE "gone"

\* A thread has not looked the instances up yet, or its request to this one is to arrive.
ToCome(t, h) == tpc[t] = "batch" => hpc[t][h] \in {"queued", "sent"}

Left(j) ==
    IF Life(j) \in {"new", "queued"} THEN Cluster[j]
    ELSE {h \in Cluster[j] : \/ \E t \in Thread : job[t] = j /\ ToCome(t, h)
                             \/ [job |-> j, host |-> h] \in late}

Rolls(j) == INSTANCE Rollout WITH
                life <- Life(j), left <- Left(j), busy <- InProgress(j),
                Instances <- Cluster[j], Room <- Places(j)

\* Where no acknowledgement is lost and no request given up, queue, threads, channel and
\* daemons together are a Rollout: a job is taken once, comes to each instance of its
\* cluster at most once, within its batchCount, is done when it has come to all and none
\* is at work on it, and has touched none when it ends with an error
\* (worker/worker/worker.go, processDeployJobGCE).
ImplementsRollout ==
    /\ \A j \in Job : Rolls(j)!RolloutInit
    /\ [][\A j \in Job : UNCHANGED Rolls(j)!rolloutVars \/ Rolls(j)!RolloutNext]_vars

\* A job the client was promised is in the topic, with a thread, or over; only the
\* worker's death, which leaves no thread with a job, loses it.
NoJobIsLost ==
    [][\A j \in Job : answer[j] = "enqueued" /\ (topic[j] = 1 \/ Held(j)) =>
          \/ topic'[j] = 1
          \/ \E t \in Thread : job'[t] = j
          \/ outcome'[j] # "none"
          \/ \A t \in Thread : tpc'[t] = "idle"]_vars

\* Whatever the instances do, a job that asks for at least one of them at a time ends.
EveryJobEnds ==
    \A t \in Thread :
        tpc[t] = "batch" /\ BatchCount(job[t]) >= 1 ~> tpc[t] # "batch"
=============================================================================
