----------------------------- MODULE FleetProofs -----------------------------
(***************************************************************************)
(* What Fleet keeps for every number of jobs, threads and instances.        *)
(* WaitsForItsOwn holds whatever goes wrong; a job is worked on once where  *)
(* acknowledgements are not lost; and where, besides, no request is given   *)
(* up before its deploy is done, by the worker or by the daemon, a job      *)
(* never has more instances at work than its batchCount, and every job runs *)
(* as Rollout says.                                                         *)
(***************************************************************************)
EXTENDS Fleet, FiniteSetTheorems, TLAPS

\* A thread has a job from the callback to the end of the job, and goroutines for
\* instances only while it waits for them.
ThreadShape ==
    \A t \in Thread :
        /\ tpc[t] \in {"acked", "instances", "batch"} => job[t] \in Job
        /\ tpc[t] \in {"idle", "receive"} => job[t] = NoJob
        /\ tpc[t] # "batch" => hpc[t] = NoHosts

IInv == TypeOK /\ ThreadShape /\ WaitsForItsOwn

USE DEF queueVars, workerVars, hostVars

LEMMA InitIInv == Init => IInv
  BY VersionAssumption DEF Init, IInv, TypeOK, QueueTypeOK, WorkerTypeOK, QueueInit, WorkerInit,
     Slot!SlotInit, ThreadShape, ThreadPC, WaitsForItsOwn, NoHosts, HostPC, Orphan, Request

\* The death of the worker disturbs no daemon, and leaves nobody waiting.
LEMMA DeathKeepsIInv ==
  ASSUME IInv, WorkerDies, UNCHANGED hostVars \/ \E h \in Host : DaemonDies(h)
  PROVE  IInv'
  <1>1. TypeOK'
    BY DEF IInv, TypeOK, QueueTypeOK, WorkerTypeOK, WorkerDies, DaemonDies, ThreadPC, HostPC,
       NoHosts, OnTheWay
  <1>2. ThreadShape'
    BY DEF WorkerDies, ThreadShape, NoHosts
  <1>3. WaitsForItsOwn'
    BY DEF WorkerDies, WaitsForItsOwn, NoHosts
  <1> QED BY <1>1, <1>2, <1>3 DEF IInv

\* A goroutine that has one is in the middle of its thread's job.
LEMMA GoroutineHasJob ==
  ASSUME IInv, NEW t \in Thread, NEW h \in Host, hpc[t][h] # "none"
  PROVE  tpc[t] = "batch" /\ job[t] \in Job
  BY DEF IInv, ThreadShape, NoHosts, TypeOK, QueueTypeOK, ThreadPC

LEMMA QueueKeepsIInv == ASSUME IInv, Queue PROVE IInv'
  <1>1. TypeOK'
    <2>1. ASSUME NEW j \in Job,
                 Enqueue(j) \/ EnqueueFails(j) \/ PublishLate(j) \/ PublishGivenUp(j)
          PROVE  QueueTypeOK'
      <3>1. /\ UNCHANGED <<tpc, job>> /\ sending' \in SUBSET Job
            /\ topic' = topic \/ topic' = [topic EXCEPT ![j] = 1]
        BY <2>1 DEF IInv, TypeOK, QueueTypeOK, Enqueue, EnqueueFails, PublishLate,
           PublishGivenUp, Publish
      <3>2. answer' \in [Job -> {"none", "enqueued", "failed"}]
        BY <2>1 DEF IInv, TypeOK, QueueTypeOK, Enqueue, EnqueueFails, PublishLate, PublishGivenUp
      <3> QED BY <3>1, <3>2 DEF IInv, TypeOK, QueueTypeOK
    <2>2. ASSUME NEW t \in Thread,
                 \/ Receive(t) \/ Dequeued(t) \/ ReceiveTimesOut(t) \/ ReceiveFails(t)
                 \/ \E j \in Job : Deliver(t, j)
          PROVE  QueueTypeOK'
      BY <2>2 DEF IInv, TypeOK, QueueTypeOK, Receive, Deliver, Dequeued, ReceiveTimesOut,
         ReceiveFails, Goto, ThreadPC
    <2> QED BY <2>1, <2>2 DEF IInv, TypeOK, WorkerTypeOK, Queue, QueueNext
  <1>2. ThreadShape'
    BY DEF IInv, TypeOK, QueueTypeOK, Queue, QueueNext, Enqueue, EnqueueFails,
       PublishLate, PublishGivenUp, Publish, Receive, Deliver, Dequeued, ReceiveTimesOut,
       ReceiveFails, Goto, ThreadPC, ThreadShape
  <1>3. \A t \in Thread : hpc[t] # NoHosts => job'[t] = job[t]
    BY DEF IInv, TypeOK, QueueTypeOK, Queue, QueueNext, Enqueue, EnqueueFails, PublishLate,
       PublishGivenUp, Receive, Deliver, Dequeued, ReceiveTimesOut, ReceiveFails, ThreadShape
  <1>4. WaitsForItsOwn'
    BY <1>3 DEF IInv, WaitsForItsOwn, Queue, Busy, NoHosts
  <1> QED BY <1>1, <1>2, <1>4 DEF IInv

\* A thread's goroutines move, but none of them into "accepted".
LEMMA WorkerKeepsIInv == ASSUME IInv, NEW t \in Thread, Worker(t) PROVE IInv'
  <1> USE DEF IInv
  <1>1. CASE WorkerDies
    BY <1>1, DeathKeepsIInv DEF Worker
  <1>2. ASSUME NEW err \in {"nil", "error"}, JobEnds(t, err), tpc[t] \in {"instances", "batch"}
        PROVE IInv'
    <2>1. TypeOK'
      BY <1>2 DEF Worker, JobEnds, Goto, TypeOK, QueueTypeOK, WorkerTypeOK, ThreadPC,
         ThreadShape, NoHosts, HostPC
    <2>2. ThreadShape'
      BY <1>2 DEF JobEnds, Goto, TypeOK, QueueTypeOK, WorkerTypeOK, ThreadShape
    <2>3. WaitsForItsOwn'
      BY <1>2 DEF Worker, JobEnds, TypeOK, QueueTypeOK, WorkerTypeOK, WaitsForItsOwn, NoHosts,
         Busy
    <2> QED BY <2>1, <2>2, <2>3
  <1>3. CASE GetInstances(t)
    <2>1. TypeOK'
      BY <1>3 DEF Worker, GetInstances, Goto, TypeOK, QueueTypeOK, WorkerTypeOK, ThreadPC, HostPC
    <2>2. ThreadShape'
      BY <1>3 DEF GetInstances, Goto, TypeOK, QueueTypeOK, WorkerTypeOK, ThreadShape
    <2>3. WaitsForItsOwn'
      BY <1>3 DEF Worker, GetInstances, TypeOK, QueueTypeOK, WorkerTypeOK, WaitsForItsOwn, Busy
    <2> QED BY <2>1, <2>2, <2>3
  <1>4. ASSUME NEW h \in Host, Reserve(t, h) PROVE IInv'
    <2>1. TypeOK'
      BY <1>4 DEF Worker, Reserve, HostGoes, TypeOK, QueueTypeOK, WorkerTypeOK, HostPC
    <2>2. ThreadShape'
      BY <1>4, GoroutineHasJob DEF Reserve, HostGoes, TypeOK, WorkerTypeOK, ThreadShape
    <2>3. WaitsForItsOwn'
      BY <1>4 DEF Worker, Reserve, HostGoes, TypeOK, WorkerTypeOK, WaitsForItsOwn, Busy
    <2> QED BY <2>1, <2>2, <2>3
  <1>5. ASSUME NEW h \in Host, TimesOut(t, h) PROVE IInv'
    <2>1. tpc[t] = "batch" /\ job[t] \in Job
      BY <1>5, GoroutineHasJob DEF TimesOut, Asking
    <2> DEFINE o == [job |-> job[t], host |-> h, arrived |-> hpc[t][h] = "accepted"]
    <2>2. o \in Orphan
      BY <2>1 DEF Orphan
    <2>3. orphans' = orphans \cup {o} /\ HostGoes(t, h, "done") /\ UNCHANGED <<late, outcome>>
      BY <1>5 DEF TimesOut
    <2> HIDE DEF o
    <2>4. TypeOK'
      BY <1>5, <2>2, <2>3 DEF Worker, TimesOut, HostGoes, TypeOK, QueueTypeOK, WorkerTypeOK, HostPC
    <2>5. ThreadShape'
      BY <1>5, <2>1 DEF TimesOut, HostGoes, TypeOK, WorkerTypeOK, ThreadShape
    <2>6. WaitsForItsOwn'
      BY <1>5 DEF Worker, TimesOut, HostGoes, TypeOK, WorkerTypeOK, WaitsForItsOwn, Busy
    <2> QED BY <2>4, <2>5, <2>6
  <1>6. GetInstancesFails(t) \/ ConcurrencyRefused(t) \/ JobReturns(t) =>
          WorkerDies \/ \E err \in {"nil", "error"} :
                            JobEnds(t, err) /\ tpc[t] \in {"instances", "batch"}
    BY DEF GetInstancesFails, ConcurrencyRefused, JobReturns
  <1> QED BY <1>1, <1>2, <1>3, <1>4, <1>5, <1>6 DEF Worker, GceJobStep

\* Steps that leave the queue alone keep ThreadShape, if only goroutines there are move.
LEMMA ShapeFrame ==
  ASSUME IInv, UNCHANGED queueVars,
         \A t \in Thread : hpc'[t] = hpc[t] \/ hpc[t] # NoHosts
  PROVE  ThreadShape'
  BY DEF IInv, ThreadShape

LEMMA ArriveKeepsIInv == ASSUME IInv, NEW t \in Thread, NEW h \in Host, Arrive(t, h) PROVE IInv'
  <1> USE DEF IInv
  <1>1. tpc[t] = "batch" /\ job[t] \in Job /\ hpc[t] # NoHosts
    BY GoroutineHasJob DEF Arrive, NoHosts
  <1>2. CASE TakesSlot(h, job[t]) /\ HostGoes(t, h, "accepted")
    <2>1. TypeOK'
      BY <1>1, <1>2, VersionAssumption DEF Arrive, TakesSlot, HostGoes, Slot!Ask, TypeOK,
         QueueTypeOK, WorkerTypeOK, HostPC
    <2>2. ThreadShape'
      BY <1>1, <1>2, ShapeFrame DEF Arrive, HostGoes, TypeOK, WorkerTypeOK
    <2>3. \A u \in Thread : hpc[u][h] # "accepted"
      BY <1>2 DEF TakesSlot, Slot!Ask, WaitsForItsOwn, Busy
    <2>4. WaitsForItsOwn'
      BY <1>1, <1>2, <2>3, VersionAssumption DEF Arrive, TakesSlot, HostGoes, Slot!Ask, TypeOK,
         WorkerTypeOK, WaitsForItsOwn, Busy
    <2> QED BY <2>1, <2>2, <2>4
  <1>3. CASE Busy(h) /\ HostGoes(t, h, "done") /\ UNCHANGED hostVars
    <2>1. TypeOK'
      BY <1>3 DEF Arrive, HostGoes, TypeOK, QueueTypeOK, WorkerTypeOK, HostPC
    <2>2. ThreadShape'
      BY <1>1, <1>3, ShapeFrame DEF Arrive, HostGoes, TypeOK, WorkerTypeOK
    <2>3. WaitsForItsOwn'
      BY <1>3 DEF Arrive, HostGoes, TypeOK, WorkerTypeOK, WaitsForItsOwn, Busy
    <2> QED BY <2>1, <2>2, <2>3
  <1> QED BY <1>2, <1>3 DEF Arrive

LEMMA LateKeepsIInv == ASSUME IInv, NEW o \in orphans, ArriveLate(o) PROVE IInv'
  <1> USE DEF IInv
  <1>1. o.job \in Job /\ o.host \in Host
    BY DEF TypeOK, WorkerTypeOK, Orphan
  <1>2. ThreadShape'
    BY ShapeFrame DEF ArriveLate
  <1>3. CASE Busy(o.host) /\ orphans' = orphans \ {o} /\ UNCHANGED hostVars
    <2>1. TypeOK'
      BY <1>3 DEF ArriveLate, TypeOK, QueueTypeOK, WorkerTypeOK
    <2>2. WaitsForItsOwn'
      BY <1>3 DEF ArriveLate, WaitsForItsOwn, Busy
    <2> QED BY <1>2, <2>1, <2>2
  <1>4. CASE TakesSlot(o.host, o.job)
             /\ orphans' = (orphans \ {o}) \cup {[o EXCEPT !.arrived = TRUE]}
    <2>1. TypeOK'
      BY <1>1, <1>4, VersionAssumption DEF ArriveLate, TakesSlot, Slot!Ask, TypeOK, QueueTypeOK,
         WorkerTypeOK, Orphan
    <2>2. \A u \in Thread : hpc[u][o.host] # "accepted"
      BY <1>1, <1>4 DEF TakesSlot, Slot!Ask, WaitsForItsOwn, Busy
    <2>3. WaitsForItsOwn'
      BY <1>4, <2>2 DEF ArriveLate, TakesSlot, Slot!Ask, TypeOK, WaitsForItsOwn, Busy
    <2> QED BY <1>2, <2>1, <2>3
  <1> QED BY <1>3, <1>4 DEF ArriveLate

LEMMA UnawaitedKeepsIInv == ASSUME IInv, NEW l \in late, ArriveUnawaited(l) PROVE IInv'
  <1> USE DEF IInv
  <1>1. l.job \in Job /\ l.host \in Host
    BY DEF TypeOK, WorkerTypeOK, Request
  <1>2. ThreadShape'
    BY ShapeFrame DEF ArriveUnawaited
  <1>3. CASE UNCHANGED hostVars
    <2>1. TypeOK'
      BY <1>3 DEF ArriveUnawaited, TypeOK, QueueTypeOK, WorkerTypeOK
    <2>2. WaitsForItsOwn'
      BY <1>3 DEF ArriveUnawaited, WaitsForItsOwn, Busy
    <2> QED BY <1>2, <2>1, <2>2
  <1>4. CASE TakesSlot(l.host, l.job)
    <2>1. TypeOK'
      BY <1>1, <1>4, VersionAssumption DEF ArriveUnawaited, TakesSlot, Slot!Ask, TypeOK,
         QueueTypeOK, WorkerTypeOK
    <2>2. \A u \in Thread : hpc[u][l.host] # "accepted"
      BY <1>1, <1>4 DEF TakesSlot, Slot!Ask, WaitsForItsOwn, Busy
    <2>3. WaitsForItsOwn'
      BY <1>4, <2>2 DEF ArriveUnawaited, TakesSlot, Slot!Ask, TypeOK, WaitsForItsOwn, Busy
    <2> QED BY <1>2, <2>1, <2>3
  <1> QED BY <1>3, <1>4 DEF ArriveUnawaited

\* An answer leaves nobody waiting at its host and moves nobody else.
LEMMA AnsweredMoves ==
  ASSUME IInv, NEW h \in Host, Answered(h), UNCHANGED queueVars
  PROVE  /\ WorkerTypeOK'
         /\ ThreadShape'
         /\ \A t \in Thread : hpc'[t][h] # "accepted"
         /\ \A t \in Thread, g \in Host \ {h} : hpc'[t][g] = hpc[t][g]
  <1> USE DEF IInv
  <1>1. \A t \in Thread : /\ hpc'[t] \in [Host -> HostPC]
                          /\ hpc'[t][h] = IF hpc[t][h] = "accepted" THEN "done" ELSE hpc[t][h]
                          /\ \A g \in Host \ {h} : hpc'[t][g] = hpc[t][g]
    BY DEF Answered, TypeOK, WorkerTypeOK, HostPC
  <1>2. WorkerTypeOK'
    BY <1>1 DEF Answered, TypeOK, WorkerTypeOK
  <1>3. \A t \in Thread : hpc'[t] = hpc[t] \/ hpc[t] # NoHosts
    <2> SUFFICES ASSUME NEW t \in Thread, hpc[t] = NoHosts PROVE hpc'[t] = hpc[t]
      OBVIOUS
    <2>1. hpc[t][h] = "none"
      BY DEF NoHosts
    <2>2. hpc'[t] = [hpc[t] EXCEPT ![h] = hpc[t][h]]
      BY <2>1 DEF Answered
    <2> QED BY <2>2 DEF TypeOK, WorkerTypeOK
  <1>4. ThreadShape'
    BY <1>3, ShapeFrame
  <1> QED BY <1>1, <1>2, <1>4

LEMMA HostKeepsIInv ==
  ASSUME IInv, NEW h \in Host, DeployReturns(h) \/ Deadline(h) \/ Work(h) \/ DaemonDies(h)
  PROVE  IInv'
  <1> USE DEF IInv
  <1>1. CASE DeployReturns(h)
    <2>1. TypeOK'
      BY <1>1, AnsweredMoves DEF DeployReturns, Slot!Free, TypeOK, QueueTypeOK
    <2>2. ThreadShape'
      BY <1>1, AnsweredMoves DEF DeployReturns
    <2>3. \A g \in Host \ {h} : /\ slot'[g] = slot[g] /\ owner'[g] = owner[g]
                                /\ wanted'[g] = wanted[g]
      BY <1>1 DEF DeployReturns, Slot!Free, TypeOK
    <2>4. WaitsForItsOwn'
      BY <1>1, <2>3, AnsweredMoves DEF DeployReturns, WaitsForItsOwn, Busy
    <2> QED BY <2>1, <2>2, <2>4
  <1>2. CASE Deadline(h)
    <2>1. TypeOK' /\ ThreadShape'
      BY <1>2, AnsweredMoves DEF Deadline, TypeOK, QueueTypeOK
    <2>2. WaitsForItsOwn'
      BY <1>2, AnsweredMoves DEF Deadline, WaitsForItsOwn, Busy
    <2> QED BY <2>1, <2>2
  <1>3. CASE Work(h)
    <2>1. /\ slot' \in [Host -> {"free", "asked", "working", "ok", "failed"}]
          /\ \A g \in Host : slot[g] # "free" => slot'[g] # "free"
          /\ installed' \in [Host -> Version \cup {NoVersion}]
          /\ UNCHANGED wanted
      BY <1>3 DEF Work, Slot!Take, Slot!Install, Slot!Finish, TypeOK
    <2>2. TypeOK'
      BY <1>3, <2>1 DEF Work, TypeOK, QueueTypeOK, WorkerTypeOK
    <2>3. ThreadShape'
      BY <1>3, ShapeFrame DEF Work
    <2>4. WaitsForItsOwn'
      BY <1>3, <2>1 DEF Work, WaitsForItsOwn, Busy
    <2> QED BY <2>2, <2>3, <2>4
  <1>4. CASE DaemonDies(h)
    <2>1. CASE WorkerDies
      BY <1>4, <2>1, DeathKeepsIInv
    <2>2. CASE ~Waiting(h) /\ UNCHANGED queueVars /\ UNCHANGED workerVars
      <3>1. TypeOK'
        BY <1>4, <2>2 DEF DaemonDies, TypeOK, QueueTypeOK, WorkerTypeOK
      <3>2. ThreadShape'
        BY <2>2, ShapeFrame
      <3>3. WaitsForItsOwn'
        BY <1>4, <2>2 DEF DaemonDies, Waiting, TypeOK, WaitsForItsOwn, Busy
      <3> QED BY <3>1, <3>2, <3>3
    <2> QED BY <1>4, <2>1, <2>2 DEF DaemonDies
  <1> QED BY <1>1, <1>2, <1>3, <1>4

LEMMA IInvStep == ASSUME IInv, [Next]_vars PROVE IInv'
  <1>1. CASE Queue
    BY <1>1, QueueKeepsIInv
  <1>2. ASSUME NEW t \in Thread, Worker(t) PROVE IInv'
    BY <1>2, WorkerKeepsIInv
  <1>3. ASSUME NEW t \in Thread, NEW h \in Host, Arrive(t, h) PROVE IInv'
    BY <1>3, ArriveKeepsIInv
  <1>4. ASSUME NEW o \in orphans, ArriveLate(o) PROVE IInv'
    BY <1>4, LateKeepsIInv
  <1>5. ASSUME NEW l \in late, ArriveUnawaited(l) PROVE IInv'
    BY <1>5, UnawaitedKeepsIInv
  <1>6. ASSUME NEW h \in Host, DeployReturns(h) \/ Deadline(h) \/ Work(h) \/ DaemonDies(h)
        PROVE  IInv'
    BY <1>6, HostKeepsIInv
  <1>7. CASE Break
    BY <1>7, DeathKeepsIInv DEF Break
  <1>8. CASE UNCHANGED vars
    BY <1>8 DEF vars, IInv, TypeOK, QueueTypeOK, WorkerTypeOK, ThreadShape, WaitsForItsOwn, Busy
  <1> QED BY <1>1, <1>2, <1>3, <1>4, <1>5, <1>6, <1>7, <1>8 DEF Next

\* Every variable of the fleet keeps its type, whatever fails.
THEOREM FleetTyped == Spec => []TypeOK
  <1>1. IInv => TypeOK
    BY DEF IInv
  <1> QED BY <1>1, InitIInv, IInvStep, PTL DEF Spec

THEOREM FleetInvariant == Spec => []IInv
  BY InitIInv, IInvStep, PTL DEF Spec

\* A goroutine that waits for an accepted request waits for the deploy that is in its
\* host's slot, for its own job and version, and alone: requests given up, late, answered
\* or broken, and jobs that came back, notwithstanding.
THEOREM WaitsForItsOwnAlways == Spec => []WaitsForItsOwn
  <1>1. IInv => WaitsForItsOwn
    BY DEF IInv
  <1> QED BY <1>1, FleetInvariant, PTL
-----------------------------------------------------------------------------
(* Acknowledgements *)

\* A job the client has not asked for yet, or one that is still being published, is nowhere.
NotBefore ==
    \A j \in Job :
        /\ answer[j] = "none" \/ j \in sending =>
               topic[j] = 0 /\ ~Held(j) /\ outcome[j] = "none"
        /\ answer[j] = "none" => j \notin sending

OnceInv == IInv /\ NotBefore /\ WorkedOnOnce

LEMMA InitOnce == Init => OnceInv
  <1>1. Init => NotBefore /\ WorkedOnOnce
    BY JobAssumption DEF Init, QueueInit, WorkerInit, NotBefore, WorkedOnOnce, Held
  <1> QED BY <1>1, InitIInv DEF OnceInv

\* Steps that start, deliver and end no job.
LEMMA OnceFrame ==
  ASSUME OnceInv, UNCHANGED <<topic, answer, sending, outcome>>,
         \A t \in Thread : job'[t] \in {job[t], NoJob}
  PROVE  NotBefore' /\ WorkedOnOnce'
  BY JobAssumption DEF OnceInv, NotBefore, WorkedOnOnce, Held

LEMMA OnceStep ==
  ASSUME "acklost" \notin Faults, OnceInv, [Next]_vars
  PROVE  OnceInv'
  <1> USE DEF OnceInv
  <1> SUFFICES NotBefore' /\ WorkedOnOnce'
    BY IInvStep
  <1>1. TypeOK /\ ThreadShape /\ NotBefore /\ WorkedOnOnce
    BY DEF IInv
  <1>2. WorkerDies => NotBefore' /\ WorkedOnOnce'
    BY OnceFrame DEF WorkerDies
  <1>3. UNCHANGED queueVars /\ UNCHANGED outcome => NotBefore' /\ WorkedOnOnce'
    BY OnceFrame
  <1>4. ASSUME NEW j \in Job, UNCHANGED outcome,
               Enqueue(j) \/ EnqueueFails(j) \/ PublishLate(j) \/ PublishGivenUp(j)
        PROVE  NotBefore' /\ WorkedOnOnce'
    <2>1. UNCHANGED job
      BY <1>4 DEF Enqueue, EnqueueFails, PublishLate, PublishGivenUp
    <2>2. /\ topic' = topic \/ topic' = [topic EXCEPT ![j] = 1]
          /\ \A k \in Job \ {j} : topic'[k] = topic[k] /\ answer'[k] = answer[k]
                                  /\ (k \in sending' <=> k \in sending)
          /\ answer'[j] # "none" /\ (j \in sending' => topic'[j] = topic[j])
      BY <1>1, <1>4 DEF Enqueue, EnqueueFails, PublishLate, PublishGivenUp, Publish, TypeOK,
         QueueTypeOK, NotBefore
    <2>3. topic[j] = 0 /\ ~Held(j) /\ outcome[j] = "none"
      BY <1>1, <1>4 DEF Enqueue, EnqueueFails, PublishLate, PublishGivenUp, NotBefore
    <2>4. NotBefore'
      BY <1>1, <1>4, <2>1, <2>2, <2>3 DEF NotBefore, Held
    <2>5. WorkedOnOnce'
      BY <1>1, <1>4, <2>1, <2>2, <2>3 DEF WorkedOnOnce, Held, TypeOK, QueueTypeOK
    <2> QED BY <2>4, <2>5
  <1>5. ASSUME NEW t \in Thread, NEW j \in Job, Deliver(t, j), UNCHANGED outcome
        PROVE  NotBefore' /\ WorkedOnOnce'
    <2>1. /\ topic' = [topic EXCEPT ![j] = 0] /\ UNCHANGED <<answer, sending>>
          /\ job' = [job EXCEPT ![t] = j]
          /\ topic[j] = 1
      BY <1>5 DEF Deliver
    <2>2. ~Held(j) /\ answer[j] # "none" /\ j \notin sending /\ outcome[j] = "none"
      BY <1>1, <2>1 DEF NotBefore, WorkedOnOnce
    <2>3. \A u \in Thread, k \in Job : job'[u] = k <=> job[u] = k \/ (u = t /\ k = j)
      BY <1>1, <1>5, <2>1, JobAssumption DEF Deliver, ThreadShape, TypeOK, QueueTypeOK
    <2>4. NotBefore'
      BY <1>1, <1>5, <2>1, <2>2, <2>3 DEF NotBefore, Held, TypeOK, QueueTypeOK
    <2>5. WorkedOnOnce'
      BY <1>1, <1>5, <2>1, <2>2, <2>3 DEF WorkedOnOnce, Held, TypeOK, QueueTypeOK
    <2> QED BY <2>4, <2>5
  <1>6. CASE Queue
    <2>1. ASSUME NEW t \in Thread,
                 Receive(t) \/ Dequeued(t) \/ ReceiveTimesOut(t) \/ ReceiveFails(t)
          PROVE  /\ UNCHANGED <<topic, answer, sending>>
                 /\ \A u \in Thread : job'[u] \in {job[u], NoJob}
      BY <1>1, <2>1 DEF Receive, Dequeued, ReceiveTimesOut, ReceiveFails, TypeOK, QueueTypeOK
    <2> QED BY <1>4, <1>5, <1>6, <2>1, OnceFrame DEF Queue, QueueNext
  <1>7. ASSUME NEW t \in Thread, NEW err \in {"nil", "error"}, JobEnds(t, err),
               tpc[t] \in {"instances", "batch"}
        PROVE  NotBefore' /\ WorkedOnOnce'
    <2>1. job[t] \in Job
      BY <1>1, <1>7 DEF ThreadShape
    <2>2. /\ \A u \in Thread, k \in Job : job'[u] = k <=> job[u] = k /\ u # t
          /\ outcome' = [outcome EXCEPT ![job[t]] = err]
          /\ UNCHANGED <<topic, answer, sending>>
      BY <1>1, <1>7, JobAssumption DEF JobEnds, TypeOK, QueueTypeOK
    <2> QED BY <1>1, <2>1, <2>2 DEF NotBefore, WorkedOnOnce, Held, TypeOK, WorkerTypeOK
  <1>8. ASSUME NEW t \in Thread, Worker(t) PROVE NotBefore' /\ WorkedOnOnce'
    <2>1. CASE GetInstances(t)
      BY <1>1, <2>1, OnceFrame DEF GetInstances
    <2>2. CASE \E h \in Host : Reserve(t, h) \/ TimesOut(t, h)
      BY <1>3, <2>2 DEF Reserve, TimesOut
    <2>3. CASE GetInstancesFails(t) \/ ConcurrencyRefused(t) \/ JobReturns(t)
      BY <1>2, <1>7, <2>3 DEF GetInstancesFails, ConcurrencyRefused, JobReturns
    <2> QED BY <1>8, <2>1, <2>2, <2>3 DEF Worker, GceJobStep
  <1>9. ASSUME NEW h \in Host,
               DeployReturns(h) \/ Deadline(h) \/ Work(h) \/ DaemonDies(h)
        PROVE  NotBefore' /\ WorkedOnOnce'
    BY <1>2, <1>3, <1>9 DEF DeployReturns, Deadline, Work, DaemonDies, Answered
  <1>10. ASSUME \/ \E t \in Thread, h \in Host : Arrive(t, h)
                \/ \E o \in orphans : ArriveLate(o)
                \/ \E l \in late : ArriveUnawaited(l)
                \/ UNCHANGED vars
         PROVE  NotBefore' /\ WorkedOnOnce'
    BY <1>3, <1>10 DEF Arrive, ArriveLate, ArriveUnawaited, vars
  <1>11. CASE Break
    BY <1>2, <1>11 DEF Break
  <1> QED BY <1>6, <1>8, <1>9, <1>10, <1>11 DEF Next

\* No two threads work on a job, and none works on it again, unless an acknowledgement is
\* lost: acknowledging a job before it is worked on costs no second run.
THEOREM WorkedOnOnceAlways ==
  ASSUME "acklost" \notin Faults
  PROVE  Spec => []WorkedOnOnce
  <1>1. OnceInv => WorkedOnOnce
    BY DEF OnceInv
  <1>2. OnceInv /\ [Next]_vars => OnceInv'
    BY OnceStep
  <1> QED BY <1>1, <1>2, InitOnce, PTL DEF Spec

\* What a step may do to a job that is queued or with a thread.
Kept(j) ==
    \/ topic'[j] = 1
    \/ \E t \in Thread : job'[t] = j
    \/ outcome'[j] # "none"
    \/ \A t \in Thread : tpc'[t] = "idle"

LEMMA KeptStep ==
  ASSUME "stream" \notin Faults, IInv, [Next]_vars, NEW j \in Job, topic[j] = 1 \/ Held(j)
  PROVE  Kept(j)
  <1>1. TypeOK /\ ThreadShape
    BY DEF IInv
  <1>2. WorkerDies => Kept(j)
    BY DEF WorkerDies, Kept
  <1>3. (\A k \in Job : topic[k] = 1 => topic'[k] = 1) /\ UNCHANGED job => Kept(j)
    BY DEF Kept, Held
  <1>4. ASSUME NEW t \in Thread, NEW k \in Job, Deliver(t, k) PROVE Kept(j)
    <2>1. tpc[t] = "receive" /\ job[t] = NoJob /\ job' = [job EXCEPT ![t] = k]
      BY <1>1, <1>4 DEF Deliver, ThreadShape
    <2>2. k # j => topic'[j] = topic[j]
      BY <1>1, <1>4 DEF Deliver, TypeOK, QueueTypeOK
    <2> QED BY <1>1, <2>1, <2>2, JobAssumption DEF Kept, Held, TypeOK, QueueTypeOK
  <1>5. CASE Queue
    <2>1. ASSUME NEW k \in Job,
                 Enqueue(k) \/ EnqueueFails(k) \/ PublishLate(k) \/ PublishGivenUp(k)
          PROVE  Kept(j)
      BY <1>1, <1>3, <2>1 DEF Enqueue, EnqueueFails, PublishLate, PublishGivenUp, Publish,
         TypeOK, QueueTypeOK
    <2>2. ASSUME NEW t \in Thread,
                 Receive(t) \/ Dequeued(t) \/ ReceiveTimesOut(t) \/ ReceiveFails(t)
          PROVE  Kept(j)
      BY <1>3, <2>2 DEF Receive, Dequeued, ReceiveTimesOut, ReceiveFails
    <2> QED BY <1>4, <1>5, <2>1, <2>2 DEF Queue, QueueNext
  <1>6. ASSUME NEW t \in Thread, NEW err \in {"nil", "error"}, JobEnds(t, err) PROVE Kept(j)
    <2>1. CASE job[t] = j
      BY <1>1, <1>6, <2>1 DEF JobEnds, Kept, TypeOK, WorkerTypeOK
    <2>2. CASE job[t] # j
      BY <1>1, <1>6, <2>2 DEF JobEnds, Kept, Held, TypeOK, QueueTypeOK
    <2> QED BY <2>1, <2>2
  <1>7. ASSUME NEW t \in Thread, Worker(t) PROVE Kept(j)
    <2>1. CASE GetInstances(t) \/ \E h \in Host : Reserve(t, h) \/ TimesOut(t, h)
      BY <1>3, <2>1 DEF GetInstances, Reserve, TimesOut
    <2>2. CASE GetInstancesFails(t) \/ ConcurrencyRefused(t) \/ JobReturns(t)
      BY <1>2, <1>6, <2>2 DEF GetInstancesFails, ConcurrencyRefused, JobReturns
    <2> QED BY <1>7, <2>1, <2>2 DEF Worker, GceJobStep
  <1>8. ASSUME NEW h \in Host, DeployReturns(h) \/ Deadline(h) \/ Work(h) \/ DaemonDies(h)
        PROVE  Kept(j)
    BY <1>2, <1>3, <1>8 DEF DeployReturns, Deadline, Work, DaemonDies
  <1>9. ASSUME \/ \E t \in Thread, h \in Host : Arrive(t, h)
               \/ \E o \in orphans : ArriveLate(o)
               \/ \E l \in late : ArriveUnawaited(l)
               \/ UNCHANGED vars
        PROVE  Kept(j)
    BY <1>3, <1>9 DEF Arrive, ArriveLate, ArriveUnawaited, vars
  <1>10. CASE Break
    BY <1>2, <1>10 DEF Break
  <1> QED BY <1>5, <1>7, <1>8, <1>9, <1>10 DEF Next

\* While a Receive that has a job ends without an error, a job the client was promised
\* leaves the topic only for a thread, and its thread only when it is over or the worker
\* dies: in particular a Receive whose time runs out drops none.
THEOREM NoJobIsLostAlways ==
  ASSUME "stream" \notin Faults
  PROVE  Spec => NoJobIsLost
  <1>1. IInv /\ [Next]_vars =>
          [\A j \in Job : answer[j] = "enqueued" /\ (topic[j] = 1 \/ Held(j)) =>
              \/ topic'[j] = 1
              \/ \E t \in Thread : job'[t] = j
              \/ outcome'[j] # "none"
              \/ \A t \in Thread : tpc'[t] = "idle"]_vars
    BY KeptStep DEF Kept
  <1> QED BY <1>1, FleetInvariant, PTL DEF Spec, NoJobIsLost
-----------------------------------------------------------------------------
(* Concurrency *)

\* No request outlives its goroutine.
NoOrphans == orphans = {}

\* An instance at work on the job of a thread has that thread waiting for it, ...
OwnersAwaited ==
    \A t \in Thread, h \in Host :
        job[t] \in Job /\ owner[h] = job[t] => hpc[t][h] = "accepted"

\* ... one at work on a job no thread has is a job that will not come back, ...
NotYetAtWork ==
    \A j \in Job : topic[j] = 1 \/ answer[j] = "none" \/ j \in sending => InProgress(j) = {}

\* ... and the goroutines that ask are no more than the channel has room for.
WithinBatch ==
    \A t \in Thread : job[t] \in Job => Cardinality(Asking(t)) <= Places(job[t])

AwaitedInv ==
    /\ OnceInv /\ NoOrphans /\ OwnersAwaited /\ NotYetAtWork /\ WithinBatch
    /\ RollingDeploy

\* The instances to which a request of a dead worker is on its way.
LateHosts(j) == {h \in Host : [job |-> j, host |-> h] \in late}

\* A job nobody waits for any more: it will not come back, and what was on the way counted
\* in its batch.
LateInv ==
    \A j \in Job : LateHosts(j) # {} =>
        /\ topic[j] = 0 /\ answer[j] # "none" /\ j \notin sending
        /\ ~Held(j) /\ outcome[j] = "none"
        /\ InProgress(j) \cap LateHosts(j) = {}
        /\ Cardinality(InProgress(j) \cup LateHosts(j)) <= Places(j)

\* A job at work is awaited by its thread, or the worker that had it is dead.
RollingInv == AwaitedInv /\ LateInv

LEMMA Finite ==
  /\ \A j \in Job : BatchCount(j) \in Int /\ Places(j) \in Nat
  /\ \A S \in SUBSET Host : IsFiniteSet(S) /\ Cardinality(S) \in Nat
  /\ \A S, T \in SUBSET Host : S \subseteq T => Cardinality(S) <= Cardinality(T)
  <1>1. \A S \in SUBSET Host : IsFiniteSet(S) /\ Cardinality(S) \in Nat
    BY ClusterAssumption, FS_Subset, FS_CardinalityType
  <1>2. ASSUME NEW j \in Job PROVE BatchCount(j) \in Int /\ Places(j) \in Nat
    <2>1. Cardinality(Cluster[j]) \in Nat /\ Concurrency[j].n \in Int
      BY <1>1, ClusterAssumption, ConcurrencyAssumption
    <2>2. (Cardinality(Cluster[j]) * Concurrency[j].n) \div 100 \in Int
      BY <2>1
    <2>3. BatchCount(j) \in Int
      BY <2>1, <2>2 DEF BatchCount
    <2> QED BY <2>3 DEF Places
  <1>3. \A S, T \in SUBSET Host : S \subseteq T => Cardinality(S) <= Cardinality(T)
    BY <1>1, FS_Subset
  <1> QED BY <1>1, <1>2, <1>3

LEMMA InitRolling == Init => RollingInv
  <1> SUFFICES ASSUME Init PROVE RollingInv
    OBVIOUS
  <1>1. \A j \in Job : InProgress(j) = {}
    BY JobAssumption DEF Init, InProgress
  <1>2. NotYetAtWork /\ RollingDeploy
    BY <1>1, Finite, FS_EmptySet DEF NotYetAtWork, RollingDeploy, Places
  <1>3. NoOrphans /\ OwnersAwaited /\ WithinBatch /\ LateInv
    BY JobAssumption DEF Init, QueueInit, WorkerInit, NoOrphans, OwnersAwaited, WithinBatch,
       LateInv, LateHosts
  <1> QED BY <1>2, <1>3, InitOnce DEF RollingInv, AwaitedInv

\* Steps that put no instance to work and let no goroutine ask.
LEMMA AwaitedFrame ==
  ASSUME AwaitedInv, OnceInv', orphans' = {},
         \A h \in Host : owner'[h] \in {owner[h], NoJob},
         \A j \in Job : topic'[j] = 1 \/ answer'[j] = "none" \/ j \in sending' =>
                        topic[j] = 1 \/ answer[j] = "none" \/ j \in sending,
         \A t \in Thread : job'[t] \in Job =>
             /\ job'[t] = job[t]
             /\ \A h \in Host :
                   /\ hpc'[t][h] \in {"sent", "accepted"} => hpc[t][h] \in {"sent", "accepted"}
                   /\ hpc[t][h] = "accepted" => hpc'[t][h] = "accepted" \/ owner'[h] = NoJob
  PROVE  AwaitedInv'
  <1> USE DEF AwaitedInv
  <1>1. NoOrphans' /\ OwnersAwaited'
    BY JobAssumption DEF NoOrphans, OwnersAwaited
  <1>2. \A j \in Job : InProgress(j)' \in SUBSET InProgress(j)
    BY JobAssumption DEF InProgress
  <1>3. NotYetAtWork'
    BY <1>2 DEF NotYetAtWork
  <1>4. \A t \in Thread : job'[t] \in Job => Asking(t)' \in SUBSET Asking(t)
    BY DEF Asking
  <1>5. \A t \in Thread : job'[t] \in Job => Cardinality(Asking(t)') <= Cardinality(Asking(t))
    BY <1>4, Finite DEF Asking
  <1>6. \A t \in Thread : Cardinality(Asking(t)) \in Nat /\ Cardinality(Asking(t)') \in Nat
    BY Finite DEF Asking
  <1>7. WithinBatch'
    BY <1>5, <1>6, Finite DEF WithinBatch, Places, BatchCount
  <1>8. \A j \in Job : Cardinality(InProgress(j)') <= Cardinality(InProgress(j))
    BY <1>2, Finite DEF InProgress
  <1>9. \A j \in Job : Cardinality(InProgress(j)) \in Nat /\ Cardinality(InProgress(j)') \in Nat
    BY Finite DEF InProgress
  <1>10. RollingDeploy'
    BY <1>8, <1>9, Finite DEF RollingDeploy, Places, BatchCount
  <1> QED BY <1>1, <1>3, <1>7, <1>10

LEMMA DeliverKeepsAwaited ==
  ASSUME AwaitedInv, OnceInv', NEW t \in Thread, NEW j \in Job, Deliver(t, j),
         UNCHANGED workerVars, UNCHANGED hostVars
  PROVE  AwaitedInv'
  <1> USE DEF AwaitedInv
  <1>1. TypeOK /\ ThreadShape
    BY DEF OnceInv, IInv
  <1>2. InProgress(j) = {} /\ Asking(t) = {} /\ tpc[t] = "receive"
    BY <1>1 DEF Deliver, NotYetAtWork, ThreadShape, Asking, NoHosts
  <1>3. /\ job' = [job EXCEPT ![t] = j] /\ UNCHANGED <<answer, sending>>
        /\ \A k \in Job : topic'[k] = 1 => topic[k] = 1
    BY <1>1 DEF Deliver, TypeOK, QueueTypeOK
  <1>4. OwnersAwaited'
    BY <1>1, <1>2, <1>3 DEF OwnersAwaited, InProgress, TypeOK, QueueTypeOK
  <1>5. NotYetAtWork' /\ RollingDeploy' /\ NoOrphans'
    BY <1>3 DEF NotYetAtWork, RollingDeploy, InProgress, NoOrphans, BatchCount
  <1>6. \A u \in Thread : Asking(u)' = Asking(u)
    BY DEF Asking
  <1>7. Cardinality({}) <= Places(j)
    BY Finite, FS_EmptySet
  <1>8. \A u \in Thread \ {t} : job'[u] = job[u]
    BY <1>1, <1>3 DEF TypeOK, QueueTypeOK
  <1>9. job'[t] = j
    BY <1>1, <1>3 DEF TypeOK, QueueTypeOK
  <1>10. \A u \in Thread : job'[u] \in Job => Cardinality(Asking(u)') <= Places(job'[u])
    BY <1>2, <1>6, <1>7, <1>8, <1>9 DEF WithinBatch
  <1>11. WithinBatch'
    BY <1>10 DEF WithinBatch, Places, BatchCount
  <1> QED BY <1>4, <1>5, <1>11

LEMMA ReserveKeepsAwaited ==
  ASSUME AwaitedInv, OnceInv', NEW t \in Thread, NEW h \in Host, Reserve(t, h),
         UNCHANGED hostVars
  PROVE  AwaitedInv'
  <1> USE DEF AwaitedInv
  <1>1. TypeOK /\ job[t] \in Job
    BY GoroutineHasJob DEF OnceInv, IInv, Reserve
  <1>2. \A u \in Thread, g \in Host :
          hpc'[u][g] = IF u = t /\ g = h THEN "sent" ELSE hpc[u][g]
    BY <1>1 DEF Reserve, HostGoes, TypeOK, WorkerTypeOK
  <1>3. NoOrphans' /\ OwnersAwaited' /\ NotYetAtWork' /\ RollingDeploy'
    BY <1>2 DEF Reserve, NoOrphans, OwnersAwaited, NotYetAtWork, RollingDeploy, InProgress,
       BatchCount
  <1>4. Asking(t)' = Asking(t) \cup {h}
    BY <1>2 DEF Asking
  <1>5. Cardinality(Asking(t)) \in Nat /\ IsFiniteSet(Asking(t))
    BY Finite DEF Asking
  <1>6. Cardinality(Asking(t)') <= Cardinality(Asking(t)) + 1
    <2>1. Cardinality(Asking(t) \cup {h}) \in
            {Cardinality(Asking(t)), Cardinality(Asking(t)) + 1}
      BY <1>5, FS_AddElement
    <2> QED BY <1>4, <1>5, <2>1
  <1>7. Cardinality(Asking(t)') \in Nat
    BY Finite DEF Asking
  <1>8. Places(job[t]) \in Nat /\ Cardinality(Asking(t)) < Places(job[t])
    <2>1. Cardinality(Asking(t)) < BatchCount(job[t]) /\ BatchCount(job[t]) \in Int
      BY <1>1, Finite DEF Reserve
    <2> QED BY <1>1, <1>5, <2>1, Finite DEF Places
  <1>9. Cardinality(Asking(t)') <= Places(job[t])
    BY <1>5, <1>6, <1>7, <1>8
  <1>10. \A u \in Thread \ {t} : Asking(u)' = Asking(u)
    BY <1>2 DEF Asking
  <1>11. WithinBatch'
    BY <1>9, <1>10 DEF WithinBatch, Places, BatchCount, Reserve
  <1> QED BY <1>3, <1>11

LEMMA TakesSlotKeepsAwaited ==
  ASSUME AwaitedInv, OnceInv', NEW t \in Thread, NEW h \in Host, Arrive(t, h),
         TakesSlot(h, job[t]), HostGoes(t, h, "accepted")
  PROVE  AwaitedInv'
  <1> USE DEF AwaitedInv
  <1>1. TypeOK /\ job[t] \in Job /\ ThreadShape
    BY GoroutineHasJob DEF OnceInv, IInv, Arrive
  <1>2. \A u \in Thread, g \in Host :
          hpc'[u][g] = IF u = t /\ g = h THEN "accepted" ELSE hpc[u][g]
    BY <1>1 DEF HostGoes, TypeOK, WorkerTypeOK
  <1>3. \A g \in Host : owner'[g] = IF g = h THEN job[t] ELSE owner[g]
    BY <1>1 DEF TakesSlot, TypeOK
  <1>4. UNCHANGED <<topic, answer, sending, job, orphans>> /\ hpc[t][h] = "sent"
    BY DEF Arrive
  <1>5. Held(job[t]) /\ \A u \in Thread : job[u] = job[t] => u = t
    BY <1>1 DEF Held, OnceInv, WorkedOnOnce
  <1>6. NoOrphans'
    BY <1>4 DEF NoOrphans
  <1>7. OwnersAwaited'
    BY <1>1, <1>2, <1>3, <1>4, <1>5 DEF OwnersAwaited
  <1>8. topic[job[t]] # 1 /\ answer[job[t]] # "none" /\ job[t] \notin sending
    BY <1>1, <1>5 DEF OnceInv, WorkedOnOnce, NotBefore
  <1>9. \A j \in Job : InProgress(j)' \in SUBSET InProgress(j) \/ j = job[t]
    BY <1>3 DEF InProgress
  <1>10. NotYetAtWork'
    BY <1>4, <1>8, <1>9 DEF NotYetAtWork
  <1>11. \A u \in Thread : Asking(u)' = Asking(u)
    BY <1>2, <1>4 DEF Asking
  <1>12. WithinBatch'
    BY <1>4, <1>11 DEF WithinBatch, Places, BatchCount
  <1>13. ASSUME NEW j \in Job PROVE Cardinality(InProgress(j)') <= Places(j)
    <2>1. /\ Cardinality(InProgress(j)') \in Nat /\ Cardinality(InProgress(j)) \in Nat
          /\ Cardinality(Asking(t)) \in Nat
      BY Finite DEF InProgress, Asking
    <2>2. CASE j = job[t]
      <3>1. InProgress(j)' \in SUBSET Asking(t)
        BY <1>1, <1>3, <1>4, <2>2 DEF InProgress, OwnersAwaited, Asking
      <3>2. Cardinality(InProgress(j)') <= Cardinality(Asking(t))
        BY <3>1, Finite DEF Asking
      <3>3. Cardinality(Asking(t)) <= Places(j)
        BY <2>2 DEF WithinBatch
      <3> QED BY <2>1, <3>2, <3>3, Finite
    <2>3. CASE j # job[t]
      <3>1. Cardinality(InProgress(j)') <= Cardinality(InProgress(j))
        BY <1>9, <2>3, Finite DEF InProgress
      <3>2. Cardinality(InProgress(j)) <= Places(j)
        BY DEF RollingDeploy, Places
      <3> QED BY <2>1, <3>1, <3>2, Finite
    <2> QED BY <2>2, <2>3
  <1>14. RollingDeploy'
    BY <1>13 DEF RollingDeploy, Places, BatchCount
  <1> QED BY <1>6, <1>7, <1>10, <1>12, <1>14

\* What a request of a dead worker does to the instances at work on its job: its host was
\* not one of them, and is now, or is passed over.
LEMMA UnawaitedMoves ==
  ASSUME RollingInv, NEW l \in late, ArriveUnawaited(l)
  PROVE  /\ UNCHANGED queueVars /\ UNCHANGED <<hpc, orphans, outcome>>
         /\ l.job \in Job /\ l.host \in LateHosts(l.job)
         /\ \A j \in Job : LateHosts(j)' = IF j = l.job THEN LateHosts(j) \ {l.host} ELSE LateHosts(j)
         /\ \A j \in Job \ {l.job} : InProgress(j)' \in SUBSET InProgress(j)
         /\ InProgress(l.job)' \in {InProgress(l.job), InProgress(l.job) \cup {l.host}}
  <1>1. TypeOK
    BY DEF RollingInv, AwaitedInv, OnceInv, IInv
  <1>2. l \in Request
    BY <1>1 DEF TypeOK, WorkerTypeOK
  <1>3. l.job \in Job /\ l.host \in Host /\ l = [job |-> l.job, host |-> l.host]
    BY <1>2 DEF Request
  <1>4. late' = late \ {l} /\ UNCHANGED queueVars /\ UNCHANGED <<hpc, orphans, outcome>>
    BY DEF ArriveUnawaited
  <1>5. ASSUME NEW j \in Job, NEW h \in Host
        PROVE  [job |-> j, host |-> h] = l <=> j = l.job /\ h = l.host
    BY <1>3
  <1>6. \A j \in Job : LateHosts(j)' = IF j = l.job THEN LateHosts(j) \ {l.host} ELSE LateHosts(j)
    BY <1>4, <1>5 DEF LateHosts
  <1>7. l.host \in LateHosts(l.job)
    BY <1>3 DEF LateHosts
  <1>8. UNCHANGED owner \/ \A g \in Host : owner'[g] = IF g = l.host THEN l.job ELSE owner[g]
    BY <1>1, <1>3 DEF ArriveUnawaited, TakesSlot, TypeOK
  <1>9. \A j \in Job \ {l.job} : InProgress(j)' \in SUBSET InProgress(j)
    BY <1>8 DEF InProgress
  <1>10. InProgress(l.job)' \in {InProgress(l.job), InProgress(l.job) \cup {l.host}}
    BY <1>3, <1>8 DEF InProgress
  <1> QED BY <1>3, <1>4, <1>6, <1>7, <1>9, <1>10

LEMMA UnawaitedKeepsAwaited ==
  ASSUME RollingInv, OnceInv', NEW l \in late, ArriveUnawaited(l)
  PROVE  AwaitedInv'
  <1> USE DEF RollingInv, AwaitedInv
  <1>1. /\ topic[l.job] = 0 /\ answer[l.job] # "none" /\ l.job \notin sending
        /\ \A t \in Thread : job[t] # l.job
        /\ Cardinality(InProgress(l.job) \cup LateHosts(l.job)) <= Places(l.job)
    BY UnawaitedMoves DEF LateInv, Held
  <1>2. NoOrphans' /\ NotYetAtWork'
    BY <1>1, UnawaitedMoves DEF NoOrphans, NotYetAtWork
  <1>3. \A j \in Job \ {l.job}, h \in Host : owner'[h] = j => owner[h] = j
    BY UnawaitedMoves DEF InProgress
  <1>4. OwnersAwaited'
    BY <1>1, <1>3, UnawaitedMoves DEF OwnersAwaited
  <1>5. \A t \in Thread : Asking(t)' = Asking(t)
    BY UnawaitedMoves DEF Asking
  <1>6. WithinBatch'
    BY <1>5, UnawaitedMoves DEF WithinBatch, Places, BatchCount
  <1>7. ASSUME NEW j \in Job PROVE Cardinality(InProgress(j)') <= Places(j)
    <2>1. Cardinality(InProgress(j)') \in Nat /\ Places(j) \in Nat
      BY Finite DEF InProgress
    <2>2. CASE j = l.job
      <3>1. /\ InProgress(j) \cup LateHosts(j) \in SUBSET Host
            /\ InProgress(j)' \in SUBSET (InProgress(j) \cup LateHosts(j))
        <4>1. InProgress(j) \cup LateHosts(j) \in SUBSET Host
          BY DEF InProgress, LateHosts
        <4>2. /\ l.host \in LateHosts(j)
              /\ InProgress(j)' \in {InProgress(j), InProgress(j) \cup {l.host}}
          BY <2>2, UnawaitedMoves
        <4> QED BY <4>1, <4>2
      <3>2. /\ Cardinality(InProgress(j)') <= Cardinality(InProgress(j) \cup LateHosts(j))
            /\ Cardinality(InProgress(j) \cup LateHosts(j)) \in Nat
        BY <3>1, Finite
      <3> QED BY <1>1, <2>1, <2>2, <3>2
    <2>3. CASE j # l.job
      <3>1. /\ Cardinality(InProgress(j)') <= Cardinality(InProgress(j))
            /\ Cardinality(InProgress(j)) \in Nat
        BY <2>3, UnawaitedMoves, Finite DEF InProgress
      <3> QED BY <2>1, <3>1 DEF RollingDeploy
    <2> QED BY <2>2, <2>3
  <1>8. RollingDeploy'
    BY <1>7 DEF RollingDeploy, Places, BatchCount
  <1> QED BY <1>2, <1>4, <1>6, <1>8

LEMMA AwaitedStep ==
  ASSUME "acklost" \notin Faults, "timeout" \notin Faults, "deadline" \notin Faults,
         RollingInv, [Next]_vars
  PROVE  AwaitedInv'
  <1> USE DEF AwaitedInv, RollingInv
  <1>1. OnceInv' /\ TypeOK /\ ThreadShape /\ orphans = {}
    BY OnceStep DEF OnceInv, IInv, NoOrphans
  <1>2. WorkerDies /\ (UNCHANGED hostVars \/ \E h \in Host : DaemonDies(h)) => AwaitedInv'
    BY <1>1, AwaitedFrame, JobAssumption DEF WorkerDies, DaemonDies, TypeOK
  <1>3. ASSUME UNCHANGED vars \/ (UNCHANGED queueVars /\ UNCHANGED workerVars
                                 /\ \A h \in Host : owner'[h] \in {owner[h], NoJob})
        PROVE  AwaitedInv'
    BY <1>1, <1>3, AwaitedFrame DEF vars
  <1>4. CASE Queue
    <2>1. CASE \E t \in Thread, j \in Job : Deliver(t, j)
      BY <1>1, <1>4, <2>1, DeliverKeepsAwaited DEF Queue
    <2>2. ASSUME NEW j \in Job,
                 Enqueue(j) \/ EnqueueFails(j) \/ PublishLate(j) \/ PublishGivenUp(j)
          PROVE  AwaitedInv'
      <3>1. /\ answer[j] = "none" \/ j \in sending
            /\ \A k \in Job \ {j} : topic'[k] = topic[k] /\ answer'[k] = answer[k]
                                    /\ (k \in sending' <=> k \in sending)
        BY <1>1, <2>2 DEF Enqueue, EnqueueFails, PublishLate, PublishGivenUp, Publish, TypeOK,
           QueueTypeOK
      <3>2. UNCHANGED job
        BY <2>2 DEF Enqueue, EnqueueFails, PublishLate, PublishGivenUp
      <3> QED BY <1>1, <1>4, <3>1, <3>2, AwaitedFrame DEF Queue
    <2>3. CASE \E t \in Thread :
                 Receive(t) \/ Dequeued(t) \/ ReceiveTimesOut(t) \/ ReceiveFails(t)
      <3>1. /\ UNCHANGED <<topic, answer, sending>>
            /\ \A u \in Thread : job'[u] \in {job[u], NoJob}
        BY <1>1, <2>3 DEF Receive, Dequeued, ReceiveTimesOut, ReceiveFails, TypeOK, QueueTypeOK
      <3> QED BY <1>1, <1>4, <3>1, AwaitedFrame, JobAssumption DEF Queue
    <2> QED BY <1>4, <2>1, <2>2, <2>3 DEF Queue, QueueNext
  <1>5. ASSUME NEW t \in Thread, Worker(t) PROVE AwaitedInv'
    <2>1. CASE WorkerDies
      BY <1>2, <1>5, <2>1 DEF Worker
    <2>2. ASSUME NEW err \in {"nil", "error"}, JobEnds(t, err) PROVE AwaitedInv'
      <3>1. /\ UNCHANGED <<topic, answer, sending, orphans>> /\ job'[t] = NoJob
            /\ \A u \in Thread \ {t} : job'[u] = job[u] /\ hpc'[u] = hpc[u]
        BY <1>1, <2>2 DEF JobEnds, TypeOK, QueueTypeOK, WorkerTypeOK
      <3> QED BY <1>1, <1>5, <3>1, AwaitedFrame, JobAssumption DEF Worker
    <2>3. CASE GetInstances(t)
      <3>1. /\ UNCHANGED <<topic, answer, sending, job, orphans>>
            /\ \A h \in Host : /\ hpc[t][h] = "none"
                               /\ hpc'[t][h] \in {"queued", "none"}
            /\ \A u \in Thread \ {t} : hpc'[u] = hpc[u]
        BY <1>1, <2>3 DEF GetInstances, TypeOK, WorkerTypeOK, ThreadShape, NoHosts
      <3> QED BY <1>1, <1>5, <3>1, AwaitedFrame DEF Worker
    <2>4. CASE \E h \in Host : Reserve(t, h)
      BY <1>1, <1>5, <2>4, ReserveKeepsAwaited DEF Worker
    <2>5. ~\E h \in Host : TimesOut(t, h)
      BY DEF TimesOut
    <2> QED BY <1>5, <2>1, <2>2, <2>3, <2>4, <2>5 DEF Worker, GceJobStep, GetInstancesFails,
               ConcurrencyRefused, JobReturns
  <1>6. ASSUME NEW t \in Thread, NEW h \in Host, Arrive(t, h) PROVE AwaitedInv'
    <2>1. CASE TakesSlot(h, job[t]) /\ HostGoes(t, h, "accepted")
      BY <1>1, <1>6, <2>1, TakesSlotKeepsAwaited
    <2>2. CASE HostGoes(t, h, "done") /\ UNCHANGED hostVars
      <3>1. \A u \in Thread, g \in Host :
              hpc'[u][g] = IF u = t /\ g = h THEN "done" ELSE hpc[u][g]
        BY <1>1, <2>2 DEF HostGoes, TypeOK, WorkerTypeOK
      <3> QED BY <1>1, <1>6, <2>2, <3>1, AwaitedFrame DEF Arrive
    <2> QED BY <1>6, <2>1, <2>2 DEF Arrive
  <1>7. ~\E o \in orphans : ArriveLate(o)
    BY <1>1
  <1>8. ASSUME NEW h \in Host, DeployReturns(h) PROVE AwaitedInv'
    <2>1. \A g \in Host : owner'[g] = IF g = h THEN NoJob ELSE owner[g]
      BY <1>1, <1>8 DEF DeployReturns, TypeOK
    <2>2. \A u \in Thread, g \in Host :
            hpc'[u][g] = IF g = h /\ hpc[u][g] = "accepted" THEN "done" ELSE hpc[u][g]
      BY <1>1, <1>8 DEF DeployReturns, Answered, TypeOK, WorkerTypeOK
    <2>3. orphans' = {} /\ UNCHANGED <<topic, answer, sending, job>>
      BY <1>1, <1>8 DEF DeployReturns, Answered
    <2> QED BY <1>1, <2>1, <2>2, <2>3, AwaitedFrame
  <1>9. ASSUME NEW h \in Host, Work(h) PROVE AwaitedInv'
    BY <1>3, <1>9 DEF Work
  <1>10. ASSUME NEW h \in Host, DaemonDies(h) PROVE AwaitedInv'
    <2>1. CASE WorkerDies
      BY <1>2, <1>10, <2>1
    <2>2. CASE UNCHANGED queueVars /\ UNCHANGED workerVars
      BY <1>1, <1>3, <1>10, <2>2 DEF DaemonDies, TypeOK
    <2> QED BY <1>10, <2>1, <2>2 DEF DaemonDies
  <1>11. CASE Break
    BY <1>2, <1>11 DEF Break
  <1>12. ~\E h \in Host : Deadline(h)
    BY DEF Deadline
  <1>13. ASSUME NEW l \in late, ArriveUnawaited(l) PROVE AwaitedInv'
    BY <1>1, <1>13, UnawaitedKeepsAwaited
  <1> QED BY <1>3, <1>4, <1>5, <1>6, <1>7, <1>8, <1>9, <1>10, <1>11, <1>12, <1>13 DEF Next

\* Steps that put no request on the way and bring back no job that has one.
LEMMA LateFrame ==
  ASSUME RollingInv,
         \A j \in Job : LateHosts(j)' # {} =>
             /\ LateHosts(j)' \in SUBSET LateHosts(j)
             /\ topic'[j] = topic[j] /\ answer'[j] = answer[j] /\ outcome'[j] = outcome[j]
             /\ j \in sending' <=> j \in sending
             /\ Held(j)' => Held(j)
             /\ InProgress(j)' \cap LateHosts(j)' = {}
             /\ InProgress(j)' \cup LateHosts(j)' \in SUBSET (InProgress(j) \cup LateHosts(j))
  PROVE  LateInv'
  <1> SUFFICES ASSUME NEW j \in Job, LateHosts(j)' # {}
               PROVE  /\ topic'[j] = 0 /\ answer'[j] # "none" /\ j \notin sending'
                      /\ ~Held(j)' /\ outcome'[j] = "none"
                      /\ InProgress(j)' \cap LateHosts(j)' = {}
                      /\ Cardinality(InProgress(j)' \cup LateHosts(j)') <= Places(j)
    BY DEF LateInv, Places, BatchCount
  <1>1. LateHosts(j) # {}
    OBVIOUS
  <1>2. InProgress(j) \cup LateHosts(j) \in SUBSET Host
    BY DEF InProgress, LateHosts
  <1>3. /\ Cardinality(InProgress(j)' \cup LateHosts(j)') <= Cardinality(InProgress(j) \cup LateHosts(j))
        /\ Cardinality(InProgress(j)' \cup LateHosts(j)') \in Nat
        /\ Cardinality(InProgress(j) \cup LateHosts(j)) \in Nat /\ Places(j) \in Nat
    BY <1>2, Finite
  <1>4. Cardinality(InProgress(j) \cup LateHosts(j)) <= Places(j)
    BY <1>1 DEF RollingInv, LateInv
  <1> QED BY <1>1, <1>3, <1>4 DEF RollingInv, LateInv

\* The requests of a job that is lost were from goroutines with a place in its channel, and
\* so are the deploys at work on it.
LEMMA DeathKeepsLate ==
  ASSUME RollingInv, WorkerDies, UNCHANGED hostVars \/ \E h \in Host : DaemonDies(h)
  PROVE  LateInv'
  <1>1. TypeOK /\ NotBefore /\ WorkedOnOnce /\ OwnersAwaited /\ orphans = {}
    BY DEF RollingInv, AwaitedInv, OnceInv, IInv, NoOrphans
  <1> SUFFICES ASSUME NEW j \in Job, LateHosts(j)' # {}
               PROVE  /\ topic'[j] = 0 /\ answer'[j] # "none" /\ j \notin sending'
                      /\ ~Held(j)' /\ outcome'[j] = "none"
                      /\ InProgress(j)' \cap LateHosts(j)' = {}
                      /\ Cardinality(InProgress(j)' \cup LateHosts(j)') <= Places(j)
    BY DEF LateInv, Places, BatchCount
  <1>2. UNCHANGED <<topic, answer, sending, outcome>> /\ ~Held(j)'
    BY JobAssumption DEF WorkerDies, Held
  <1>3. InProgress(j)' \in SUBSET InProgress(j) /\ InProgress(j) \in SUBSET Host
    BY <1>1, JobAssumption DEF DaemonDies, InProgress, TypeOK
  <1>4. \A h \in Host : h \in LateHosts(j)' <=>
            h \in LateHosts(j) \/ \E t \in Thread : job[t] = j /\ hpc[t][h] = "sent"
    BY <1>1 DEF WorkerDies, OnTheWay, LateHosts, Request
  <1>5. LateHosts(j)' \in SUBSET Host
    BY DEF LateHosts
  <1>6. CASE LateHosts(j) # {}
    <2>1. /\ topic[j] = 0 /\ answer[j] # "none" /\ j \notin sending
          /\ ~Held(j) /\ outcome[j] = "none"
          /\ InProgress(j) \cap LateHosts(j) = {}
          /\ Cardinality(InProgress(j) \cup LateHosts(j)) <= Places(j)
      BY <1>6 DEF RollingInv, LateInv
    <2>2. LateHosts(j)' = LateHosts(j)
      BY <1>4, <2>1 DEF Held, LateHosts
    <2>3. /\ InProgress(j) \cup LateHosts(j) \in SUBSET Host
          /\ InProgress(j)' \cup LateHosts(j)' \in SUBSET (InProgress(j) \cup LateHosts(j))
      BY <1>3, <1>5, <2>2
    <2>4. /\ Cardinality(InProgress(j)' \cup LateHosts(j)') <= Cardinality(InProgress(j) \cup LateHosts(j))
          /\ Cardinality(InProgress(j)' \cup LateHosts(j)') \in Nat
          /\ Cardinality(InProgress(j) \cup LateHosts(j)) \in Nat /\ Places(j) \in Nat
      BY <2>3, Finite
    <2> QED BY <1>2, <1>3, <2>1, <2>2, <2>4
  <1>7. CASE LateHosts(j) = {}
    <2>1. PICK t \in Thread : job[t] = j
      BY <1>4, <1>5, <1>7
    <2>2. /\ topic[j] = 0 /\ answer[j] # "none" /\ j \notin sending /\ outcome[j] = "none"
          /\ \A u \in Thread : job[u] = j => u = t
      BY <1>1, <2>1 DEF NotBefore, WorkedOnOnce, Held
    <2>3. \A h \in Host : h \in LateHosts(j)' <=> hpc[t][h] = "sent"
      BY <1>4, <1>7, <2>1, <2>2
    <2>4. \A h \in InProgress(j) : hpc[t][h] = "accepted"
      BY <1>1, <2>1 DEF InProgress, OwnersAwaited
    <2>5. /\ InProgress(j)' \cap LateHosts(j)' = {}
          /\ InProgress(j)' \cup LateHosts(j)' \in SUBSET Asking(t)
      BY <1>3, <1>5, <2>3, <2>4 DEF Asking
    <2>6. /\ Cardinality(InProgress(j)' \cup LateHosts(j)') <= Cardinality(Asking(t))
          /\ Cardinality(InProgress(j)' \cup LateHosts(j)') \in Nat
          /\ Cardinality(Asking(t)) \in Nat /\ Places(j) \in Nat
      <3>1. Asking(t) \in SUBSET Host
        BY DEF Asking
      <3> QED BY <2>5, <3>1, Finite
    <2>7. Cardinality(Asking(t)) <= Places(j)
      BY <2>1 DEF RollingInv, AwaitedInv, WithinBatch
    <2> QED BY <1>2, <2>2, <2>5, <2>6, <2>7
  <1> QED BY <1>6, <1>7

LEMMA LateStep ==
  ASSUME "acklost" \notin Faults, "timeout" \notin Faults, "deadline" \notin Faults,
         RollingInv, [Next]_vars
  PROVE  LateInv'
  <1>1. TypeOK /\ ThreadShape /\ LateInv /\ orphans = {}
    BY DEF RollingInv, AwaitedInv, OnceInv, IInv, NoOrphans
  <1>2. \A j \in Job : topic[j] = 1 => LateHosts(j) = {}
    <2>1. \A j \in Job : LateHosts(j) # {} => topic[j] = 0
      BY <1>1, Zenon DEF LateInv
    <2> QED BY <2>1
  <1>3. WorkerDies /\ (UNCHANGED hostVars \/ \E h \in Host : DaemonDies(h)) => LateInv'
    BY DeathKeepsLate
  <1>4. ASSUME UNCHANGED late,
               \A j \in Job : LateHosts(j) # {} =>
                 /\ topic'[j] = topic[j] /\ answer'[j] = answer[j] /\ outcome'[j] = outcome[j]
                 /\ j \in sending' <=> j \in sending
                 /\ Held(j)' => Held(j)
                 /\ \A h \in Host : owner'[h] = j => owner[h] = j
        PROVE  LateInv'
    <2>1. \A j \in Job : LateHosts(j)' = LateHosts(j)
      BY <1>4 DEF LateHosts
    <2>2. \A j \in Job : LateHosts(j) # {} => InProgress(j)' \in SUBSET InProgress(j)
      BY <1>4 DEF InProgress
    <2>3. \A j \in Job : LateHosts(j) # {} =>
             /\ InProgress(j)' \cap LateHosts(j)' = {}
             /\ InProgress(j)' \cup LateHosts(j)' \in SUBSET (InProgress(j) \cup LateHosts(j))
      BY <1>1, <2>1, <2>2 DEF LateInv
    <2> QED BY <1>4, <2>1, <2>3, LateFrame
  <1>5. ASSUME UNCHANGED <<late, topic, answer, sending, outcome, owner>>,
               \A t \in Thread : job'[t] \in {job[t], NoJob}
        PROVE  LateInv'
    BY <1>4, <1>5, JobAssumption DEF Held
  <1>6. CASE Queue
    <2>1. ASSUME NEW t \in Thread, NEW k \in Job, Deliver(t, k) PROVE LateInv'
      <3>1. /\ topic[k] = 1 /\ UNCHANGED <<answer, sending>>
            /\ topic' = topic \/ topic' = [topic EXCEPT ![k] = 0]
            /\ job' = [job EXCEPT ![t] = k]
        BY <2>1 DEF Deliver
      <3>2. LateHosts(k) = {}
        BY <1>2, <3>1
      <3>3. /\ \A j \in Job \ {k} : topic'[j] = topic[j]
            /\ \A u \in Thread : job'[u] \in {job[u], k}
        BY <1>1, <3>1 DEF TypeOK, QueueTypeOK
      <3> QED BY <1>4, <1>6, <3>1, <3>2, <3>3 DEF Queue, Held
    <2>2. ASSUME NEW k \in Job,
                 Enqueue(k) \/ EnqueueFails(k) \/ PublishLate(k) \/ PublishGivenUp(k)
          PROVE  LateInv'
      <3>1. /\ answer[k] = "none" \/ k \in sending
            /\ \A j \in Job \ {k} : topic'[j] = topic[j] /\ answer'[j] = answer[j]
                                    /\ (j \in sending' <=> j \in sending)
        BY <1>1, <2>2 DEF Enqueue, EnqueueFails, PublishLate, PublishGivenUp, Publish, TypeOK,
           QueueTypeOK
      <3>2. UNCHANGED job
        BY <2>2 DEF Enqueue, EnqueueFails, PublishLate, PublishGivenUp
      <3>3. LateHosts(k) = {}
        BY <1>1, <3>1 DEF LateInv
      <3> QED BY <1>4, <1>6, <3>1, <3>2, <3>3 DEF Queue, Held
    <2>3. ASSUME NEW t \in Thread,
                 Receive(t) \/ Dequeued(t) \/ ReceiveTimesOut(t) \/ ReceiveFails(t)
          PROVE  LateInv'
      <3>1. /\ UNCHANGED <<topic, answer, sending>>
            /\ \A u \in Thread : job'[u] \in {job[u], NoJob}
        BY <1>1, <2>3 DEF Receive, Dequeued, ReceiveTimesOut, ReceiveFails, TypeOK, QueueTypeOK
      <3> QED BY <1>5, <1>6, <3>1 DEF Queue
    <2> QED BY <1>6, <2>1, <2>2, <2>3 DEF Queue, QueueNext
  <1>7. ASSUME NEW t \in Thread, Worker(t) PROVE LateInv'
    <2>1. CASE WorkerDies
      BY <1>3, <1>7, <2>1 DEF Worker
    <2>2. ASSUME NEW err \in {"nil", "error"}, JobEnds(t, err), tpc[t] \in {"instances", "batch"}
          PROVE  LateInv'
      <3>1. /\ job[t] \in Job /\ UNCHANGED <<topic, answer, sending, late>>
            /\ \A j \in Job \ {job[t]} : outcome'[j] = outcome[j]
            /\ \A u \in Thread : job'[u] \in {job[u], NoJob}
        BY <1>1, <2>2 DEF JobEnds, ThreadShape, TypeOK, QueueTypeOK, WorkerTypeOK
      <3>2. LateHosts(job[t]) = {}
        BY <1>1, <3>1 DEF LateInv, Held
      <3> QED BY <1>4, <1>7, <3>1, <3>2, JobAssumption DEF Worker, Held
    <2>3. CASE GetInstances(t) \/ \E h \in Host : Reserve(t, h)
      BY <1>5, <1>7, <2>3 DEF Worker, GetInstances, Reserve
    <2>4. ~\E h \in Host : TimesOut(t, h)
      BY DEF TimesOut
    <2> QED BY <1>7, <2>1, <2>2, <2>3, <2>4 DEF Worker, GceJobStep, GetInstancesFails,
               ConcurrencyRefused, JobReturns
  <1>8. ASSUME NEW t \in Thread, NEW h \in Host, Arrive(t, h) PROVE LateInv'
    <2>1. job[t] \in Job /\ UNCHANGED queueVars /\ UNCHANGED <<late, outcome>>
      BY <1>8, GoroutineHasJob DEF Arrive, RollingInv, AwaitedInv, OnceInv
    <2>2. LateHosts(job[t]) = {}
      BY <1>1, <2>1 DEF LateInv, Held
    <2>3. \A g \in Host : owner'[g] \in {owner[g], job[t]}
      BY <1>1, <1>8 DEF Arrive, TakesSlot, TypeOK
    <2> QED BY <1>4, <2>1, <2>2, <2>3 DEF Held
  <1>9. ASSUME NEW l \in late, ArriveUnawaited(l) PROVE LateInv'
    <2>1. \A j \in Job : Held(j)' <=> Held(j)
      BY <1>9, UnawaitedMoves DEF Held
    <2>2. \A j \in Job : LateHosts(j) # {} => InProgress(j) \cap LateHosts(j) = {}
      BY <1>1 DEF LateInv
    <2> QED BY <1>9, <2>1, <2>2, UnawaitedMoves, LateFrame
  <1>10. ASSUME NEW h \in Host, DeployReturns(h) \/ Work(h) \/ DaemonDies(h) PROVE LateInv'
    <2>1. \A g \in Host, j \in Job : owner'[g] = j => owner[g] = j
      BY <1>1, <1>10, JobAssumption DEF DeployReturns, Work, DaemonDies, TypeOK
    <2>2. CASE UNCHANGED queueVars /\ UNCHANGED <<late, outcome>>
      BY <1>4, <2>1, <2>2 DEF Held
    <2> QED BY <1>3, <1>10, <2>2 DEF DeployReturns, Work, DaemonDies, Answered
  <1>11. CASE Break
    BY <1>3, <1>11 DEF Break
  <1>12. CASE UNCHANGED vars
    BY <1>5, <1>12 DEF vars
  <1>13. ~(\E o \in orphans : ArriveLate(o)) /\ ~(\E h \in Host : Deadline(h))
    BY <1>1 DEF Deadline
  <1> QED BY <1>6, <1>7, <1>8, <1>9, <1>10, <1>11, <1>12, <1>13 DEF Next

LEMMA RollingStep ==
  ASSUME "acklost" \notin Faults, "timeout" \notin Faults, "deadline" \notin Faults,
         RollingInv, [Next]_vars
  PROVE  RollingInv'
  BY AwaitedStep, LateStep DEF RollingInv

\* Where no acknowledgement is lost and no request is given up by the worker or by the
\* daemon before its deploy is done, a job never has more instances at work than its
\* batchCount, whatever else fails.  Without the conditions it may (see RollingDeploy).
THEOREM RollingDeployAlways ==
  ASSUME "acklost" \notin Faults, "timeout" \notin Faults, "deadline" \notin Faults
  PROVE  Spec => []RollingDeploy
  <1>1. RollingInv => RollingDeploy
    BY DEF RollingInv, AwaitedInv
  <1>2. RollingInv /\ [Next]_vars => RollingInv'
    BY RollingStep
  <1> QED BY <1>1, <1>2, InitRolling, PTL DEF Spec
-----------------------------------------------------------------------------
(* The abstract specification *)

\* The instances a job asks are those of its cluster.
OwnCluster ==
    /\ \A t \in Thread, h \in Host : hpc[t][h] # "none" => h \in Cluster[job[t]]
    /\ \A l \in late : l.host \in Cluster[l.job]

RolloutInv == RollingInv /\ OwnCluster

\* Only GetInstances starts goroutines, and no other step gives a thread that has some
\* another job.
LEMMA OwnClusterStep ==
  ASSUME IInv, OwnCluster, orphans = {}, [Next]_vars
  PROVE  OwnCluster'
  <1>1. TypeOK /\ ThreadShape
    BY DEF IInv
  <1>2. ASSUME \A t \in Thread, h \in Host :
                  hpc'[t][h] # "none" => hpc[t][h] # "none" /\ job'[t] = job[t],
               late' \in SUBSET late
        PROVE  OwnCluster'
    BY <1>2 DEF OwnCluster
  <1>3. WorkerDies => OwnCluster'
    <2> SUFFICES ASSUME WorkerDies PROVE OwnCluster'
      OBVIOUS
    <2>1. \A r \in OnTheWay : r.host \in Cluster[r.job]
      BY <1>1 DEF OnTheWay, OwnCluster, Request
    <2>2. \A t \in Thread, h \in Host : hpc'[t][h] = "none"
      BY DEF WorkerDies, NoHosts
    <2> QED BY <2>1, <2>2 DEF WorkerDies, OwnCluster
  <1>4. CASE Queue
    <2>1. \A t \in Thread : hpc[t] # NoHosts => job'[t] = job[t]
      BY <1>1, <1>4 DEF TypeOK, QueueTypeOK, Queue, QueueNext, Enqueue, EnqueueFails,
         PublishLate, PublishGivenUp, Receive, Deliver, Dequeued, ReceiveTimesOut, ReceiveFails,
         ThreadShape
    <2> QED BY <1>2, <1>4, <2>1 DEF Queue, NoHosts
  <1>5. ASSUME NEW t \in Thread, Worker(t) PROVE OwnCluster'
    <2>1. CASE GetInstances(t)
      BY <1>1, <2>1 DEF GetInstances, OwnCluster, TypeOK, WorkerTypeOK
    <2>2. CASE \E h \in Host : Reserve(t, h) \/ TimesOut(t, h)
      BY <1>1, <1>2, <2>2 DEF Reserve, TimesOut, Asking, HostGoes, TypeOK, WorkerTypeOK
    <2>3. ASSUME NEW err \in {"nil", "error"}, JobEnds(t, err) PROVE OwnCluster'
      BY <1>1, <1>2, <2>3 DEF JobEnds, NoHosts, TypeOK, QueueTypeOK, WorkerTypeOK
    <2> QED BY <1>3, <1>5, <2>1, <2>2, <2>3 DEF Worker, GceJobStep, GetInstancesFails,
               ConcurrencyRefused, JobReturns
  <1>6. ASSUME NEW t \in Thread, NEW h \in Host, Arrive(t, h) PROVE OwnCluster'
    BY <1>1, <1>2, <1>6 DEF Arrive, HostGoes, TypeOK, WorkerTypeOK
  <1>7. ASSUME NEW h \in Host, Answered(h), UNCHANGED queueVars PROVE OwnCluster'
    BY <1>1, <1>2, <1>7 DEF Answered, TypeOK, WorkerTypeOK
  <1>8. ASSUME NEW h \in Host, DeployReturns(h) \/ Deadline(h) \/ Work(h) \/ DaemonDies(h)
        PROVE  OwnCluster'
    BY <1>2, <1>3, <1>7, <1>8 DEF DeployReturns, Deadline, Work, DaemonDies
  <1>9. Break \/ UNCHANGED vars \/ (\E l \in late : ArriveUnawaited(l)) => OwnCluster'
    BY <1>2, <1>3 DEF Break, vars, ArriveUnawaited
  <1> QED BY <1>4, <1>5, <1>6, <1>8, <1>9 DEF Next

LEMMA InitRolloutInv == Init => RolloutInv
  BY InitRolling DEF RolloutInv, OwnCluster, Init, WorkerInit, NoHosts

LEMMA RolloutInvStep ==
  ASSUME "acklost" \notin Faults, "timeout" \notin Faults, "deadline" \notin Faults,
         RolloutInv, [Next]_vars
  PROVE  RolloutInv'
  BY RollingStep, OwnClusterStep DEF RolloutInv, RollingInv, AwaitedInv, OnceInv, IInv, NoOrphans

\* What the refinement mapping makes of a job: its life follows from where it is, and which
\* instances are left from its thread; of a job nobody works on, those a request is on the
\* way to.
MappedJob(j) ==
    /\ outcome[j] = "nil" => Life(j) = "done"
    /\ outcome[j] = "error" => Life(j) = "failed"
    /\ outcome[j] = "none" /\ topic[j] = 1 => Life(j) = "queued" /\ Left(j) = Cluster[j]
    /\ answer[j] = "none" \/ j \in sending => Life(j) = "new" /\ Left(j) = Cluster[j]
    /\ \A t \in Thread : job[t] = j =>
          Life(j) = "taken" /\ Left(j) = {h \in Cluster[j] : ToCome(t, h)}
    /\ ~Held(j) /\ topic[j] = 0 /\ answer[j] # "none" /\ j \notin sending =>
          Left(j) = Cluster[j] \cap LateHosts(j) /\ (outcome[j] = "none" => Life(j) = "gone")
    /\ ~Held(j) /\ topic[j] = 0 /\ outcome[j] # "none" => Left(j) = {}

MappedJobs == \A j \in Job : MappedJob(j)

LEMMA Mapped == RollingInv => MappedJobs
  <1> SUFFICES ASSUME RollingInv, NEW j \in Job
               PROVE  MappedJob(j)
    BY Zenon DEF MappedJobs
  <1>1. TypeOK /\ NotBefore /\ WorkedOnOnce
    BY DEF RollingInv, AwaitedInv, OnceInv, IInv
  <1>2. Cluster[j] \in SUBSET Host
    BY ClusterAssumption
  <1>3. Held(j) \/ outcome[j] # "none" => LateHosts(j) = {}
    BY DEF RollingInv, LateInv
  <1>4. ASSUME NEW t \in Thread, job[t] = j
        PROVE  Life(j) = "taken" /\ Left(j) = {h \in Cluster[j] : ToCome(t, h)}
    <2>1. Held(j) /\ outcome[j] = "none" /\ topic[j] = 0
      BY <1>1, <1>4 DEF WorkedOnOnce, Held
    <2>2. Life(j) = "taken"
      BY <2>1 DEF Life
    <2>3. \A u \in Thread : job[u] = j <=> u = t
      BY <1>1, <1>4 DEF WorkedOnOnce
    <2>4. \A h \in Cluster[j] : [job |-> j, host |-> h] \notin late
      BY <1>2, <1>3, <2>1 DEF LateHosts
    <2> QED BY <2>2, <2>3, <2>4 DEF Left
  <1>5. outcome[j] = "none" /\ topic[j] = 1 => Life(j) = "queued" /\ Left(j) = Cluster[j]
    BY DEF Life, Left
  <1>6. answer[j] = "none" \/ j \in sending => Life(j) = "new" /\ Left(j) = Cluster[j]
    BY <1>1 DEF NotBefore, Life, Left
  <1>7. ASSUME ~Held(j), topic[j] = 0, answer[j] # "none", j \notin sending
        PROVE  /\ Left(j) = Cluster[j] \cap LateHosts(j)
               /\ outcome[j] = "none" => Life(j) = "gone"
    <2>1. Life(j) \in {"done", "failed", "gone"} /\ (outcome[j] = "none" => Life(j) = "gone")
      BY <1>1, <1>7 DEF Life, TypeOK, WorkerTypeOK
    <2>2. Left(j) = {h \in Cluster[j] : [job |-> j, host |-> h] \in late}
      BY <1>7, <2>1 DEF Left, Held
    <2> QED BY <1>2, <2>1, <2>2 DEF LateHosts
  <1>8. ASSUME ~Held(j), topic[j] = 0, outcome[j] # "none"
        PROVE  Left(j) = {}
    <2>1. answer[j] # "none" /\ j \notin sending
      BY <1>1, <1>8 DEF NotBefore
    <2> QED BY <1>3, <1>7, <1>8, <2>1
  <1>9. (outcome[j] = "nil" => Life(j) = "done") /\ (outcome[j] = "error" => Life(j) = "failed")
    BY DEF Life
  <1> QED BY <1>4, <1>5, <1>6, <1>7, <1>8, <1>9 DEF MappedJob

LEMMA MappedNext == RollingInv' => MappedJobs'
  BY Mapped, PTL

Rolling(j) == UNCHANGED Rolls(j)!rolloutVars \/ Rolls(j)!RolloutNext

\* What most steps do to most jobs: nothing becomes of them, ...
Untouched(j) ==
    /\ topic'[j] = topic[j] /\ answer'[j] = answer[j] /\ outcome'[j] = outcome[j]
    /\ j \in sending' <=> j \in sending
    /\ \A h \in Cluster[j] :
          [job |-> j, host |-> h] \in late' <=> [job |-> j, host |-> h] \in late
    /\ \A t \in Thread :
          /\ job'[t] = j <=> job[t] = j
          /\ job[t] = j => \A h \in Cluster[j] : ToCome(t, h)' <=> ToCome(t, h)

LEMMA UntouchedLife ==
  ASSUME NEW j \in Job, Untouched(j)
  PROVE  Life(j)' = Life(j) /\ Left(j)' = Left(j)
  <1>1. Held(j)' <=> Held(j)
    BY DEF Untouched, Held
  <1>2. Life(j)' = Life(j)
    BY <1>1 DEF Untouched, Life
  <1> QED BY <1>2 DEF Untouched, Left

\* ... and an instance stays with its job or is released.
LEMMA UntouchedRolls ==
  ASSUME NEW j \in Job, Untouched(j),
         \/ \A g \in Host : owner'[g] = j <=> owner[g] = j
         \/ \E h \in Host : \A g \in Host : owner'[g] = j <=> owner[g] = j /\ g # h
  PROVE  Rolling(j)
  <1>1. Life(j)' = Life(j) /\ Left(j)' = Left(j)
    BY UntouchedLife
  <1>2. CASE \A g \in Host : owner'[g] = j <=> owner[g] = j
    <2>1. InProgress(j)' = InProgress(j)
      BY <1>2 DEF InProgress
    <2> QED BY <1>1, <2>1 DEF Rolling, Rolls!rolloutVars
  <1>3. ASSUME NEW h \in Host, \A g \in Host : owner'[g] = j <=> owner[g] = j /\ g # h
        PROVE  Rolling(j)
    <2>1. InProgress(j)' = InProgress(j) \ {h}
      BY <1>3 DEF InProgress
    <2>2. CASE h \in InProgress(j)
      <3>1. Rolls(j)!Finish(h)
        BY <1>1, <2>1, <2>2 DEF Rolls!Finish
      <3> QED BY <3>1 DEF Rolling, Rolls!RolloutNext
    <2>3. CASE h \notin InProgress(j)
      BY <1>1, <2>1, <2>3 DEF Rolling, Rolls!rolloutVars
    <2> QED BY <2>2, <2>3
  <1> QED BY <1>2, <1>3

\* A job is published or, where that fails, later or never.
LEMMA EnqueueRolls ==
  ASSUME RollingInv, RollingInv', NEW j \in Job, NEW k \in Job,
         Enqueue(k) \/ EnqueueFails(k) \/ PublishLate(k) \/ PublishGivenUp(k),
         UNCHANGED workerVars, UNCHANGED hostVars
  PROVE  Rolling(j)
  <1>1. TypeOK /\ NotBefore /\ UNCHANGED <<tpc, job>>
    BY DEF RollingInv, AwaitedInv, OnceInv, IInv, Enqueue, EnqueueFails, PublishLate,
       PublishGivenUp
  <1>2. InProgress(j)' = InProgress(j)
    BY DEF InProgress
  <1>3. CASE k # j
    <2>1. topic'[j] = topic[j] /\ answer'[j] = answer[j] /\ (j \in sending' <=> j \in sending)
      BY <1>1, <1>3 DEF Enqueue, EnqueueFails, PublishLate, PublishGivenUp, Publish, TypeOK,
         QueueTypeOK
    <2>2. Untouched(j)
      BY <1>1, <2>1 DEF Untouched, ToCome
    <2> QED BY <2>2, UntouchedRolls
  <1>4. CASE k = j
    <2>1. /\ answer[j] = "none" \/ j \in sending
          /\ topic[j] = 0 /\ outcome[j] = "none" /\ ~Held(j)
      BY <1>1, <1>4 DEF Enqueue, EnqueueFails, PublishLate, PublishGivenUp, NotBefore
    <2>2. /\ outcome'[j] = "none" /\ ~Held(j)' /\ answer'[j] # "none"
          /\ topic' = topic \/ topic' = [topic EXCEPT ![j] = 1]
      BY <1>1, <1>4, <2>1 DEF Held, Enqueue, EnqueueFails, PublishLate, PublishGivenUp, Publish,
         TypeOK, QueueTypeOK, NotBefore
    <2>3. Life(j) = "new" /\ Left(j) = Cluster[j]
      BY <2>1, Mapped DEF MappedJobs, MappedJob
    <2>4. topic'[j] \in {0, 1}
      BY <1>1, <2>1, <2>2 DEF TypeOK, QueueTypeOK
    <2>5. CASE topic'[j] = 1
      <3>1. Life(j)' = "queued" /\ Left(j)' = Cluster[j]
        BY <2>2, <2>5, MappedNext DEF MappedJobs, MappedJob
      <3>2. Rolls(j)!Publish
        BY <1>2, <2>3, <3>1 DEF Rolls!Publish
      <3> QED BY <3>2 DEF Rolling, Rolls!RolloutNext
    <2>6. CASE topic'[j] = 0 /\ j \in sending'
      <3>1. Life(j)' = "new" /\ Left(j)' = Cluster[j]
        BY <2>6, MappedNext DEF MappedJobs, MappedJob
      <3> QED BY <1>2, <2>3, <3>1 DEF Rolling, Rolls!rolloutVars
    <2>7. CASE topic'[j] = 0 /\ j \notin sending'
      <3>1. LateHosts(j) = {} /\ LateHosts(j)' = LateHosts(j)
        BY <2>1 DEF RollingInv, LateInv, LateHosts
      <3>2. Life(j)' = "gone" /\ Left(j)' = {}
        BY <2>2, <2>7, <3>1, MappedNext DEF MappedJobs, MappedJob
      <3>3. Rolls(j)!Refused
        BY <1>2, <2>3, <3>2 DEF Rolls!Refused, Rolls!EndsAs
      <3> QED BY <3>3 DEF Rolling, Rolls!RolloutNext
    <2> QED BY <2>4, <2>5, <2>6, <2>7
  <1> QED BY <1>3, <1>4

LEMMA DeliverRolls ==
  ASSUME "acklost" \notin Faults, RollingInv, RollingInv', NEW j \in Job, NEW t \in Thread,
         NEW k \in Job, Deliver(t, k), UNCHANGED workerVars, UNCHANGED hostVars
  PROVE  Rolling(j)
  <1>1. TypeOK /\ ThreadShape /\ WorkedOnOnce
    BY DEF RollingInv, AwaitedInv, OnceInv, IInv
  <1>2. /\ topic[k] = 1 /\ topic' = [topic EXCEPT ![k] = 0] /\ UNCHANGED <<answer, sending>>
        /\ \A u \in Thread : job'[u] = IF u = t THEN k ELSE job[u]
        /\ job[t] = NoJob /\ tpc'[t] = "acked"
        /\ \A u \in Thread \ {t} : tpc'[u] = tpc[u]
    BY <1>1 DEF Deliver, Goto, ThreadShape, TypeOK, QueueTypeOK
  <1>3. CASE k # j
    <2>1. Untouched(j)
      BY <1>1, <1>2, <1>3, JobAssumption DEF Untouched, ToCome, TypeOK, QueueTypeOK
    <2> QED BY <2>1, UntouchedRolls
  <1>4. CASE k = j
    <2>1. Life(j) = "queued" /\ Left(j) = Cluster[j]
      BY <1>1, <1>2, <1>4, Mapped DEF MappedJobs, MappedJob, WorkedOnOnce
    <2>2. Life(j)' = "taken" /\ Left(j)' = {h \in Cluster[j] : ToCome(t, h)'}
      BY <1>2, <1>4, MappedNext DEF MappedJobs, MappedJob
    <2>3. Left(j)' = Cluster[j]
      BY <1>2, <2>2 DEF ToCome
    <2>4. InProgress(j)' = InProgress(j)
      BY DEF InProgress
    <2>5. Rolls(j)!Take
      BY <2>1, <2>2, <2>3, <2>4 DEF Rolls!Take
    <2> QED BY <2>5 DEF Rolling, Rolls!RolloutNext
  <1> QED BY <1>3, <1>4

\* Threads between Dequeue's calls; a job that a Receive drops is lost.
LEMMA ReceiveRolls ==
  ASSUME RollingInv, RollingInv', NEW j \in Job, NEW t \in Thread,
         Receive(t) \/ Dequeued(t) \/ ReceiveTimesOut(t) \/ ReceiveFails(t),
         UNCHANGED workerVars, UNCHANGED hostVars
  PROVE  Rolling(j)
  <1>1. TypeOK /\ ThreadShape /\ NotBefore /\ WorkedOnOnce
    BY DEF RollingInv, AwaitedInv, OnceInv, IInv
  <1>2. /\ UNCHANGED <<topic, answer, sending>>
        /\ tpc[t] # "batch" /\ tpc'[t] # "batch"
        /\ \A u \in Thread \ {t} : tpc'[u] = tpc[u] /\ job'[u] = job[u]
        /\ job'[t] \in {job[t], NoJob}
    BY <1>1 DEF Receive, Dequeued, ReceiveTimesOut, ReceiveFails, Goto, TypeOK, QueueTypeOK
  <1>3. CASE job[t] = j /\ job'[t] = NoJob
    <2>1. /\ Life(j) = "taken" /\ outcome[j] = "none" /\ topic[j] = 0
          /\ answer[j] # "none" /\ j \notin sending
          /\ \A u \in Thread : job[u] = j => u = t
      BY <1>1, <1>3, Mapped DEF MappedJobs, MappedJob, NotBefore, WorkedOnOnce, Held
    <2>2. ~Held(j)'
      BY <1>2, <1>3, <2>1, JobAssumption DEF Held
    <2>3. LateHosts(j) = {} /\ LateHosts(j)' = LateHosts(j)
      BY <1>3 DEF RollingInv, LateInv, LateHosts, Held
    <2>4. Life(j)' = "gone" /\ Left(j)' = {}
      BY <1>2, <2>1, <2>2, <2>3, MappedNext DEF MappedJobs, MappedJob
    <2>5. InProgress(j)' = InProgress(j) \ {}
      BY DEF InProgress
    <2>6. Rolls(j)!Lost
      BY <2>1, <2>4, <2>5 DEF Rolls!Lost
    <2> QED BY <2>6 DEF Rolling, Rolls!RolloutNext
  <1>4. CASE ~(job[t] = j /\ job'[t] = NoJob)
    <2>1. Untouched(j)
      BY <1>2, <1>4, JobAssumption DEF Untouched, ToCome
    <2> QED BY <2>1, UntouchedRolls
  <1> QED BY <1>3, <1>4

\* The death of the worker loses the jobs it had, with what it had not sent, and does
\* nothing to the others.
LEMMA DeathRolls ==
  ASSUME RollingInv, RollingInv', NEW j \in Job, WorkerDies,
         UNCHANGED hostVars \/ \E h \in Host : DaemonDies(h)
  PROVE  Rolling(j)
  <1>1. TypeOK /\ ThreadShape /\ NotBefore /\ WorkedOnOnce /\ orphans = {}
    BY DEF RollingInv, AwaitedInv, OnceInv, IInv, NoOrphans
  <1>2. ~Held(j)' /\ UNCHANGED <<topic, answer, sending, outcome>>
    BY JobAssumption DEF WorkerDies, Held
  <1>3. \/ \A g \in Host : owner'[g] = j <=> owner[g] = j
        \/ \E h \in Host : \A g \in Host : owner'[g] = j <=> owner[g] = j /\ g # h
    BY <1>1, JobAssumption DEF DaemonDies, TypeOK
  <1>4. \A h \in Host : [job |-> j, host |-> h] \in late' <=>
            \/ [job |-> j, host |-> h] \in late
            \/ \E t \in Thread : job[t] = j /\ hpc[t][h] = "sent"
    BY <1>1 DEF WorkerDies, OnTheWay, Request
  <1>5. CASE Held(j)
    <2>1. PICK t \in Thread : job[t] = j
      BY <1>5 DEF Held
    <2>2. /\ Life(j) = "taken" /\ Left(j) = {h \in Cluster[j] : ToCome(t, h)}
          /\ outcome[j] = "none" /\ topic[j] = 0 /\ answer[j] # "none" /\ j \notin sending
          /\ \A u \in Thread : job[u] = j => u = t
      BY <1>1, <1>5, <2>1, Mapped DEF MappedJobs, MappedJob, NotBefore, WorkedOnOnce
    <2>3. Life(j)' = "gone" /\ Left(j)' = Cluster[j] \cap LateHosts(j)'
      BY <1>2, <2>2, MappedNext DEF MappedJobs, MappedJob
    <2>4. LateHosts(j) = {}
      BY <1>5 DEF RollingInv, LateInv
    <2>5. \A h \in LateHosts(j)' : hpc[t][h] = "sent"
      BY <1>4, <2>2, <2>4 DEF LateHosts
    <2>6. Left(j)' \in SUBSET Left(j)
      BY <2>2, <2>3, <2>5 DEF ToCome
    <2>7. \E dead \in {{}} \cup {{h} : h \in Host} : InProgress(j)' = InProgress(j) \ dead
      <3>1. CASE \A g \in Host : owner'[g] = j <=> owner[g] = j
        <4>1. InProgress(j)' = InProgress(j) \ {}
          BY <3>1 DEF InProgress
        <4> QED BY <4>1
      <3>2. ASSUME NEW h \in Host, \A g \in Host : owner'[g] = j <=> owner[g] = j /\ g # h
            PROVE  InProgress(j)' = InProgress(j) \ {h}
        BY <3>2 DEF InProgress
      <3> QED BY <1>3, <3>1, <3>2
    <2>8. Rolls(j)!Lost
      BY <2>2, <2>3, <2>6, <2>7 DEF Rolls!Lost
    <2> QED BY <2>8 DEF Rolling, Rolls!RolloutNext
  <1>6. CASE ~Held(j)
    <2>1. Untouched(j)
      BY <1>2, <1>4, <1>6, ClusterAssumption DEF Untouched, Held
    <2> QED BY <1>3, <2>1, UntouchedRolls
  <1> QED BY <1>5, <1>6

\* A job ends with nil when its last goroutine is done, or with an error before its first.
LEMMA EndRolls ==
  ASSUME RollingInv, RollingInv', NEW j \in Job, NEW t \in Thread, NEW err \in {"nil", "error"},
         JobEnds(t, err), UNCHANGED hostVars,
         \/ err = "error" /\ tpc[t] = "instances"
         \/ err = "nil" /\ tpc[t] = "batch" /\ \A h \in Host : hpc[t][h] \in {"none", "done"}
  PROVE  Rolling(j)
  <1>1. TypeOK /\ ThreadShape /\ NotBefore /\ WorkedOnOnce /\ OwnersAwaited
    BY DEF RollingInv, AwaitedInv, OnceInv, IInv
  <1>2. /\ job[t] \in Job /\ job'[t] = NoJob /\ UNCHANGED <<topic, answer, sending, late>>
        /\ outcome' = [outcome EXCEPT ![job[t]] = err]
        /\ \A u \in Thread \ {t} : job'[u] = job[u] /\ tpc'[u] = tpc[u] /\ hpc'[u] = hpc[u]
    BY <1>1 DEF JobEnds, Goto, ThreadShape, TypeOK, QueueTypeOK, WorkerTypeOK
  <1>3. CASE job[t] = j
    <2>1. /\ Life(j) = "taken" /\ Left(j) = {h \in Cluster[j] : ToCome(t, h)}
          /\ topic[j] = 0 /\ answer[j] # "none"
          /\ \A u \in Thread : job[u] = j => u = t
      BY <1>1, <1>3, Mapped DEF MappedJobs, MappedJob, NotBefore, WorkedOnOnce, Held
    <2>2. ~Held(j)' /\ outcome'[j] = err
      BY <1>1, <1>2, <1>3, <2>1, JobAssumption DEF Held, TypeOK, WorkerTypeOK
    <2>3. /\ Left(j)' = {}
          /\ err = "nil" => Life(j)' = "done"
          /\ err = "error" => Life(j)' = "failed"
      BY <1>2, <2>1, <2>2, MappedNext DEF MappedJobs, MappedJob
    <2>4. InProgress(j) = {}
      BY <1>1, <1>3 DEF OwnersAwaited, InProgress, ThreadShape, NoHosts
    <2>5. InProgress(j)' = InProgress(j)
      BY DEF InProgress
    <2>6. CASE err = "error" /\ tpc[t] = "instances"
      <3>1. Left(j) = Cluster[j]
        BY <2>1, <2>6 DEF ToCome
      <3>2. Rolls(j)!Fails
        BY <2>1, <2>3, <2>4, <2>5, <2>6, <3>1 DEF Rolls!Fails, Rolls!EndsAs
      <3> QED BY <3>2 DEF Rolling, Rolls!RolloutNext
    <2>7. CASE err = "nil" /\ tpc[t] = "batch" /\ \A h \in Host : hpc[t][h] \in {"none", "done"}
      <3>1. Left(j) = {}
        BY <2>1, <2>7, ClusterAssumption DEF ToCome
      <3>2. Rolls(j)!Done
        BY <2>1, <2>3, <2>4, <2>5, <2>7, <3>1 DEF Rolls!Done, Rolls!EndsAs
      <3> QED BY <3>2 DEF Rolling, Rolls!RolloutNext
    <2> QED BY <2>6, <2>7
  <1>4. CASE job[t] # j
    <2>1. Untouched(j)
      BY <1>1, <1>2, <1>4, JobAssumption DEF Untouched, ToCome, TypeOK, WorkerTypeOK
    <2> QED BY <2>1, UntouchedRolls
  <1> QED BY <1>3, <1>4

LEMMA WorkerRolls ==
  ASSUME "timeout" \notin Faults, RollingInv, RollingInv', NEW j \in Job, NEW t \in Thread,
         Worker(t)
  PROVE  Rolling(j)
  <1>1. TypeOK /\ ThreadShape /\ UNCHANGED hostVars
    BY DEF RollingInv, AwaitedInv, OnceInv, IInv, Worker
  <1>2. CASE WorkerDies
    BY <1>1, <1>2, DeathRolls
  <1>3. CASE GetInstances(t)
    <2>1. /\ UNCHANGED <<topic, answer, sending, job, late, outcome>>
          /\ tpc[t] = "instances"
          /\ \A h \in Cluster[job[t]] : hpc'[t][h] = "queued"
          /\ \A u \in Thread \ {t} : tpc'[u] = tpc[u] /\ hpc'[u] = hpc[u]
      BY <1>1, <1>3, ClusterAssumption
         DEF GetInstances, Goto, ThreadShape, TypeOK, QueueTypeOK, WorkerTypeOK
    <2>2. Untouched(j)
      BY <2>1 DEF Untouched, ToCome
    <2> QED BY <1>1, <2>2, UntouchedRolls
  <1>4. ASSUME NEW h \in Host, Reserve(t, h) PROVE Rolling(j)
    <2>1. /\ UNCHANGED <<topic, answer, sending, tpc, job, late, outcome>>
          /\ hpc[t][h] = "queued"
          /\ \A u \in Thread, g \in Host :
                hpc'[u][g] = IF u = t /\ g = h THEN "sent" ELSE hpc[u][g]
      BY <1>1, <1>4 DEF Reserve, HostGoes, TypeOK, WorkerTypeOK
    <2>2. Untouched(j)
      BY <2>1, ClusterAssumption DEF Untouched, ToCome
    <2> QED BY <1>1, <2>2, UntouchedRolls
  <1>5. CASE GetInstancesFails(t) \/ ConcurrencyRefused(t) \/ JobReturns(t)
    BY <1>1, <1>2, <1>5, EndRolls DEF GetInstancesFails, ConcurrencyRefused, JobReturns
  <1>6. ~\E h \in Host : TimesOut(t, h)
    BY DEF TimesOut
  <1> QED BY <1>3, <1>4, <1>5, <1>6 DEF Worker, GceJobStep

\* An instance more is at work on a job: there was room for it.
LEMMA RoomForOne ==
  ASSUME RollingInv', NEW j \in Job, NEW h \in Host, h \notin InProgress(j),
         InProgress(j)' = InProgress(j) \cup {h}
  PROVE  Rolls(j)!Cardinality(InProgress(j)) < Places(j)
  <1>1. IsFiniteSet(InProgress(j)) /\ Cardinality(InProgress(j)) \in Nat
    BY Finite DEF InProgress
  <1>2. Cardinality(InProgress(j) \cup {h}) = Cardinality(InProgress(j)) + 1
    BY <1>1, FS_AddElement
  <1>3. Cardinality(InProgress(j)') <= Places(j)
    BY DEF RollingInv, AwaitedInv, RollingDeploy, Places, BatchCount
  <1>4. Cardinality(InProgress(j)) < Places(j)
    BY <1>1, <1>2, <1>3, Finite
  <1>5. Rolls(j)!Cardinality(InProgress(j)) = Cardinality(InProgress(j))
    BY DEF Rolls!Cardinality, Cardinality
  <1> QED BY <1>4, <1>5

\* A request takes the slot or is refused: its instance is started or passed over.
LEMMA ArriveRolls ==
  ASSUME RolloutInv, RollingInv', NEW j \in Job, NEW t \in Thread, NEW h \in Host, Arrive(t, h)
  PROVE  Rolling(j)
  <1>1. TypeOK /\ IInv /\ RollingInv
    BY DEF RolloutInv, RollingInv, AwaitedInv, OnceInv, IInv
  <1>2. PICK where \in {"accepted", "done"} :
          /\ HostGoes(t, h, where)
          /\ where = "accepted" => TakesSlot(h, job[t])
          /\ where = "done" => UNCHANGED hostVars
    BY DEF Arrive
  <1>3. /\ UNCHANGED <<topic, answer, sending, tpc, job, late, outcome>>
        /\ hpc[t][h] = "sent" /\ job[t] \in Job /\ tpc[t] = "batch" /\ h \in Cluster[job[t]]
        /\ \A u \in Thread, g \in Host :
              hpc'[u][g] = IF u = t /\ g = h THEN where ELSE hpc[u][g]
    BY <1>1, <1>2, GoroutineHasJob
       DEF Arrive, HostGoes, TypeOK, WorkerTypeOK, RolloutInv, OwnCluster
  <1>4. CASE job[t] = j
    <2>1. Life(j) = "taken" /\ Left(j) = {g \in Cluster[j] : ToCome(t, g)}
      BY <1>1, <1>4, Mapped DEF MappedJobs, MappedJob
    <2>2. Life(j)' = "taken" /\ Left(j)' = {g \in Cluster[j] : ToCome(t, g)'}
      BY <1>1, <1>3, <1>4, MappedNext DEF MappedJobs, MappedJob
    <2>3. h \in Left(j) /\ Left(j)' = Left(j) \ {h}
      BY <1>3, <1>4, <2>1, <2>2, ClusterAssumption DEF ToCome
    <2>4. CASE where = "done"
      <3>1. InProgress(j)' = InProgress(j)
        BY <1>2, <2>4 DEF InProgress
      <3>2. Rolls(j)!PassOver(h)
        BY <2>1, <2>2, <2>3, <3>1 DEF Rolls!PassOver
      <3> QED BY <3>2 DEF Rolling, Rolls!RolloutNext
    <2>5. CASE where = "accepted"
      <3>1. owner[h] # j
        BY <1>1, <1>3, <1>4 DEF RollingInv, AwaitedInv, OwnersAwaited
      <3>2. \A g \in Host : owner'[g] = IF g = h THEN j ELSE owner[g]
        BY <1>1, <1>2, <1>4, <2>5 DEF TakesSlot, TypeOK
      <3>3. InProgress(j)' = InProgress(j) \cup {h} /\ h \notin InProgress(j)
        BY <3>1, <3>2 DEF InProgress
      <3>4. Rolls(j)!Start(h)
        BY <2>1, <2>2, <2>3, <3>3, RoomForOne DEF Rolls!Start
      <3> QED BY <3>4 DEF Rolling, Rolls!RolloutNext
    <2> QED BY <2>4, <2>5
  <1>5. CASE job[t] # j
    <2>1. Untouched(j)
      BY <1>3, <1>5, ClusterAssumption DEF Untouched, ToCome
    <2>2. \/ \A g \in Host : owner'[g] = j <=> owner[g] = j
          \/ \A g \in Host : owner'[g] = j <=> owner[g] = j /\ g # h
      BY <1>1, <1>2, <1>5 DEF TakesSlot, TypeOK
    <2> QED BY <2>1, <2>2, UntouchedRolls
  <1> QED BY <1>4, <1>5

\* So does one of a job whose worker is dead.
LEMMA UnawaitedRolls ==
  ASSUME RolloutInv, RollingInv', NEW j \in Job, NEW l \in late, ArriveUnawaited(l)
  PROVE  Rolling(j)
  <1>1. TypeOK /\ RollingInv
    BY DEF RolloutInv, RollingInv, AwaitedInv, OnceInv, IInv
  <1>2. /\ UNCHANGED queueVars /\ UNCHANGED <<hpc, orphans, outcome>>
        /\ l.job \in Job /\ l.host \in LateHosts(l.job)
        /\ LateHosts(j)' = IF j = l.job THEN LateHosts(j) \ {l.host} ELSE LateHosts(j)
        /\ InProgress(l.job)' \in {InProgress(l.job), InProgress(l.job) \cup {l.host}}
    BY <1>1, UnawaitedMoves
  <1>3. CASE j = l.job
    <2> DEFINE h == l.host
    <2>1. /\ topic[j] = 0 /\ answer[j] # "none" /\ j \notin sending
          /\ ~Held(j) /\ outcome[j] = "none" /\ h \notin InProgress(j)
      BY <1>1, <1>2, <1>3 DEF RollingInv, LateInv
    <2>2. Life(j) = "gone" /\ Left(j) = Cluster[j] \cap LateHosts(j)
      BY <1>1, <2>1, Mapped DEF MappedJobs, MappedJob
    <2>3. Life(j)' = "gone" /\ Left(j)' = Cluster[j] \cap LateHosts(j)'
      BY <1>2, <2>1, MappedNext DEF MappedJobs, MappedJob, Held
    <2>4. h \in Cluster[j] /\ h \in Host
      BY <1>2, <1>3 DEF RolloutInv, OwnCluster, LateHosts
    <2>5. h \in Left(j) /\ Left(j)' = Left(j) \ {h}
      BY <1>2, <1>3, <2>2, <2>3, <2>4
    <2> HIDE DEF h
    <2>6. CASE InProgress(j)' = InProgress(j)
      <3>1. Rolls(j)!PassOver(h)
        BY <2>2, <2>3, <2>5, <2>6 DEF Rolls!PassOver
      <3> QED BY <2>4, <3>1 DEF Rolling, Rolls!RolloutNext
    <2>7. CASE InProgress(j)' = InProgress(j) \cup {h}
      <3>1. Rolls(j)!Start(h)
        BY <2>1, <2>2, <2>3, <2>4, <2>5, <2>7, RoomForOne DEF Rolls!Start
      <3> QED BY <2>4, <3>1 DEF Rolling, Rolls!RolloutNext
    <2> QED BY <1>2, <1>3, <2>6, <2>7 DEF h
  <1>4. CASE j # l.job
    <2>1. Untouched(j)
      BY <1>2, <1>4, ClusterAssumption DEF Untouched, ToCome, LateHosts
    <2>2. \/ \A g \in Host : owner'[g] = j <=> owner[g] = j
          \/ \A g \in Host : owner'[g] = j <=> owner[g] = j /\ g # l.host
      BY <1>1, <1>4 DEF ArriveUnawaited, TakesSlot, TypeOK
    <2>3. l.host \in Host
      BY <1>2 DEF LateHosts
    <2> QED BY <2>1, <2>2, <2>3, UntouchedRolls
  <1> QED BY <1>3, <1>4

\* A deploy that returns, and a daemon that dies, release their instance.
LEMMA HostRolls ==
  ASSUME RollingInv, RollingInv', NEW j \in Job, NEW h \in Host,
         DeployReturns(h) \/ Work(h) \/ DaemonDies(h)
  PROVE  Rolling(j)
  <1>1. TypeOK
    BY DEF RollingInv, AwaitedInv, OnceInv, IInv
  <1>2. \/ \A g \in Host : owner'[g] = j <=> owner[g] = j
        \/ \A g \in Host : owner'[g] = j <=> owner[g] = j /\ g # h
    BY <1>1, JobAssumption DEF DeployReturns, Work, DaemonDies, TypeOK
  <1>3. CASE UNCHANGED queueVars /\ UNCHANGED workerVars
    <2>1. Untouched(j)
      BY <1>3 DEF Untouched, ToCome
    <2> QED BY <1>2, <2>1, UntouchedRolls
  <1>4. CASE DeployReturns(h)
    <2>1. \A u \in Thread, g \in Host :
            hpc'[u][g] = IF g = h /\ hpc[u][g] = "accepted" THEN "done" ELSE hpc[u][g]
      BY <1>1, <1>4 DEF DeployReturns, Answered, TypeOK, WorkerTypeOK
    <2>2. Untouched(j)
      BY <1>4, <2>1, ClusterAssumption DEF DeployReturns, Answered, Untouched, ToCome
    <2> QED BY <1>2, <2>2, UntouchedRolls
  <1>5. WorkerDies /\ DaemonDies(h) => Rolling(j)
    BY DeathRolls
  <1> QED BY <1>3, <1>4, <1>5 DEF Work, DaemonDies

LEMMA RolloutStep ==
  ASSUME "acklost" \notin Faults, "timeout" \notin Faults, "deadline" \notin Faults,
         RolloutInv, [Next]_vars, NEW j \in Job
  PROVE  Rolling(j)
  <1>1. RollingInv /\ RollingInv' /\ orphans = {}
    BY RolloutInvStep DEF RolloutInv, RollingInv, AwaitedInv, NoOrphans
  <1>2. CASE Queue
    BY <1>1, <1>2, EnqueueRolls, DeliverRolls, ReceiveRolls DEF Queue, QueueNext
  <1>3. ASSUME NEW t \in Thread, Worker(t) PROVE Rolling(j)
    BY <1>1, <1>3, WorkerRolls
  <1>4. ASSUME NEW t \in Thread, NEW h \in Host, Arrive(t, h) PROVE Rolling(j)
    BY <1>1, <1>4, ArriveRolls
  <1>5. ASSUME NEW h \in Host, DeployReturns(h) \/ Work(h) \/ DaemonDies(h) PROVE Rolling(j)
    BY <1>1, <1>5, HostRolls
  <1>6. CASE Break
    BY <1>1, <1>6, DeathRolls DEF Break
  <1>7. CASE UNCHANGED vars
    <2>1. Untouched(j) /\ UNCHANGED owner
      BY <1>7 DEF vars, Untouched, ToCome
    <2> QED BY <2>1, UntouchedRolls
  <1>8. ~(\E o \in orphans : ArriveLate(o)) /\ ~(\E h \in Host : Deadline(h))
    BY <1>1 DEF Deadline
  <1>9. ASSUME NEW l \in late, ArriveUnawaited(l) PROVE Rolling(j)
    BY <1>1, <1>9, UnawaitedRolls
  <1> QED BY <1>2, <1>3, <1>4, <1>5, <1>6, <1>7, <1>8, <1>9 DEF Next

LEMMA InitRolls == ASSUME Init, NEW j \in Job PROVE Rolls(j)!RolloutInit
  <1>1. Life(j) = "new" /\ Left(j) = Cluster[j]
    BY InitRolling, Mapped DEF MappedJobs, MappedJob, Init, QueueInit
  <1>2. InProgress(j) = {}
    BY JobAssumption DEF Init, InProgress
  <1> QED BY <1>1, <1>2 DEF Rolls!RolloutInit

\* Where no acknowledgement is lost and no request is given up before its deploy is done,
\* every job runs as Rollout says, whatever else fails: queue, threads, channel, requests,
\* slots and deaths come down to its nine steps.  The publications that come late are
\* those of jobs that are still new, and the requests that arrive after their worker's
\* death start only instances of a job that is gone, within its batchCount.
THEOREM ImplementsRolloutAlways ==
  ASSUME "acklost" \notin Faults, "timeout" \notin Faults, "deadline" \notin Faults
  PROVE  Spec => ImplementsRollout
  <1>1. Init => \A j \in Job : Rolls(j)!RolloutInit
    <2> SUFFICES ASSUME Init, NEW j \in Job PROVE Rolls(j)!RolloutInit
      OBVIOUS
    <2> QED BY InitRolls
  <1>2. RolloutInv /\ [Next]_vars => RolloutInv'
    BY RolloutInvStep
  <1>3. RolloutInv /\ [Next]_vars =>
          [\A j \in Job : UNCHANGED Rolls(j)!rolloutVars \/ Rolls(j)!RolloutNext]_vars
    BY RolloutStep DEF Rolling
  <1> QED BY <1>1, <1>2, <1>3, InitRolloutInv, PTL DEF Spec, ImplementsRollout

\* The same for one job, as the refinement of a specification.
THEOREM JobIsARollout ==
  ASSUME "acklost" \notin Faults, "timeout" \notin Faults, "deadline" \notin Faults,
         NEW j \in Job
  PROVE  Spec => Rolls(j)!RolloutSpec
  <1>1. Init => Rolls(j)!RolloutInit
    BY InitRolls
  <1>2. RolloutInv /\ [Next]_vars => RolloutInv'
    BY RolloutInvStep
  <1>3. RolloutInv /\ [Next]_vars => [Rolls(j)!RolloutNext]_(Rolls(j)!rolloutVars)
    BY RolloutStep DEF Rolling
  <1> QED BY <1>1, <1>2, <1>3, InitRolloutInv, PTL DEF Spec, Rolls!RolloutSpec
=============================================================================
