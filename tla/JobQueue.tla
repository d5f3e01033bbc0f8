------------------------------ MODULE JobQueue -------------------------------
(***************************************************************************)
(* Deploy jobs between the API and the worker.  POST /deploy                *)
(* (api/api/deploy.go) makes a job and publishes it to a Pub/Sub topic      *)
(* (api/queue/queue.go, Enqueue); each of the worker's threads takes jobs   *)
(* from the topic's subscription (Dequeue), one callback at a time, and     *)
(* acknowledges a job before it is worked on.  Pub/Sub delivers at least    *)
(* once: an acknowledgement that is lost brings the job back.               *)
(***************************************************************************)
EXTENDS Naturals

CONSTANTS
    Job,        \* the jobs, each made by one POST /deploy
    NoJob,      \* the zero Job, whose Id is ""
    Thread,     \* the worker's MaxJobThreads goroutines
    Faults      \* what may go wrong in a run: "publish", "acklost", "stream", ...

ASSUME JobAssumption == NoJob \notin Job

VARIABLES
    topic,      \* [Job -> {0, 1}]: whether Pub/Sub has the job to deliver
    answer,     \* [Job -> {"none", "enqueued", "failed"}]: what the client was told
    sending,    \* the jobs the Pub/Sub client is still publishing though nobody waits
    tpc,        \* where each thread is
    job         \* [Thread -> Job \cup {NoJob}]: the job it dequeued

queueVars == <<topic, answer, sending, tpc, job>>

\* "receive" and "acked" are in Dequeue, "instances" and "batch" in ProcessJob.
ThreadPC == {"idle", "receive", "acked", "instances", "batch"}

QueueTypeOK ==
    /\ topic \in [Job -> {0, 1}]
    /\ answer \in [Job -> {"none", "enqueued", "failed"}]
    /\ sending \in SUBSET Job
    /\ tpc \in [Thread -> ThreadPC]
    /\ job \in [Thread -> Job \cup {NoJob}]

QueueInit ==
    /\ topic = [j \in Job |-> 0]
    /\ answer = [j \in Job |-> "none"]
    /\ sending = {}
    /\ tpc = [t \in Thread |-> "idle"]
    /\ job = [t \in Thread |-> NoJob]

Publish(j) == topic' = [topic EXCEPT ![j] = 1]

\* The request is published and confirmed, and the client gets the job's id.
Enqueue(j) ==
    /\ answer[j] = "none"
    /\ Publish(j)
    /\ answer' = [answer EXCEPT ![j] = "enqueued"]
    /\ UNCHANGED <<sending, tpc, job>>

\* Publishing fails, or its confirmation does not come within 10 seconds: the client gets
\* a 500.  The job may be in the topic, and what ends then is the wait for the publication,
\* not the publication.
EnqueueFails(j) ==
    /\ "publish" \in Faults
    /\ answer[j] = "none"
    /\ \/ Publish(j) /\ UNCHANGED sending
       \/ sending' = sending \cup {j} /\ UNCHANGED topic
    /\ answer' = [answer EXCEPT ![j] = "failed"]
    /\ UNCHANGED <<tpc, job>>

\* The publication nobody waits for gets through after all, or is given up.
PublishLate(j) ==
    /\ j \in sending
    /\ Publish(j)
    /\ sending' = sending \ {j}
    /\ UNCHANGED <<answer, tpc, job>>

PublishGivenUp(j) ==
    /\ j \in sending
    /\ sending' = sending \ {j}
    /\ UNCHANGED <<topic, answer, tpc, job>>

Goto(t, where) == tpc' = [tpc EXCEPT ![t] = where]

Receive(t) ==
    /\ tpc[t] = "idle"
    /\ Goto(t, "receive")
    /\ UNCHANGED <<topic, answer, sending, job>>

Deliver_Unacked(t, j) ==
    /\ tpc[t] = "receive"
    /\ topic[j] = 1
    /\ job' = [job EXCEPT ![t] = j]
    /\ Goto(t, "acked")
    /\ UNCHANGED <<topic, answer, sending>>

\* The callback decodes the message into the caller's job, acknowledges it and ends
\* the Receive.  The API's jobs decode: a message that does not is left where it is, not
\* acknowledged, and the Receive goes on, which is no step of this module.
Deliver(t, j) ==
    /\ tpc[t] = "receive"
    /\ topic[j] = 1
    /\ \/ topic' = [topic EXCEPT ![j] = 0]
       \/ "acklost" \in Faults /\ UNCHANGED topic
    /\ job' = [job EXCEPT ![t] = j]
    /\ Goto(t, "acked")
    /\ UNCHANGED <<answer, sending>>

\* Dequeue returns the job, and ProcessJob picks the GCE deploy for it.
Dequeued(t) ==
    /\ tpc[t] = "acked"
    /\ Goto(t, "instances")
    /\ UNCHANGED <<topic, answer, sending, job>>

ReceiveTimesOut_AfterAck(t) ==
    /\ tpc[t] \in {"receive", "acked"}
    /\ Goto(t, "idle")
    /\ job' = [job EXCEPT ![t] = NoJob]
    /\ UNCHANGED <<topic, answer, sending>>

\* The 10 seconds are over without a message: Dequeue returns the zero Job, and the
\* thread sleeps.
ReceiveTimesOut(t) ==
    /\ tpc[t] = "receive"
    /\ Goto(t, "idle")
    /\ UNCHANGED <<topic, answer, sending, job>>

\* Receive ends with an error: Dequeue returns it, with a job or without one.
ReceiveFails(t) ==
    /\ "stream" \in Faults
    /\ tpc[t] \in {"receive", "acked"}
    /\ Goto(t, "idle")
    /\ job' = [job EXCEPT ![t] = NoJob]
    /\ UNCHANGED <<topic, answer, sending>>

QueueNext ==
    \/ \E j \in Job : Enqueue(j) \/ EnqueueFails(j) \/ PublishLate(j) \/ PublishGivenUp(j)
    \/ \E t \in Thread : Receive(t) \/ Dequeued(t) \/ ReceiveTimesOut(t) \/ ReceiveFails(t)
    \/ \E t \in Thread, j \in Job : Deliver(t, j)
=============================================================================
