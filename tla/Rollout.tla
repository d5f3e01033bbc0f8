------------------------------- MODULE Rollout -------------------------------
(***************************************************************************)
(* What a deploy job promises, without threads, requests and processes.  A  *)
(* job that is published is queued, taken once and ends.  While it is taken *)
(* it goes through the instances of its cluster: each is passed over or     *)
(* started at most once, and no more than Room of them are busy with it at  *)
(* a time.  It ends done when none is left and none is busy, and failed     *)
(* when it started none.  It is gone when nobody will work on it again,     *)
(* though instances may still be busy with it, and a few it was on the way  *)
(* to when it was lost may still be started.                                *)
(***************************************************************************)
EXTENDS Naturals, FiniteSets

CONSTANTS Host, Instances, Room     \* Instances \subseteq Host: the job's cluster

VARIABLES
    life,       \* "new", "queued", "taken", "done", "failed" or "gone"
    left,       \* the instances the job has still to come to
    busy        \* the instances at work on the job

rolloutVars == <<life, left, busy>>

RolloutInit == life = "new" /\ left = Instances /\ busy = {}

Publish == life = "new" /\ life' = "queued" /\ UNCHANGED <<left, busy>>

Take == life = "queued" /\ life' = "taken" /\ UNCHANGED <<left, busy>>

Start(h) ==
    /\ life \in {"taken", "gone"}
    /\ h \in left
    /\ Cardinality(busy) < Room
    /\ left' = left \ {h}
    /\ busy' = busy \cup {h}
    /\ UNCHANGED life

\* The instance is busy with a deploy of another job.
PassOver(h) ==
    /\ life \in {"taken", "gone"}
    /\ h \in left
    /\ left' = left \ {h}
    /\ UNCHANGED <<life, busy>>

Finish(h) ==
    /\ h \in busy
    /\ busy' = busy \ {h}
    /\ UNCHANGED <<life, left>>

EndsAs(how) == life' = how /\ left' = {}

Done == life = "taken" /\ left = {} /\ busy = {} /\ EndsAs("done") /\ UNCHANGED busy

\* The job fails before it came to any instance.
Fails ==
    /\ life = "taken" /\ left = Instances /\ busy = {}
    /\ EndsAs("failed") /\ UNCHANGED busy

\* Publishing fails: nobody will see the job.
Refused == life = "new" /\ EndsAs("gone") /\ UNCHANGED busy

\* Whoever works on the job dies, perhaps with an instance that was busy with it; what was
\* on the way to others may still arrive.
Lost ==
    /\ life = "taken"
    /\ life' = "gone"
    /\ left' \in SUBSET left
    /\ \E dead \in {{}} \cup {{h} : h \in Host} : busy' = busy \ dead

RolloutNext ==
    \/ Publish \/ Take \/ Done \/ Fails \/ Refused \/ Lost
    \/ \E h \in Host : Start(h) \/ PassOver(h) \/ Finish(h)

RolloutSpec == RolloutInit /\ [][RolloutNext]_rolloutVars
=============================================================================
