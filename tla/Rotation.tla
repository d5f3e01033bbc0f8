------------------------------- MODULE Rotation -------------------------------
(***************************************************************************)
(* The daemon as the load balancer sees it: Controld with the health        *)
(* results of its status polls and the answer of /healthz                   *)
(* (daemon/runners/status.go, daemon/runners/oor.go,                        *)
(* daemon/clients/healthz/healthz.go, daemon/api/healthz.go).  For each     *)
(* listed app a poll looks for the .oor marker, then asks the app's health  *)
(* ports, then asks for its version; /healthz answers from the last poll    *)
(* that was published, never from the host.                                 *)
(*                                                                         *)
(* markerFor, serviceFor, fresh, missed, unlisted and left are history      *)
(* variables: no action depends on them.                                    *)
(***************************************************************************)
EXTENDS Controld

CONSTANT Monitored      \* apps of type Online that have a health port

ASSUME MonitoredAssumption == Monitored \subseteq App

VARIABLES
    health,         \* the results in the status cache, for all ports of an app
    snapHealth,     \* those of the poll in progress
    check,          \* how far runHealthChecks is: "in" and "out" are what isOOR said
    markerFor,      \* seconds since the .oor marker of an app came or went
    serviceFor,     \* seconds since an app's service came up or went away
    fresh,          \* whether the daemon's last poll was published
    missed,         \* apps the listing of the poll in progress was cut short of
    unlisted,       \* those of the last poll that was published
    left            \* apps whose .oor marker a daemon that died has left behind

healthVars == <<health, snapHealth, check>>
pastVars == <<markerFor, serviceFor, fresh, missed, unlisted, left>>
rvars == <<vars, healthVars, pastVars>>

\* "none": no results, because the app is not in the map or has no port to check.
Health == {"none", "up", "down"}
NoHealth == [a \in App |-> "none"]

\* Two polls: a result may be as old as that, and no longer time is told apart.
TwoPollsS == 2 * StatusPeriodS

RotationTypeOK ==
    /\ health \in [App -> Health]
    /\ snapHealth \in [App -> Health]
    /\ check \in [App -> {"todo", "in", "out", "done"}]
    /\ markerFor \in [App -> 0..(TwoPollsS + 1)]
    /\ serviceFor \in [App -> 0..(TwoPollsS + 1)]
    /\ fresh \in BOOLEAN
    /\ missed \in SUBSET App
    /\ unlisted \in SUBSET App
    /\ left \in SUBSET App

NothingChecked ==
    /\ health' = NoHealth
    /\ snapHealth' = NoHealth
    /\ check' = [a \in App |-> "done"]

RotationInit ==
    /\ Init
    /\ health = NoHealth
    /\ snapHealth = NoHealth
    /\ check = [a \in App |-> "done"]
    /\ markerFor = [a \in App |-> TwoPollsS + 1]
    /\ serviceFor = [a \in App |-> TwoPollsS + 1]
    /\ fresh = FALSE
    /\ missed = {}
    /\ unlisted = {}
    /\ left = {}
-----------------------------------------------------------------------------
(* What the history variables remember of a step *)

Serving(a) == running[a] # NoVersion

Remember ==
    /\ markerFor' = [a \in App |-> IF (a \in oor) = (a \in oor') THEN markerFor[a] ELSE 0]
    /\ serviceFor' = [a \in App |-> IF Serving(a) = Serving(a)' THEN serviceFor[a] ELSE 0]
    /\ left' = left \cap oor'

SecondPasses ==
    /\ markerFor' = [a \in App |-> Older(markerFor[a], TwoPollsS)]
    /\ serviceFor' = [a \in App |-> Older(serviceFor[a], TwoPollsS)]
    /\ UNCHANGED <<fresh, missed, unlisted, left>>
-----------------------------------------------------------------------------
(* A poll of the status runner, health checks included *)

\* The loop of GetStatuses has one app at a time in hand.
InHand == {a \in toProbe : check[a] # "todo"}

\* getInstalledVersions: the apps to check, or an error that leaves the results alone.
List ==
    /\ \/ /\ ListInstalled
          /\ snapHealth' = NoHealth
          /\ check' = [a \in App |-> IF a \in toProbe' THEN "todo" ELSE "done"]
          /\ missed' = Listed \ toProbe'
          /\ UNCHANGED fresh
       \/ /\ ListFails
          /\ fresh' = FALSE
          /\ UNCHANGED <<snapHealth, check, missed>>
    /\ UNCHANGED <<health, markerFor, serviceFor, unlisted, left>>

BeginChecks_Sticky(a) ==
    /\ spc = "polling"
    /\ InHand = {}
    /\ a \in toProbe
    /\ check' = [check EXCEPT ![a] = IF a \notin Monitored THEN "done"
                                     ELSE IF a \in oor \/ health[a] = "down" THEN "out" ELSE "in"]
    /\ UNCHANGED <<health, snapHealth>> /\ UNCHANGED statusVars

\* runHealthChecks: no results for an app that is not Online or has no ports; else isOOR,
\* once for all the ports and before any of them is asked.
BeginChecks(a) ==
    /\ spc = "polling"
    /\ InHand = {}
    /\ a \in toProbe
    /\ check' = [check EXCEPT ![a] = IF a \notin Monitored THEN "done"
                                     ELSE IF a \in oor THEN "out" ELSE "in"]
    /\ UNCHANGED <<health, snapHealth>> /\ UNCHANGED statusVars

CheckPorts_NoMarker(a) ==
    /\ check[a] \in {"in", "out"}
    /\ \E ok \in {Serving(a)} \cup (IF "varz" \in Faults THEN {FALSE} ELSE {}) :
          snapHealth' = [snapHealth EXCEPT ![a] = IF ok THEN "up" ELSE "down"]
    /\ check' = [check EXCEPT ![a] = "done"]
    /\ UNCHANGED health /\ UNCHANGED statusVars

\* healthz.Check on every port, overridden by the marker: an app is up when all of its
\* ports are.  A port that cannot be asked or does not say OK is not healthy ("varz":
\* a service may not answer).
CheckPorts(a) ==
    /\ check[a] \in {"in", "out"}
    /\ \E ok \in {Serving(a)} \cup (IF "varz" \in Faults THEN {FALSE} ELSE {}) :
          snapHealth' = [snapHealth EXCEPT ![a] =
                            IF ok /\ check[a] = "in" THEN "up" ELSE "down"]
    /\ check' = [check EXCEPT ![a] = "done"]
    /\ UNCHANGED health /\ UNCHANGED statusVars

ProbeVersion(a) ==
    /\ check[a] = "done"
    /\ ProbeRunning(a)
    /\ UNCHANGED healthVars

\* One write of the cache replaces versions and health together.
PublishPoll ==
    /\ Publish
    /\ health' = snapHealth
    /\ snapHealth' = NoHealth
    /\ fresh' = TRUE
    /\ unlisted' = missed
    /\ missed' = {}
    /\ UNCHANGED <<check, markerFor, serviceFor, left>>

Poll ==
    /\ UNCHANGED <<cacheVars, hostVars, runnerVars, handlerVars>>
    /\ \/ List \/ PublishPoll
       \/ /\ \E a \in App : BeginChecks(a) \/ CheckPorts(a) \/ ProbeVersion(a)
          /\ UNCHANGED pastVars
    /\ UNCHANGED <<cacheVars, hostVars, runnerVars, handlerVars>>
-----------------------------------------------------------------------------
(* The rest of the daemon does not touch the health results *)

RunnerSteps == UNCHANGED <<healthVars, fresh, missed, unlisted>> /\ Runner /\ Remember

HandlerSteps == Handler /\ UNCHANGED <<healthVars, pastVars>>

ServiceSteps == Services /\ Remember /\ UNCHANGED <<healthVars, fresh, missed, unlisted>>

\* A daemon that starts has no results yet; the markers are where the dead one had them.
Reborn ==
    /\ Panic \/ Crash
    /\ NothingChecked
    /\ fresh' = FALSE
    /\ missed' = {}
    /\ unlisted' = {}
    /\ left' = oor
    /\ UNCHANGED <<markerFor, serviceFor>>

Second == Tick /\ SecondPasses /\ UNCHANGED healthVars

RotationNext ==
    RunnerSteps \/ HandlerSteps \/ Poll \/ ServiceSteps \/ Reborn \/ Second

RotationSpec == RotationInit /\ [][RotationNext]_rvars

\* The steps of the goroutines that time waits for, by the bounds in Tick.
Due ==
    \/ (since >= PhaseS \/ rpc \in {"range", "mark"}) /\ RunnerSteps
    \/ sincePoll >= StatusPeriodS /\ Poll
    \/ \E r \in Req :
          /\ Timed(r) => waited[r] >= Limit(r)
          /\ UNCHANGED <<hostVars, statusVars, runnerVars, healthVars, pastVars>>
          /\ HandlerStep(r)

\* The Go scheduler runs a goroutine whose time is up, and time passes.
RotationFairness == WF_rvars(Due) /\ SF_rvars(Second)

FairRotation == RotationSpec /\ RotationFairness
-----------------------------------------------------------------------------
(* Properties *)

\* The answer of /healthz?app=a: 200 or 400.
Up(a) == health[a] = "up"

\* /healthz says OK of an app no longer than two polls after its marker was set
\* (daemon/runners/deploy.go:61) or its service went away, whoever restarts in between:
\* the load balancer learns of a batch late, by at most that.  The marker and the ports
\* are read at two instants, and the answer is of neither.  Not so when polls fail: an
\* installed version that does not parse aborts them all, and the results stay as they are.
UpIsRecent ==
    fresh => \A a \in App : Up(a) =>
        /\ a \in oor => markerFor[a] <= TwoPollsS
        /\ ~Serving(a) => serviceFor[a] <= TwoPollsS

\* And it does not keep a monitored app that serves and has no marker out of rotation for
\* longer than that, unless that poll's package list was cut short of the app: the poll is
\* published all the same (daemon/runners/status.go:109-110, 145).  An app that was just
\* installed is no exception.  For apps that answer while they run.
DownIsRecent ==
    fresh /\ "varz" \notin Faults =>
        \A a \in Monitored \ unlisted : ~Up(a) /\ a \notin oor /\ Serving(a) =>
            markerFor[a] <= TwoPollsS \/ serviceFor[a] <= TwoPollsS

\* The batch at work has set the marker of a and has not reached it to take it away.
BatchHasMarked(a) ==
    /\ a \in Targeted
    /\ rpc \in BatchPC \ {"mark"}
    /\ rpc = "setOOR" => a \notin pending
    /\ rpc = "unsetOOR" => a \in pending

\* A marker is there because the batch at work has set it, or because a daemon died in
\* the middle of one (daemon/runners/deploy.go:61-81): nothing else takes an app out of
\* rotation, and only a later deploy of the same app takes that marker away.  For hosts
\* where touch and rm do not fail.
MarkersAreAccountedFor ==
    "sudo" \notin Faults =>
        \A a \in oor \ left : BatchHasMarked(a)
-----------------------------------------------------------------------------
(* The inductive invariant: what makes UpIsRecent and DownIsRecent hold.     *)

\* Marker and service, where they contradict the result, have done so for s seconds at most.
UpSince(a, s) ==
    /\ a \in oor => markerFor[a] <= s
    /\ ~Serving(a) => serviceFor[a] <= s

DownSince(a, s) ==
    "varz" \notin Faults /\ a \in Monitored /\ a \notin oor /\ Serving(a) =>
        markerFor[a] <= s \/ serviceFor[a] <= s

\* The checks go with the poll: each listed app once, and all of them before it ends.
ChecksInOrder ==
    /\ spc = "idle" => toProbe = {}
    /\ \A a \in App : /\ check[a] # "done" => a \in toProbe
                      /\ check[a] \in {"in", "out"} => a \in Monitored
    /\ \A a \in App : Serving(a) => installed[a] # NoVersion

\* What the poll in progress has seen is no older than the poll before it ...
SeenIsRecent ==
    spc = "polling" => \A a \in App :
        /\ check[a] = "in" /\ a \in oor => markerFor[a] <= sincePoll
        /\ check[a] = "out" /\ a \notin oor => markerFor[a] <= sincePoll
        /\ snapHealth[a] = "up" => check[a] = "done" /\ UpSince(a, sincePoll)
        /\ snapHealth[a] # "up" /\ check[a] = "done" /\ a \notin missed => DownSince(a, sincePoll)

\* ... and what was published last is older by the time since.
PublishedIsRecent ==
    fresh => \A a \in App :
        IF Up(a) THEN UpSince(a, StatusPeriodS + sincePoll)
                 ELSE a \notin unlisted => DownSince(a, StatusPeriodS + sincePoll)

HealthInv ==
    /\ RotationTypeOK
    /\ ChecksInOrder
    /\ SeenIsRecent
    /\ PublishedIsRecent
=============================================================================
