---------------------------- MODULE RotationProofs ----------------------------
(***************************************************************************)
(* Proofs about Rotation, for every set of apps and every bound, timely or  *)
(* not: what /healthz says is at most two polls old, and every .oor marker  *)
(* is accounted for.                                                        *)
(***************************************************************************)
EXTENDS Rotation, ControldProofs

USE MonitoredAssumption, PeriodAssumption, VersionAssumption

\* A step of Rotation is one of Controld, or one that only the health results see.
LEMMA StepsOfControld == [RotationNext]_rvars => [Next]_vars
  <1> SUFFICES ASSUME [RotationNext]_rvars PROVE [Next]_vars
    OBVIOUS
  <1>1. CASE Poll
    <2>1. CASE List
      BY <1>1, <2>1 DEF Poll, List, StatusPoll, StatusNext, Next
    <2>2. CASE PublishPoll
      BY <1>1, <2>2 DEF Poll, PublishPoll, StatusPoll, StatusNext, Next
    <2>3. ASSUME NEW a \in App, BeginChecks(a) PROVE [Next]_vars
      BY <1>1, <2>3 DEF Poll, BeginChecks, vars, statusVars, cacheVars, hostVars, runnerVars,
         handlerVars
    <2>4. ASSUME NEW a \in App, CheckPorts(a) PROVE [Next]_vars
      BY <1>1, <2>4 DEF Poll, CheckPorts, vars, statusVars, cacheVars, hostVars, runnerVars,
         handlerVars
    <2>5. ASSUME NEW a \in App, ProbeVersion(a) PROVE [Next]_vars
      BY <1>1, <2>5 DEF Poll, ProbeVersion, StatusPoll, StatusNext, Next
    <2> QED BY <1>1, <2>1, <2>2, <2>3, <2>4, <2>5 DEF Poll
  <1>2. CASE RunnerSteps
    BY <1>2 DEF RunnerSteps, Next
  <1>3. CASE HandlerSteps
    BY <1>3 DEF HandlerSteps, Next
  <1>4. CASE ServiceSteps
    BY <1>4 DEF ServiceSteps, Next
  <1>5. CASE Reborn
    BY <1>5 DEF Reborn, Next
  <1>6. CASE Second
    BY <1>6 DEF Second, Next
  <1>7. CASE UNCHANGED rvars
    BY <1>7 DEF rvars
  <1> QED BY <1>1, <1>2, <1>3, <1>4, <1>5, <1>6, <1>7 DEF RotationNext

\* The daemon with its health results is still the daemon of Controld, so that all that is
\* proved of Controld holds of it.
THEOREM RefinesControld == RotationSpec => Spec
  <1>1. RotationInit => Init
    BY DEF RotationInit
  <1> QED BY <1>1, StepsOfControld, PTL DEF RotationSpec, Spec
-----------------------------------------------------------------------------
(* The .oor markers *)

\* What BatchHasMarked needs of the loop that sets the markers.
MarkersInv ==
    /\ MarkersAreAccountedFor
    /\ rpc = "setOOR" => pending \subseteq Targeted

LEMMA MarkersInit == RotationInit => MarkersInv
  BY DEF RotationInit, Init, HostInit, RunnerInit, MarkersInv, MarkersAreAccountedFor

\* A marker that a step of the runner leaves there or sets is the batch's, unless it was
\* there before and was not the batch's then.
LEMMA MarkersOfRunner ==
  ASSUME TypeOK, RunnerNext, rpc = "setOOR" => pending \subseteq Targeted
  PROVE  /\ rpc' = "setOOR" => pending' \subseteq Targeted'
         /\ "sudo" \notin Faults =>
               \A a \in oor' : (a \in oor /\ ~BatchHasMarked(a)) \/ BatchHasMarked(a)'
  <1> USE DEF RunnerPC, BatchPC, hostVars, RunnerNext, BatchHasMarked, Targeted
  <1>1. ASSUME NEW b \in App, SetOOR(b)
        PROVE  /\ rpc' = "setOOR" => pending' \subseteq Targeted'
               /\ "sudo" \notin Faults =>
                     \A a \in oor' : (a \in oor /\ ~BatchHasMarked(a)) \/ BatchHasMarked(a)'
    BY <1>1 DEF SetOOR, TouchOOR, Done
  <1>2. ASSUME NEW b \in App, UnsetOOR(b)
        PROVE  /\ rpc' # "setOOR"
               /\ "sudo" \notin Faults =>
                     \A a \in oor' : (a \in oor /\ ~BatchHasMarked(a)) \/ BatchHasMarked(a)'
    BY <1>2 DEF UnsetOOR, Unmarked, RemoveOOR, Done
  <1>3. CASE StartLap \/ RangeEnds \/ EndLap
    BY <1>3 DEF StartLap, RangeEnds, EndLap
  <1>4. CASE AptUpdate \/ AptInstall \/ ConfigsEnd \/ SystemdReload
    BY <1>4 DEF AptUpdate, AptInstall, InstallPackages, ConfigsEnd, SystemdReload, Fail
  <1>5. CASE SystemdRestart
    BY <1>5 DEF SystemdRestart, RestartServices, Fail
  <1>6. ASSUME NEW b \in App, RangeOver(b) \/ PullAndMergeConfig(b) \/ MarkTarget(b)
        PROVE  /\ rpc' # "setOOR"
               /\ oor' = oor
               /\ \A a \in oor : BatchHasMarked(a) => BatchHasMarked(a)'
    BY <1>6 DEF RangeOver, PullAndMergeConfig, WriteConfig, Fail, MarkTarget
  <1> QED BY <1>1, <1>2, <1>3, <1>4, <1>5, <1>6

LEMMA MarkersStep == TypeOK /\ MarkersInv /\ [RotationNext]_rvars => MarkersInv'
  <1> SUFFICES ASSUME TypeOK, MarkersInv, [RotationNext]_rvars PROVE MarkersInv'
    OBVIOUS
  <1> USE DEF MarkersInv, MarkersAreAccountedFor
  <1>2. CASE RunnerSteps
    BY <1>2, MarkersOfRunner DEF RunnerSteps, Runner, Remember
  <1>m. ASSUME UNCHANGED <<rpc, targets, pending, oor, left>> PROVE MarkersInv'
    BY <1>m DEF BatchHasMarked, Targeted
  <1>3. CASE ServiceSteps
    <2>1. UNCHANGED <<rpc, targets, pending, oor>> /\ left' = left \cap oor
      BY <1>3 DEF ServiceSteps, Services, HostNext, ServiceExits, ServiceComesUp, Remember,
         runnerVars
    <2> QED BY <2>1 DEF BatchHasMarked, Targeted
  <1>4. CASE Reborn
    BY <1>4 DEF Reborn, Panic, Crash, Restart, RunnerLost, hostVars
  <1>5. CASE Second
    BY <1>5, <1>m DEF Second, Tick, SecondPasses, hostVars
  <1>6. CASE HandlerSteps \/ UNCHANGED rvars
    BY <1>6, <1>m DEF HandlerSteps, Handler, rvars, vars, pastVars, hostVars, runnerVars
  <1>7. CASE Poll
    BY <1>7, <1>m DEF Poll, List, PublishPoll, pastVars, hostVars, runnerVars
  <1> QED BY <1>2, <1>3, <1>4, <1>5, <1>6, <1>7 DEF RotationNext

\* An app is out of rotation because a batch at work has taken it out, or because a daemon
\* that died in the middle of one has left its marker: nothing else leaves one behind.
THEOREM MarkersAlways == RotationSpec => []MarkersAreAccountedFor
  <1>1. RotationSpec => []TypeOK
    BY RefinesControld, Typed, PTL
  <1>2. MarkersInv => MarkersAreAccountedFor
    BY DEF MarkersInv
  <1> QED BY <1>1, <1>2, MarkersInit, MarkersStep, PTL DEF RotationSpec
-----------------------------------------------------------------------------
(* The health results *)

USE DEF UpSince, DownSince, TwoPollsS

LEMMA HealthStart == RotationInit => HealthInv
  <1> SUFFICES ASSUME RotationInit PROVE HealthInv
    OBVIOUS
  <1> USE DEF RotationInit
  <1>1. RotationTypeOK
    <2>1. TwoPollsS + 1 \in 0..(TwoPollsS + 1)
      OBVIOUS
    <2>2. /\ markerFor \in [App -> 0..(TwoPollsS + 1)]
          /\ serviceFor \in [App -> 0..(TwoPollsS + 1)]
      BY <2>1
    <2> QED BY <2>2 DEF RotationTypeOK, Health, NoHealth
  <1>2. ChecksInOrder
    BY DEF Init, StatusInit, HostInit, ChecksInOrder, Serving
  <1>3. SeenIsRecent /\ PublishedIsRecent
    BY DEF Init, StatusInit, SeenIsRecent, PublishedIsRecent
  <1> QED BY <1>1, <1>2, <1>3 DEF HealthInv

\* A version that runs is installed, whatever the runner and the services do.
LEMMA ServingIsInstalled ==
  ASSUME TypeOK, RunnerNext \/ HostNext, \A a \in App : Serving(a) => installed[a] # NoVersion
  PROVE  \A a \in App : Serving(a)' => installed'[a] # NoVersion
  <1> USE DEF Serving, TypeOK, HostTypeOK, RunnerTypeOK
  <1>1. CASE HostNext
    BY <1>1 DEF HostNext, ServiceExits, ServiceComesUp
  <1>2. CASE AptInstall
    BY <1>2 DEF AptInstall, InstallPackages, Targeted
  <1>3. CASE SystemdRestart
    BY <1>3 DEF SystemdRestart, RestartServices, Done
  <1>4. CASE StartLap \/ RangeEnds \/ AptUpdate \/ ConfigsEnd \/ SystemdReload \/ EndLap
    BY <1>4 DEF StartLap, RangeEnds, AptUpdate, ConfigsEnd, SystemdReload, EndLap, hostVars
  <1>5. ASSUME NEW b \in App, SetOOR(b) \/ UnsetOOR(b)
        PROVE  UNCHANGED <<installed, running>>
    BY <1>5 DEF SetOOR, TouchOOR, UnsetOOR, RemoveOOR
  <1>6. ASSUME NEW b \in App, RangeOver(b) \/ PullAndMergeConfig(b) \/ MarkTarget(b)
        PROVE  UNCHANGED <<installed, running>>
    BY <1>6 DEF RangeOver, PullAndMergeConfig, WriteConfig, MarkTarget, hostVars
  <1> QED BY <1>1, <1>2, <1>3, <1>4, <1>5, <1>6 DEF RunnerNext

\* A marker that comes or goes, or a service, has contradicted a result for no time yet.
LEMMA ChangesAreNew ==
  ASSUME RotationTypeOK, Remember, NEW a \in App, NEW s \in Nat
  PROVE  /\ UpSince(a, s) => UpSince(a, s)'
         /\ DownSince(a, s) => DownSince(a, s)'
         /\ (a \in oor => markerFor[a] <= s) => (a \in oor => markerFor[a] <= s)'
         /\ (a \notin oor => markerFor[a] <= s) => (a \notin oor => markerFor[a] <= s)'
  BY DEF RotationTypeOK, Remember, Serving

\* The steps that change the host and nothing of the polls.
LEMMA ChangesKeepHealth ==
  ASSUME TypeOK, HealthInv, Remember, RunnerNext \/ HostNext,
         UNCHANGED <<statusVars, healthVars, fresh, missed, unlisted>>
  PROVE  HealthInv'
  <1> USE DEF HealthInv
  <1>1. sincePoll \in Nat /\ StatusPeriodS + sincePoll \in Nat
    BY DEF TypeOK, StatusTypeOK
  <1>2. RotationTypeOK'
    BY DEF RotationTypeOK, Remember, healthVars
  <1>3. ChecksInOrder'
    BY ServingIsInstalled DEF ChecksInOrder, healthVars, statusVars
  <1>4. SeenIsRecent'
    BY <1>1, ChangesAreNew DEF SeenIsRecent, healthVars, statusVars
  <1>5. PublishedIsRecent'
    <2>1. ASSUME NEW a \in App
          PROVE  /\ UpSince(a, StatusPeriodS + sincePoll) => UpSince(a, StatusPeriodS + sincePoll)'
                 /\ DownSince(a, StatusPeriodS + sincePoll)
                        => DownSince(a, StatusPeriodS + sincePoll)'
      BY <1>1, ChangesAreNew DEF statusVars
    <2> QED BY <2>1 DEF PublishedIsRecent, Up, healthVars
  <1> QED BY <1>2, <1>3, <1>4, <1>5

LEMMA SecondKeepsHealth == TypeOK /\ HealthInv /\ Second => HealthInv'
  <1> SUFFICES ASSUME TypeOK, HealthInv, Second PROVE HealthInv'
    OBVIOUS
  <1> USE DEF HealthInv
  <1>1. /\ sincePoll \in Nat /\ sincePoll' = sincePoll + 1
        /\ UNCHANGED <<installed, running, oor, spc, toProbe, health, snapHealth, check>>
        /\ UNCHANGED <<fresh, missed, unlisted, left>>
        /\ \A a \in App : /\ markerFor'[a] = Older(markerFor[a], TwoPollsS)
                          /\ serviceFor'[a] = Older(serviceFor[a], TwoPollsS)
    BY DEF Second, Tick, SecondPasses, TypeOK, StatusTypeOK, hostVars, healthVars
  <1>2. RotationTypeOK'
    BY <1>1 DEF RotationTypeOK, Second, SecondPasses, Older
  <1>3. ChecksInOrder'
    BY <1>1 DEF ChecksInOrder, Serving
  <1>4. ASSUME NEW a \in App, NEW s \in Nat
        PROVE  /\ markerFor[a] <= s => markerFor'[a] <= s + 1
               /\ serviceFor[a] <= s => serviceFor'[a] <= s + 1
    BY <1>1 DEF Older, RotationTypeOK
  <1>5. SeenIsRecent'
    BY <1>1, <1>4 DEF SeenIsRecent, Serving
  <1>6. StatusPeriodS + sincePoll \in Nat /\ StatusPeriodS + sincePoll' = StatusPeriodS + sincePoll + 1
    BY <1>1
  <1>7. PublishedIsRecent'
    BY <1>1, <1>4, <1>6 DEF PublishedIsRecent, Serving, Up
  <1> QED BY <1>2, <1>3, <1>5, <1>7

LEMMA PollKeepsHealth == TypeOK /\ HealthInv /\ Poll => HealthInv'
  <1> SUFFICES ASSUME TypeOK, HealthInv, Poll PROVE HealthInv'
    OBVIOUS
  <1> USE DEF HealthInv, Health
  <1>1. UNCHANGED <<installed, running, oor>> /\ sincePoll \in 0..StatusPeriodS
    BY DEF Poll, hostVars, TypeOK, StatusTypeOK
  <1>2. CASE List
    <2>1. CASE ListInstalled
      <3>1. /\ spc' = "polling" /\ toProbe' \subseteq Listed /\ missed' = Listed \ toProbe'
            /\ UNCHANGED <<sincePoll, health, fresh, markerFor, serviceFor, unlisted, left>>
            /\ snapHealth' = NoHealth
            /\ check' = [a \in App |-> IF a \in toProbe' THEN "todo" ELSE "done"]
        BY <1>2, <2>1 DEF List, ListInstalled, ListFails, Done
      <3>2. RotationTypeOK'
        BY <3>1 DEF RotationTypeOK, NoHealth, Listed
      <3>3. ChecksInOrder'
        BY <1>1, <3>1 DEF ChecksInOrder, Serving, Listed
      <3>4. SeenIsRecent'
        BY <1>1, <3>1 DEF SeenIsRecent, NoHealth, ChecksInOrder, Listed, Serving
      <3>5. PublishedIsRecent'
        BY <1>1, <3>1 DEF PublishedIsRecent, Up, Serving
      <3> QED BY <3>2, <3>3, <3>4, <3>5
    <2>2. CASE ListFails
      <3>1. /\ spc = "idle" /\ fresh' = FALSE
            /\ UNCHANGED <<spc, toProbe, health, snapHealth, check, markerFor, serviceFor>>
            /\ UNCHANGED <<missed, unlisted, left>>
        BY <1>2, <2>2 DEF List, ListFails, ListInstalled
      <3> QED BY <1>1, <3>1 DEF RotationTypeOK, ChecksInOrder, SeenIsRecent, PublishedIsRecent,
                 Serving
    <2> QED BY <1>2, <2>1, <2>2 DEF List
  <1>3. CASE PublishPoll
    <2>1. /\ spc = "polling" /\ toProbe = {} /\ spc' = "idle" /\ toProbe' = {} /\ sincePoll' = 0
          /\ health' = snapHealth /\ snapHealth' = NoHealth /\ fresh' = TRUE
          /\ unlisted' = missed /\ missed' = {}
          /\ UNCHANGED <<check, markerFor, serviceFor, left>>
      BY <1>3 DEF PublishPoll, Publish
    <2>2. RotationTypeOK'
      BY <2>1 DEF RotationTypeOK, NoHealth
    <2>3. ChecksInOrder' /\ SeenIsRecent'
      BY <1>1, <2>1 DEF ChecksInOrder, SeenIsRecent, Serving
    <2>4. ASSUME NEW a \in App
          PROVE  IF Up(a)' THEN UpSince(a, StatusPeriodS + sincePoll)'
                           ELSE a \notin unlisted' => DownSince(a, StatusPeriodS + sincePoll)'
      <3>1. check[a] = "done"
        BY <2>1 DEF ChecksInOrder
      <3>2. IF snapHealth[a] = "up" THEN UpSince(a, sincePoll)
                                    ELSE a \notin missed => DownSince(a, sincePoll)
        BY <2>1, <3>1 DEF SeenIsRecent
      <3> QED BY <1>1, <2>1, <3>2 DEF Up, Serving, RotationTypeOK
    <2> QED BY <2>2, <2>3, <2>4 DEF PublishedIsRecent
  <1>4. ASSUME NEW b \in App, BeginChecks(b), UNCHANGED pastVars PROVE HealthInv'
    <2>1. /\ spc = "polling" /\ b \in toProbe /\ check[b] = "todo"
          /\ check' = [check EXCEPT ![b] = IF b \notin Monitored THEN "done"
                                           ELSE IF b \in oor THEN "out" ELSE "in"]
          /\ UNCHANGED <<spc, toProbe, sincePoll, health, snapHealth>> /\ UNCHANGED pastVars
      BY <1>4 DEF Poll, BeginChecks, InHand, statusVars
    <2> QED BY <1>1, <2>1 DEF RotationTypeOK, ChecksInOrder, SeenIsRecent, PublishedIsRecent, Up,
               Serving, pastVars
  <1>5. ASSUME NEW b \in App, CheckPorts(b), UNCHANGED pastVars PROVE HealthInv'
    <2>1. PICK ok \in {Serving(b)} \cup (IF "varz" \in Faults THEN {FALSE} ELSE {}) :
             snapHealth' = [snapHealth EXCEPT ![b] =
                               IF ok /\ check[b] = "in" THEN "up" ELSE "down"]
      BY <1>5 DEF CheckPorts
    <2>2. /\ check[b] \in {"in", "out"} /\ check' = [check EXCEPT ![b] = "done"]
          /\ UNCHANGED <<spc, toProbe, sincePoll, health>> /\ UNCHANGED pastVars
      BY <1>5 DEF CheckPorts, statusVars
    <2>3. RotationTypeOK' /\ ChecksInOrder' /\ PublishedIsRecent'
      BY <1>1, <2>1, <2>2 DEF RotationTypeOK, ChecksInOrder, PublishedIsRecent, Up, Serving, pastVars
    <2>4. ASSUME spc = "polling"
          PROVE  IF ok /\ check[b] = "in" THEN UpSince(b, sincePoll) ELSE DownSince(b, sincePoll)
      BY <2>1, <2>2, <2>4 DEF SeenIsRecent, RotationTypeOK
    <2>5. SeenIsRecent'
      BY <1>1, <2>1, <2>2, <2>4 DEF SeenIsRecent, RotationTypeOK, Serving, pastVars
    <2> QED BY <2>3, <2>5
  <1>6. ASSUME NEW b \in App, ProbeVersion(b), UNCHANGED pastVars PROVE HealthInv'
    <2>1. /\ spc = "polling" /\ check[b] = "done" /\ toProbe' = toProbe \ {b}
          /\ UNCHANGED <<spc, sincePoll>> /\ UNCHANGED <<healthVars, pastVars>>
      BY <1>6 DEF ProbeVersion, ProbeRunning
    <2> QED BY <1>1, <2>1 DEF RotationTypeOK, ChecksInOrder, SeenIsRecent, PublishedIsRecent, Up,
               Serving, healthVars, pastVars
  <1> QED BY <1>2, <1>3, <1>4, <1>5, <1>6 DEF Poll

LEMMA HealthStep == TypeOK /\ HealthInv /\ [RotationNext]_rvars => HealthInv'
  <1> SUFFICES ASSUME TypeOK, HealthInv, [RotationNext]_rvars PROVE HealthInv'
    OBVIOUS
  <1>1. CASE RunnerSteps
    BY <1>1, ChangesKeepHealth DEF RunnerSteps, Runner
  <1>2. CASE ServiceSteps
    BY <1>2, ChangesKeepHealth DEF ServiceSteps, Services
  <1>3. CASE HandlerSteps \/ UNCHANGED rvars
    <2>1. UNCHANGED <<installed, running, oor, spc, toProbe, sincePoll>>
      BY <1>3 DEF HandlerSteps, Handler, rvars, vars, hostVars, statusVars
    <2>2. UNCHANGED <<health, snapHealth, check, markerFor, serviceFor, fresh, missed, unlisted, left>>
      BY <1>3 DEF HandlerSteps, rvars, healthVars, pastVars
    <2> QED BY <2>1, <2>2 DEF HealthInv, RotationTypeOK, ChecksInOrder, SeenIsRecent,
               PublishedIsRecent, Up, Serving
  <1>4. CASE Reborn
    <2>1. /\ UNCHANGED <<installed, running, oor, markerFor, serviceFor>> /\ left' = oor
          /\ spc' = "idle" /\ toProbe' = {} /\ fresh' = FALSE /\ missed' = {} /\ unlisted' = {}
          /\ health' = NoHealth /\ snapHealth' = NoHealth /\ check' = [a \in App |-> "done"]
      BY <1>4 DEF Reborn, Panic, Crash, Restart, StatusLost, hostVars, NothingChecked
    <2>2. RotationTypeOK'
      BY <2>1 DEF HealthInv, RotationTypeOK, Health, NoHealth, TypeOK, HostTypeOK
    <2>3. ChecksInOrder'
      BY <2>1 DEF HealthInv, ChecksInOrder, Serving
    <2> QED BY <2>1, <2>2, <2>3 DEF HealthInv, SeenIsRecent, PublishedIsRecent
  <1>5. CASE Second
    BY <1>5, SecondKeepsHealth
  <1>6. CASE Poll
    BY <1>6, PollKeepsHealth
  <1> QED BY <1>1, <1>2, <1>3, <1>4, <1>5, <1>6 DEF RotationNext

\* What the polls have seen is no older than a poll, what was published no older than two,
\* whatever fails and whenever the daemon dies, but for the apps a poll's list was cut
\* short of.
THEOREM HealthAlways == RotationSpec => []HealthInv
  <1>1. RotationSpec => []TypeOK
    BY RefinesControld, Typed, PTL
  <1> QED BY <1>1, HealthStart, HealthStep, PTL DEF RotationSpec

LEMMA HealthIsRecent == TypeOK /\ HealthInv => UpIsRecent /\ DownIsRecent
  <1> SUFFICES ASSUME TypeOK, HealthInv PROVE UpIsRecent /\ DownIsRecent
    OBVIOUS
  <1>1. sincePoll \in 0..StatusPeriodS
    BY DEF TypeOK, StatusTypeOK
  <1>2. \A a \in App : markerFor[a] \in Nat /\ serviceFor[a] \in Nat
    BY DEF HealthInv, RotationTypeOK
  <1> QED BY <1>1, <1>2 DEF HealthInv, PublishedIsRecent, UpIsRecent, DownIsRecent

\* /healthz says OK of an app that is out of rotation or dead for two polls at most.
THEOREM UpIsRecentAlways == RotationSpec => []UpIsRecent
  <1>1. RotationSpec => []TypeOK
    BY RefinesControld, Typed, PTL
  <1> QED BY <1>1, HealthAlways, HealthIsRecent, PTL

\* And it denies an app that is in rotation and serves for two polls at most, if the last
\* poll has listed it.
THEOREM DownIsRecentAlways == RotationSpec => []DownIsRecent
  <1>1. RotationSpec => []TypeOK
    BY RefinesControld, Typed, PTL
  <1> QED BY <1>1, HealthAlways, HealthIsRecent, PTL
=============================================================================
