----------------------------- MODULE DeployCache -----------------------------
(***************************************************************************)
(* The daemon's map of deploys in flight (daemon/model/deploy.go).  Every   *)
(* method takes the cache's mutex, so every operation below is one step.    *)
(* GetDeploys, though, hands out the live map: its readers hold no lock,    *)
(* and a runner that ranges over it sees the insertions and deletions made  *)
(* meanwhile.  iter is what such an iteration is still certain to produce.  *)
(*                                                                         *)
(* Time stamps are kept as ages, in seconds, that stop one past the         *)
(* threshold they are compared with: the code only ever subtracts them      *)
(* from now.  A key that is not in the map reads as the zero Deploy.        *)
(***************************************************************************)
EXTENDS Naturals, Apps

CONSTANTS
    StaleDeployCompletedS,
    StaleDeployRequestedS

ASSUME StaleAssumption ==
    /\ StaleDeployCompletedS \in Nat
    /\ StaleDeployRequestedS \in Nat

VARIABLES
    deploys,                \* [App -> Deploy]
    iter                    \* apps an iteration in progress must still produce

cacheVars == <<deploys, iter>>

\* StartedAt and CompletedAt are only tested against zero: stage records which are set.
Deploy ==
    [version      : MaybeVersion,
     stage        : {"absent", "requested", "started", "completed"},
     err          : {"nil", "failed"},
     requestedAgo : 0..(StaleDeployRequestedS + 1),
     completedAgo : 0..(StaleDeployCompletedS + 1)]

ZeroDeploy == [version |-> NoVersion, stage |-> "absent", err |-> "nil",
               requestedAgo |-> 0, completedAgo |-> 0]

CacheTypeOK ==
    /\ deploys \in [App -> Deploy]
    /\ iter \in SUBSET App

EmptyMap == [a \in App |-> ZeroDeploy]

NewDeployCache == deploys = EmptyMap /\ iter = {}
CacheLost == deploys' = EmptyMap /\ iter' = {}

Present(a) == deploys[a].stage # "absent"
Completed(a) == deploys[a].stage = "completed"
-----------------------------------------------------------------------------
NewDeploy(v) == [version |-> v, stage |-> "requested", err |-> "nil",
                 requestedAgo |-> 0, completedAgo |-> 0]

AddDeploy_Overwrites(a, v) ==
    /\ deploys' = [deploys EXCEPT ![a] = NewDeploy(v)]
    /\ iter' = iter

\* Inserts only where there is no entry; the caller's failure branch is the negated guard.
AddDeploy(a, v) ==
    /\ ~Present(a)
    /\ deploys' = [deploys EXCEPT ![a] = NewDeploy(v)]
    /\ iter' = iter

StartedDeploy(d) ==
    [d EXCEPT !.stage = IF @ = "requested" THEN "started" ELSE @]

MarkDeployStart(a) == deploys' = [deploys EXCEPT ![a] = StartedDeploy(@)]

CompletedDeploy(d, err) ==
    [version |-> d.version, stage |-> "completed", err |-> err,
     requestedAgo |-> d.requestedAgo, completedAgo |-> 0]

MarkDeployComplete_LosesErr(a, err) ==
    /\ \/ Present(a) /\ deploys' = [deploys EXCEPT ![a] = CompletedDeploy(@, "nil")]
       \/ ~Present(a) /\ deploys' = deploys
    /\ iter' = iter

\* Without an entry nothing happens but the caller's warning.
MarkDeployComplete(a, err) ==
    /\ \/ Present(a) /\ deploys' = [deploys EXCEPT ![a] = CompletedDeploy(@, err)]
       \/ ~Present(a) /\ deploys' = deploys
    /\ iter' = iter

\* Deletes whatever entry the app has: nothing ties it to the caller's own request.
DeleteDeploy(a) ==
    /\ deploys' = [deploys EXCEPT ![a] = ZeroDeploy]
    /\ iter' = iter \ {a}

Stale_AtThreshold(d) ==
    \/ d.stage = "completed" /\ d.completedAgo >= StaleDeployCompletedS
    \/ d.stage # "absent" /\ d.requestedAgo >= StaleDeployRequestedS

Stale(d) ==
    \/ d.stage = "completed" /\ d.completedAgo > StaleDeployCompletedS
    \/ d.stage # "absent" /\ d.requestedAgo > StaleDeployRequestedS

Cleaned == [a \in App |-> IF Stale(deploys[a]) THEN ZeroDeploy ELSE deploys[a]]

\* CleanDeploys, and the start of the caller's range over GetDeploys(): the keys in
\* the map then are produced unless deleted first, keys added later may or may not be.
CleanAndRange ==
    /\ deploys' = Cleaned
    /\ iter' = {a \in App : Cleaned[a].stage # "absent"}

Older(n, limit) == IF n > limit THEN n ELSE n + 1

OlderDeploy(d) ==
    [version |-> d.version, stage |-> d.stage, err |-> d.err,
     requestedAgo |-> Older(d.requestedAgo, StaleDeployRequestedS),
     completedAgo |-> IF d.stage = "completed"
                      THEN Older(d.completedAgo, StaleDeployCompletedS)
                      ELSE d.completedAgo]

\* One second passes for every entry.
AgeDeploys ==
    /\ deploys' = [a \in App |-> IF Present(a) THEN OlderDeploy(deploys[a]) ELSE deploys[a]]
    /\ iter' = iter
=============================================================================
