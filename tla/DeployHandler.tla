---------------------------- MODULE DeployHandler ----------------------------
(***************************************************************************)
(* The daemon's /deploy endpoint (daemon/api/deploy.go).  The HTTP handler  *)
(* starts a goroutine that runs Deploy() and waits for its result or for    *)
(* the request's deadline, and then goes away; the goroutine does not.      *)
(* Deploy() adds the request to the deploy cache, polls the cache until the *)
(* runner has completed it, then polls the status cache until the host      *)
(* reports the requested version or ConvergeTimeoutS is over, and deletes   *)
(* the app's entry on return.  The goroutine that polls the status cache    *)
(* outlives a timeout: nothing stops it but convergence.                    *)
(*                                                                         *)
(* A request slot stands for one HTTP request and its goroutine; it is      *)
(* used again once both have ended.                                         *)
(***************************************************************************)
EXTENDS DeployCache, StatusRunner

CONSTANTS
    Req,                \* request slots
    AppOf,              \* the app a slot's requests name
    PollS,              \* an upper bound of 0.05 * WriteTimeoutS, in whole seconds
    ConvergeTimeoutS

ASSUME ReqAssumption == AppOf \in [Req -> App]
ASSUME TimeoutAssumption == PollS \in Nat \ {0} /\ ConvergeTimeoutS \in Nat

VARIABLES
    http,       \* [Req -> {"none", "waiting"}]: the HTTP handler
    pc,         \* where the slot's Deploy() is
    version,    \* its parameter
    result,     \* DeployResult.Code, 0 before there is one
    waited,     \* seconds since its last look at the deploy cache, or since it
                \* began to wait for convergence
    probes      \* what the abandoned convergence goroutines wait for: <<app, version>>

handlerVars == <<http, pc, version, result, waited, probes>>

DeployPC == {"idle", "add", "poll", "converge", "return", "sent"}
Code == {0, 200, 408, 429, 500}

HandlerTypeOK ==
    /\ http \in [Req -> {"none", "waiting"}]
    /\ pc \in [Req -> DeployPC]
    /\ version \in [Req -> MaybeVersion]
    /\ result \in [Req -> Code]
    /\ waited \in [Req -> Nat]
    /\ probes \in SUBSET (App \X MaybeVersion)

HandlerInit ==
    /\ http = [r \in Req |-> "none"]
    /\ pc = [r \in Req |-> "idle"]
    /\ version = [r \in Req |-> NoVersion]
    /\ result = [r \in Req |-> 0]
    /\ waited = [r \in Req |-> 0]
    /\ probes = {}

HandlerLost ==
    /\ http' = [r \in Req |-> "none"]
    /\ pc' = [r \in Req |-> "idle"]
    /\ version' = [r \in Req |-> NoVersion]
    /\ result' = [r \in Req |-> 0]
    /\ waited' = [r \in Req |-> 0]
    /\ probes' = {}
-----------------------------------------------------------------------------
\* GET /deploy?app=AppOf[r]&version=v; with either one empty the handler answers 400 and is done.
Request(r, v) ==
    /\ http[r] = "none"
    /\ pc[r] = "idle"
    /\ http' = [http EXCEPT ![r] = "waiting"]
    /\ pc' = [pc EXCEPT ![r] = "add"]
    /\ version' = [version EXCEPT ![r] = v]
    /\ UNCHANGED <<result, waited, probes>> /\ UNCHANGED cacheVars

Send(r, code) ==
    /\ pc' = [pc EXCEPT ![r] = "sent"]
    /\ result' = [result EXCEPT ![r] = code]

\* Deploy() inserts its entry, or returns 429 without one to delete.
Add(r) ==
    /\ pc[r] = "add"
    /\ \/ /\ AddDeploy(AppOf[r], version[r])
          /\ pc' = [pc EXCEPT ![r] = "poll"]
          /\ waited' = [waited EXCEPT ![r] = 0]
          /\ UNCHANGED result
       \/ /\ Present(AppOf[r])
          /\ Send(r, 429)
          /\ UNCHANGED waited /\ UNCHANGED cacheVars
    /\ UNCHANGED <<http, version, probes>>

ReturnWith(r, code) ==
    /\ pc' = [pc EXCEPT ![r] = "return"]
    /\ result' = [result EXCEPT ![r] = code]

\* A look at the live map that finds the entry completed.  An unparsable version is
\* never waited for: it has not converged.
PollCompleted(r) ==
    /\ pc[r] = "poll"
    /\ Completed(AppOf[r])
    /\ \/ /\ deploys[AppOf[r]].err # "nil"
          /\ ReturnWith(r, 500)
       \/ /\ deploys[AppOf[r]].err = "nil"
          /\ Parsed[version[r]] = Unparsable
          /\ ReturnWith(r, 408)
       \/ /\ deploys[AppOf[r]].err = "nil"
          /\ Parsed[version[r]] # Unparsable
          /\ pc' = [pc EXCEPT ![r] = "converge"]
          /\ UNCHANGED result
    /\ waited' = [waited EXCEPT ![r] = 0]
    /\ UNCHANGED <<http, version, probes>> /\ UNCHANGED cacheVars

\* A look that finds it uncompleted, or finds no entry at all and reads the zero Deploy.
PollAgain(r) ==
    /\ pc[r] = "poll"
    /\ ~Completed(AppOf[r])
    /\ waited' = [waited EXCEPT ![r] = 0]
    /\ UNCHANGED <<http, pc, version, result, probes>> /\ UNCHANGED cacheVars

\* The status cache is looked at every second, the first time after one second.
LooksAtStatus(r) == pc[r] = "converge" /\ waited[r] >= 1

\* *installedVersion == requestedVersion && *runningVersion == requestedVersion
Converged(a, v) ==
    /\ statuses[a].known = "yes"
    /\ statuses[a].installed = Parsed[v]
    /\ statuses[a].running = Parsed[v]

ConvergeSucceeds(r) ==
    /\ LooksAtStatus(r)
    /\ Converged(AppOf[r], version[r])
    /\ ReturnWith(r, 200)
    /\ waited' = [waited EXCEPT ![r] = 0]
    /\ UNCHANGED <<http, version, probes>> /\ UNCHANGED cacheVars

ConvergeTimesOut_IfRunning(r) ==
    /\ pc[r] = "converge"
    /\ waited[r] >= ConvergeTimeoutS
    /\ running[AppOf[r]] # NoVersion
    /\ ReturnWith(r, 408)
    /\ probes' = probes \cup {<<AppOf[r], version[r]>>}
    /\ waited' = [waited EXCEPT ![r] = 0]
    /\ UNCHANGED <<http, version>> /\ UNCHANGED cacheVars

ConvergeTimesOut(r) ==
    /\ pc[r] = "converge"
    /\ waited[r] >= ConvergeTimeoutS
    /\ ReturnWith(r, 408)
    /\ probes' = probes \cup {<<AppOf[r], version[r]>>}
    /\ waited' = [waited EXCEPT ![r] = 0]
    /\ UNCHANGED <<http, version>> /\ UNCHANGED cacheVars

\* An abandoned goroutine sees convergence at last; its channel has room for the answer.
ProbeEnds(p) ==
    /\ p \in probes
    /\ Converged(p[1], p[2])
    /\ probes' = probes \ {p}
    /\ UNCHANGED <<http, pc, version, result, waited>> /\ UNCHANGED cacheVars

\* A status cache without the app has nil version pointers, and a goroutine that
\* waits for convergence dereferences them: the daemon dies (see Controld).
Dereferences(a) ==
    /\ statuses[a].known = "no"
    /\ \/ \E r \in Req : LooksAtStatus(r) /\ AppOf[r] = a
       \/ \E p \in probes : p[1] = a

Return_KeepsFailed(r) ==
    /\ pc[r] = "return"
    /\ IF result[r] = 500 THEN UNCHANGED cacheVars ELSE DeleteDeploy(AppOf[r])
    /\ pc' = [pc EXCEPT ![r] = "sent"]
    /\ UNCHANGED <<http, version, result, waited, probes>>

\* The deferred DeleteDeploy(app).
Return(r) ==
    /\ pc[r] = "return"
    /\ DeleteDeploy(AppOf[r])
    /\ pc' = [pc EXCEPT ![r] = "sent"]
    /\ UNCHANGED <<http, version, result, waited, probes>>

\* The result is in the channel, which has room for it whether or not anyone is left
\* to receive it.
GoroutineEnds(r) ==
    /\ pc[r] = "sent"
    /\ pc' = [pc EXCEPT ![r] = "idle"]
    /\ http' = [http EXCEPT ![r] = "none"]
    /\ version' = [version EXCEPT ![r] = NoVersion]
    /\ result' = [result EXCEPT ![r] = 0]
    /\ UNCHANGED <<waited, probes>> /\ UNCHANGED cacheVars

\* The deadline of WriteTimeoutS passes (408) or the client goes away (500).
HttpTimeout(r) ==
    /\ http[r] = "waiting"
    /\ http' = [http EXCEPT ![r] = "none"]
    /\ UNCHANGED <<pc, version, result, waited, probes>> /\ UNCHANGED cacheVars

HandlerStep(r) ==
    \/ Add(r) \/ PollCompleted(r) \/ PollAgain(r) \/ ConvergeSucceeds(r)
    \/ ConvergeTimesOut(r) \/ Return(r) \/ GoroutineEnds(r)

HandlerNext ==
    \/ \E r \in Req : HandlerStep(r) \/ HttpTimeout(r)
    \/ \E r \in Req, v \in Version : Request(r, v)
    \/ \E p \in probes : ProbeEnds(p)
=============================================================================
