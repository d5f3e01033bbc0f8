------------------------------- MODULE Secrets -------------------------------
(***************************************************************************)
(* /secrets of the API: creating, updating and deleting a secret            *)
(* (api/api/secrets.go, api/secrets/secrets.go).  Each request is a         *)
(* sequence of calls to Google's Secret Manager, any of which may fail      *)
(* before or after it took effect; requests for one secret interleave call  *)
(* by call.  Secret Manager itself is not in the repository.  One secret is *)
(* modelled: requests for different ones share nothing.                     *)
(***************************************************************************)
EXTENDS Naturals

CONSTANTS
    Req,        \* the requests; a request's own name stands for the value it carries
    NoReq,
    Op,         \* [Req -> {"create", "update", "delete"}]
    MayChange,  \* [Req -> SUBSET Req]: the updates and deletes by the create's owner or group
    Faults      \* what may go wrong: "api" (a call to Secret Manager), "die", ...

ASSUME ReqAssumption ==
    /\ NoReq \notin Req
    /\ Op \in [Req -> {"create", "update", "delete"}]
    /\ MayChange \in [Req -> SUBSET Req]

VARIABLES
    secret,     \* the secret in Secret Manager, or NoSecret
    hpc,        \* [Req -> where the handler is]
    seen,       \* [Req -> the owner in the policy it read]
    answer      \* [Req -> "none", "ok" (200, 204) or "error" (403, 404, 409, 500,
                \* or a connection that ends without an answer)]

secretVars == <<secret, hpc, seen, answer>>

\* latest is the value of versions/latest, owner the request whose user and group the
\* policy names; creator is history.
NoSecret == [latest |-> NoReq, owner |-> NoReq, creator |-> NoReq]
Exists == secret # NoSecret

HandlerPC == {"none", "create", "version", "policy", "setpolicy", "authorize", "act", "done"}

SecretsTypeOK ==
    /\ secret \in [latest : Req \cup {NoReq}, owner : Req \cup {NoReq},
                   creator : Req \cup {NoReq}]
    /\ hpc \in [Req -> HandlerPC]
    /\ seen \in [Req -> Req \cup {NoReq}]
    /\ answer \in [Req -> {"none", "ok", "error"}]

SecretsInit ==
    /\ secret = NoSecret
    /\ hpc = [r \in Req |-> "none"]
    /\ seen = [r \in Req |-> NoReq]
    /\ answer = [r \in Req |-> "none"]

Goes(r, where) == hpc' = [hpc EXCEPT ![r] = where] /\ UNCHANGED <<seen, answer>>

Answers(r, status) ==
    /\ hpc' = [hpc EXCEPT ![r] = "done"]
    /\ answer' = [answer EXCEPT ![r] = status]
    /\ seen' = [seen EXCEPT ![r] = NoReq]

\* A call that fails: its change may have been made or not, and the handler answers.
CallFails(r, change, status) ==
    /\ "api" \in Faults
    /\ change \/ UNCHANGED secret
    /\ Answers(r, status)

\* ConfiguredHandlerSecrets picks the action; anyone may create.
Request(r) ==
    /\ hpc[r] = "none"
    /\ Goes(r, IF Op[r] = "create" THEN "create" ELSE "authorize")
    /\ UNCHANGED secret
-----------------------------------------------------------------------------
(* SecretsCreate: SecretCreate's two calls, then SecretIamSet's two. *)

CreateSecret(r) ==
    LET created == secret' = [NoSecret EXCEPT !.creator = r] IN
    /\ hpc[r] = "create"
    /\ \/ ~Exists /\ created /\ Goes(r, "version")
       \/ Exists /\ Answers(r, "error") /\ UNCHANGED secret
       \/ CallFails(r, ~Exists /\ created, "error")

AddsVersion(r) == Exists /\ secret' = [secret EXCEPT !.latest = r]

AddFirstVersion_Ignored(r) ==
    /\ hpc[r] = "version"
    /\ \/ AddsVersion(r) /\ Goes(r, "policy")
       \/ ~Exists /\ Answers(r, "error") /\ UNCHANGED secret
       \/ CallFails(r, AddsVersion(r), "ok")

\* Without its first version the secret stays behind, and the client gets a 500.
AddFirstVersion(r) ==
    /\ hpc[r] = "version"
    /\ \/ AddsVersion(r) /\ Goes(r, "policy")
       \/ ~Exists /\ Answers(r, "error") /\ UNCHANGED secret
       \/ CallFails(r, AddsVersion(r), "error")

\* Errors of SecretIamSet are logged: the answer is 200.
GetPolicy(r) ==
    /\ hpc[r] = "policy"
    /\ \/ /\ Exists
          /\ seen' = [seen EXCEPT ![r] = secret.owner]
          /\ hpc' = [hpc EXCEPT ![r] = "setpolicy"]
          /\ UNCHANGED answer
       \/ ~Exists /\ Answers(r, "ok")
       \/ CallFails(r, FALSE, "ok")
    /\ UNCHANGED secret

\* The policy's etag: it is refused if the policy is not the one that was read.
SetPolicy(r) ==
    LET own == Exists /\ secret.owner = seen[r] /\ secret' = [secret EXCEPT !.owner = r] IN
    /\ hpc[r] = "setpolicy"
    /\ \/ own /\ Answers(r, "ok")
       \/ ~(Exists /\ secret.owner = seen[r]) /\ Answers(r, "ok") /\ UNCHANGED secret
       \/ CallFails(r, own, "ok")
-----------------------------------------------------------------------------
Authorize_NoOwnerIsAnyone(r) ==
    /\ hpc[r] = "authorize"
    /\ \/ ~Exists /\ Answers(r, "error")
       \/ /\ Exists
          /\ IF secret.owner = NoReq \/ r \in MayChange[secret.owner]
             THEN Goes(r, "act") ELSE Answers(r, "error")
       \/ CallFails(r, FALSE, "error")
    /\ UNCHANGED secret

\* SecretIamGet: a policy that names no user and no group is nobody's.
OwnedBy(r) == secret.owner # NoReq /\ r \in MayChange[secret.owner]

\* SecretsAuthorizer reads the policy: only its owner, or one of its group, may go on.
Authorize(r) ==
    /\ hpc[r] = "authorize"
    /\ \/ ~Exists /\ Answers(r, "error")
       \/ /\ Exists
          /\ IF OwnedBy(r) THEN Goes(r, "act") ELSE Answers(r, "error")
       \/ CallFails(r, FALSE, "error")
    /\ UNCHANGED secret

\* SecretsUpdate.
UpdateSecret(r) ==
    /\ hpc[r] = "act" /\ Op[r] = "update"
    /\ \/ AddsVersion(r) /\ Answers(r, "ok")
       \/ ~Exists /\ Answers(r, "error") /\ UNCHANGED secret
       \/ CallFails(r, AddsVersion(r), "error")

\* SecretsDelete.
DeleteSecret(r) ==
    /\ hpc[r] = "act" /\ Op[r] = "delete"
    /\ \/ Exists /\ secret' = NoSecret /\ Answers(r, "ok")
       \/ ~Exists /\ Answers(r, "error") /\ UNCHANGED secret
       \/ CallFails(r, Exists /\ secret' = NoSecret, "error")

\* The API process dies with its requests half done, their clients see the connection break,
\* and systemd starts it again.
ApiDies ==
    LET open == {r \in Req : hpc[r] \notin {"none", "done"}} IN
    /\ "die" \in Faults
    /\ open # {}
    /\ hpc' = [r \in Req |-> IF r \in open THEN "done" ELSE hpc[r]]
    /\ answer' = [r \in Req |-> IF r \in open THEN "error" ELSE answer[r]]
    /\ seen' = [r \in Req |-> NoReq]
    /\ UNCHANGED secret

SecretsNext ==
    \/ \E r \in Req : \/ Request(r) \/ CreateSecret(r) \/ AddFirstVersion(r) \/ GetPolicy(r)
                      \/ SetPolicy(r) \/ Authorize(r) \/ UpdateSecret(r) \/ DeleteSecret(r)
    \/ ApiDies
-----------------------------------------------------------------------------
SecretsSpec == SecretsInit /\ [][SecretsNext]_secretVars
-----------------------------------------------------------------------------
OneDelete ==
    \A d, e \in Req :
        Op[d] = "delete" /\ Op[e] = "delete" /\ hpc[d] # "none" /\ hpc[e] # "none" => d = e

\* The owner of a secret is the one who created it, also when a secret is deleted and
\* created anew between the calls of the requests (SecretIamSet, SecretsAuthorizer): as
\* long as only one delete was requested, since the second of two that were authorized
\* for one secret finds the next.
OwnerIsCreator == OneDelete => secret.owner \in {NoReq, secret.creator}

\* A secret whose create was answered with 200 has a value as long as it is there
\* (SecretsCreate).
CreatedIsComplete ==
    \A r \in Req : Op[r] = "create" /\ answer[r] = "ok" /\ secret.creator = r =>
        secret.latest # NoReq
=============================================================================
