---------------------------- MODULE SecretsProofs ----------------------------
(***************************************************************************)
(* Proofs about Secrets, for any requests and faults.                       *)
(*                                                                          *)
(* OwnerIsCreator: while a create is under way the secret is its own and    *)
(* has no owner yet (Underway), so no delete can have been authorized       *)
(* (Authorized), and nobody can take the secret away before the create      *)
(* writes its policy.                                                       *)
(* CreatedIsComplete: a create that got past its first version, or was      *)
(* answered with 200, left a value in its own secret (Valued).              *)
(***************************************************************************)
EXTENDS Secrets, TLAPS

Underway ==
    \A r \in Req : hpc[r] \in {"version", "policy", "setpolicy"} =>
        secret.creator = r /\ secret.owner = NoReq

Authorized == \A r \in Req : hpc[r] = "act" /\ Op[r] = "delete" => secret.owner # NoReq

OwnerInv == OneDelete => /\ Underway
                         /\ Authorized
                         /\ secret.owner \in {NoReq, secret.creator}

Answered == \A r \in Req : answer[r] # "none" => hpc[r] = "done"

Valued ==
    \A r \in Req :
        /\ hpc[r] \in {"policy", "setpolicy"} \/ (Op[r] = "create" /\ answer[r] = "ok")
        /\ secret.creator = r
        => secret.latest # NoReq

ValueInv == Answered /\ Valued

SecretsInv == SecretsTypeOK /\ OwnerInv /\ ValueInv
-----------------------------------------------------------------------------
\* Nothing has happened at first.
LEMMA SecretsInitially == SecretsInit => SecretsInv
<1> SUFFICES ASSUME SecretsInit PROVE SecretsInv
  OBVIOUS
<1> USE ReqAssumption DEF SecretsInit, NoSecret
<1>1. SecretsTypeOK
  BY DEF SecretsTypeOK, HandlerPC
<1>2. OwnerInv
  BY DEF OwnerInv, Underway, Authorized
<1>3. ValueInv
  BY DEF ValueInv, Answered, Valued
<1> QED
  BY <1>1, <1>2, <1>3 DEF SecretsInv

\* The step of one request is one of its actions.
RequestStep(r) ==
    \/ Request(r) \/ CreateSecret(r) \/ AddFirstVersion(r) \/ GetPolicy(r)
    \/ SetPolicy(r) \/ Authorize(r) \/ UpdateSecret(r) \/ DeleteSecret(r)

\* Requests are made once: what makes OneDelete hold after a step held before it.
LEMMA OneDeleteBefore ==
    ASSUME SecretsTypeOK, \/ \E r \in Req : RequestStep(r)
                          \/ ApiDies
                          \/ UNCHANGED secretVars,
           OneDelete'
    PROVE  OneDelete
<1>1. \A r \in Req : hpc[r] # "none" => hpc'[r] # "none"
  <2>1. ASSUME NEW q \in Req, RequestStep(q), NEW r \in Req, hpc[r] # "none"
        PROVE  hpc'[r] # "none"
    BY <2>1 DEF RequestStep, Request, CreateSecret, AddFirstVersion, GetPolicy, SetPolicy,
                Authorize, UpdateSecret, DeleteSecret, CallFails, Goes, Answers, SecretsTypeOK
  <2>2. CASE ApiDies
    BY <2>2 DEF ApiDies, SecretsTypeOK
  <2>3. CASE UNCHANGED secretVars
    BY <2>3 DEF secretVars
  <2> QED
    BY <2>1, <2>2, <2>3
<1> QED
  BY <1>1 DEF OneDelete

\* Every action of a request keeps the types.
LEMMA TypeStep ==
    ASSUME SecretsTypeOK, NEW q \in Req, RequestStep(q)
    PROVE  SecretsTypeOK'
<1> USE ReqAssumption DEF SecretsTypeOK, HandlerPC, Goes, Answers, CallFails, NoSecret
<1>1. CASE Request(q)
  BY <1>1 DEF Request
<1>2. CASE CreateSecret(q)
  BY <1>2 DEF CreateSecret
<1>3. CASE AddFirstVersion(q)
  BY <1>3 DEF AddFirstVersion, AddsVersion
<1>4. CASE GetPolicy(q)
  BY <1>4 DEF GetPolicy
<1>5. CASE SetPolicy(q)
  BY <1>5 DEF SetPolicy
<1>6. CASE Authorize(q)
  BY <1>6 DEF Authorize, OwnedBy
<1>7. CASE UpdateSecret(q)
  BY <1>7 DEF UpdateSecret, AddsVersion
<1>8. CASE DeleteSecret(q)
  BY <1>8 DEF DeleteSecret
<1> QED
  BY <1>1, <1>2, <1>3, <1>4, <1>5, <1>6, <1>7, <1>8 DEF RequestStep

\* With one delete no action of a request takes the secret from a create under way, or
\* lets another request be its owner.
LEMMA OwnerStep ==
    ASSUME SecretsTypeOK, SecretsTypeOK', OwnerInv, OneDelete, OneDelete',
           NEW q \in Req, RequestStep(q)
    PROVE  /\ Underway'
           /\ Authorized'
           /\ (secret.owner \in {NoReq, secret.creator})'
<1> USE ReqAssumption DEF SecretsTypeOK, HandlerPC, OwnerInv, Underway, Authorized, OneDelete,
                          Goes, Answers, CallFails, NoSecret, Exists
<1>1. CASE Request(q)
  BY <1>1 DEF Request
<1>2. CASE CreateSecret(q)
  BY <1>2 DEF CreateSecret
<1>3. CASE AddFirstVersion(q)
  BY <1>3 DEF AddFirstVersion, AddsVersion
<1>4. CASE GetPolicy(q)
  BY <1>4 DEF GetPolicy
<1>5. CASE SetPolicy(q)
  BY <1>5 DEF SetPolicy
<1>6. CASE Authorize(q)
  BY <1>6 DEF Authorize, OwnedBy
<1>7. CASE UpdateSecret(q)
  BY <1>7 DEF UpdateSecret, AddsVersion
<1>8. CASE DeleteSecret(q)
  BY <1>8 DEF DeleteSecret
<1> QED
  BY <1>1, <1>2, <1>3, <1>4, <1>5, <1>6, <1>7, <1>8 DEF RequestStep

\* No action of a request takes the value from a create that has added it.
LEMMA ValueStep ==
    ASSUME SecretsTypeOK, ValueInv, NEW q \in Req, RequestStep(q)
    PROVE  ValueInv'
<1> USE ReqAssumption DEF SecretsTypeOK, HandlerPC, ValueInv, Answered, Valued, Goes, Answers,
                          CallFails, NoSecret, Exists
<1>1. CASE Request(q)
  BY <1>1 DEF Request
<1>2. CASE CreateSecret(q)
  BY <1>2 DEF CreateSecret
<1>3. CASE AddFirstVersion(q)
  BY <1>3 DEF AddFirstVersion, AddsVersion
<1>4. CASE GetPolicy(q)
  BY <1>4 DEF GetPolicy
<1>5. CASE SetPolicy(q)
  BY <1>5 DEF SetPolicy
<1>6. CASE Authorize(q)
  BY <1>6 DEF Authorize, OwnedBy
<1>7. CASE UpdateSecret(q)
  BY <1>7 DEF UpdateSecret, AddsVersion
<1>8. CASE DeleteSecret(q)
  BY <1>8 DEF DeleteSecret
<1> QED
  BY <1>1, <1>2, <1>3, <1>4, <1>5, <1>6, <1>7, <1>8 DEF RequestStep

\* The death of the process changes no secret, and its requests are not heard of again.
LEMMA DeathStep ==
    ASSUME SecretsInv, ApiDies
    PROVE  /\ SecretsTypeOK'
           /\ OneDelete => Underway' /\ Authorized' /\ (secret.owner \in {NoReq, secret.creator})'
           /\ ValueInv'
<1> USE DEF ApiDies, SecretsInv
<1>1. SecretsTypeOK'
  BY DEF SecretsTypeOK, HandlerPC
<1>2. OneDelete => Underway' /\ Authorized' /\ (secret.owner \in {NoReq, secret.creator})'
  BY DEF OwnerInv, Underway, Authorized
<1>3. ValueInv'
  BY DEF ValueInv, Answered, Valued, SecretsTypeOK
<1> QED
  BY <1>1, <1>2, <1>3

\* Every step keeps the invariant.
LEMMA SecretsStep == SecretsInv /\ [SecretsNext]_secretVars => SecretsInv'
<1> SUFFICES ASSUME SecretsInv, [SecretsNext]_secretVars PROVE SecretsInv'
  OBVIOUS
<1>1. CASE \E r \in Req : RequestStep(r)
  <2>1. PICK q \in Req : RequestStep(q)
    BY <1>1
  <2>2. SecretsTypeOK'
    BY <2>1, TypeStep DEF SecretsInv
  <2>3. OwnerInv'
    <3>1. SUFFICES ASSUME OneDelete' PROVE OwnerInv'
      BY DEF OwnerInv
    <3>2. OneDelete
      BY <1>1, <3>1, OneDeleteBefore DEF SecretsInv
    <3> QED
      BY <2>1, <2>2, <3>1, <3>2, OwnerStep DEF SecretsInv, OwnerInv
  <2>4. ValueInv'
    BY <2>1, ValueStep DEF SecretsInv
  <2> QED
    BY <2>2, <2>3, <2>4 DEF SecretsInv
<1>2. CASE ApiDies
  <2>1. OneDelete' => OneDelete
    BY <1>2, OneDeleteBefore DEF SecretsInv
  <2> QED
    BY <1>2, <2>1, DeathStep DEF SecretsInv, OwnerInv
<1>3. CASE UNCHANGED secretVars
  BY <1>3 DEF SecretsInv, secretVars, SecretsTypeOK, OwnerInv, OneDelete, Underway, Authorized,
              ValueInv, Answered, Valued
<1> QED
  BY <1>1, <1>2, <1>3 DEF SecretsNext, RequestStep
-----------------------------------------------------------------------------
\* The inductive invariant holds for any requests on a secret and any faults.
THEOREM SecretsInvariant == SecretsSpec => []SecretsInv
BY SecretsInitially, SecretsStep, PTL DEF SecretsSpec

\* As long as one delete was requested, the owner of a secret is who created it, however
\* the calls interleave and whatever fails (SecretIamSet, SecretsAuthorizer).
THEOREM OwnerIsCreatorAlways == SecretsSpec => []OwnerIsCreator
<1>1. SecretsInv => OwnerIsCreator
  BY DEF SecretsInv, OwnerInv, OwnerIsCreator
<1> QED
  BY <1>1, SecretsInvariant, PTL

\* A secret whose create was answered with 200 has a value as long as it is there
\* (SecretsCreate).
THEOREM CreatedIsCompleteAlways == SecretsSpec => []CreatedIsComplete
<1>1. SecretsInv => CreatedIsComplete
  BY DEF SecretsInv, ValueInv, Valued, CreatedIsComplete
<1> QED
  BY <1>1, SecretsInvariant, PTL
=============================================================================
