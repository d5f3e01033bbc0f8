---------------------------- MODULE ConfigDeploy -----------------------------
(***************************************************************************)
(* The configuration of a host while its secret is created, updated and     *)
(* deleted through the API: PullConfig reads what Secrets leaves.           *)
(***************************************************************************)
EXTENDS PullConfig

vars == <<secretVars, pullVars>>

TypeOK == SecretsTypeOK /\ PullTypeOK

Init == SecretsInit /\ PullInit

\* While a pull runs, current collects the values of the secret; a new pull starts over.
Watch == current' = IF ppc = "idle" THEN {secret'.latest} ELSE current \cup {secret'.latest}

Next ==
    \/ PullStep /\ UNCHANGED secretVars /\ Watch
    \/ /\ SecretsNext
       /\ UNCHANGED <<ppc, pulling, pulls, outcome, disk, config, root, todo, tmp, skipped>>
       /\ IF ppc = "idle" THEN UNCHANGED current ELSE Watch

Spec == Init /\ [][Next]_vars
-----------------------------------------------------------------------------
EffectiveOn(L) == \A l \in [1..4 -> L] : MergesTo(l, MultiMerge(l))

\* The merge of any four layers is the configuration they stand for: the most specific
\* layer decides about a key, deletions included (schema.go, MultiMerge).  Layer stands
\* for more layers to try than the balls have; the formula is evaluated in the initial
\* states only.
CONSTANT Layer
ASSUME LayerAssumption == \A layer \in Layer : IsLayer(layer)

MergeIsEffective ==
    pulls = 0 /\ hpc = [r \in Req |-> "none"] => EffectiveOn(Layer) /\ EffectiveOn(HostLayer)

Pulled == ppc = "idle" /\ outcome = "nil"

\* After a pull without an error the host has every layer of the version's ball, and
\* config.yaml is what the layers on the host stand for, whatever earlier pulls that
\* failed, were cut short or were of other versions left (pullAndMergeConfigs).
PulledIsMerged ==
    Pulled =>
        /\ \A i \in Layers(pulling) : disk[i] = Ball[pulling].layers[i]
        /\ MergesTo(disk, config)

\* After a pull without an error every file config.yaml gives a text has that text, and
\* one that is a secret has a value that was the latest one while the pull ran: all but the
\* files this very pull warned about, and those of a secret that had no value for a time
\* (extractFiles).  What an earlier pull left, skipped or wrote, is not what decides.
PulledFilesAreCurrent ==
    Pulled =>
        \A f \in DOMAIN Files \ skipped :
            IF Files[f].leaf = "secret"
            THEN NoReq \notin current => root[f] \in {SecretValue(r) : r \in current}
            ELSE root[f] = Inline(Files[f].leaf)
=============================================================================
