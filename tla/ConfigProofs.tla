---------------------------- MODULE ConfigProofs -----------------------------
(***************************************************************************)
(* Proofs about ConfigDeploy, for any versions, balls, requests and faults. *)
(*                                                                          *)
(* Layers are merged to what they stand for (MergeProofs); so a pull that   *)
(* got past a step has what the step was for, whatever was on the host      *)
(* before and whatever became of the secret meanwhile: the ball's layers    *)
(* (Laid), their merge (MergedIs), no "files" but a map (Listed), and a     *)
(* text for every file looked at and not skipped (Extracted), which for a   *)
(* secret is one it had since the pull began (Watched).                     *)
(***************************************************************************)
EXTENDS ConfigDeploy, SecretsProofs, MergeProofs

Past(steps) == ppc \in steps \/ Pulled

OnDisk == disk \in [1..4 -> HostLayer]

Began == ppc # "idle" => pulling \in Version

Laid == Past({"merge", "files", "copy"}) =>
            \A i \in Layers(pulling) : disk[i] = Ball[pulling].layers[i]

MergedIs == Past({"files", "copy"}) => config.err = "nil" /\ MergesTo(disk, config)

Listed == Past({"copy"}) => (HasFiles => IsMap(config.other["files"]))

Watched == ppc # "idle" => secret.latest \in current

\* What a file is to hold that config.yaml gives leaf, when the secret's values were values.
Right(leaf, content, values) ==
    IF leaf = "secret"
    THEN NoReq \notin values => content \in {SecretValue(r) : r \in values}
    ELSE content = Inline(leaf)

Extracted == ppc = "copy" =>
                 \A f \in DOMAIN Files \ (todo \cup skipped) :
                     Right(Files[f].leaf, tmp[f], current)

Written == Pulled =>
               \A f \in DOMAIN Files \ skipped : Right(Files[f].leaf, root[f], current)

PullInv == PullTypeOK /\ OnDisk /\ Began /\ Laid /\ MergedIs /\ Listed /\ Watched
           /\ Extracted /\ Written

ConfigInv == SecretsInv /\ PullInv
-----------------------------------------------------------------------------
\* The layers of a ball are layers a host may have, and say what they are.
LEMMA LayersAreHostLayers ==
    /\ Absent \in HostLayer
    /\ \A v \in Version, i \in 1..4 : Ball[v].layers[i] \in HostLayer
    /\ \A l \in HostLayer : IsLayer(l) /\ l.is \in {"absent", "bad", "yaml"}
BY PullAssumption DEF HostLayer, IsLayer, Absent, Bad

\* A configuration layers are merged to names no file that none of them names: one "files"
\* that is a map has the keys of the maps in force for it.
LEMMA FilesAreNamed ==
    ASSUME OnDisk, config.err = "nil", MergesTo(disk, config),
           HasFiles, IsMap(config.other["files"])
    PROVE  DOMAIN Files \subseteq File
<1> DEFINE fk == "files"
           present == {i \in DOMAIN disk : disk[i].is = "yaml"}
           said == disk[LastOf(Saying(disk, fk))].other[fk]
<1>1. DOMAIN disk = 1..4 /\ \A i \in 1..4 : disk[i] \in HostLayer
  BY DEF OnDisk
<1>2. Files = config.other[fk].map
  BY DEF Files, HasFiles
<1>3. 1 \in present /\ config.other = IF present = {1} THEN disk[1].other ELSE Effective(disk)
  BY DEF MergesTo
<1>4. CASE present = {1}
  <2>1. disk[1] \in HostLayer /\ fk \in DOMAIN disk[1].other
    BY <1>1, <1>3, <1>4 DEF HasFiles
  <2>2. DOMAIN Files = NamedIn(disk[1])
    BY <1>2, <1>3, <1>4, <2>1 DEF NamedIn
  <2> QED
    BY <2>1, <2>2 DEF File
<1>5. CASE present # {1}
  <2>1. config.other = Effective(disk)
    BY <1>3, <1>5
  <2>2. fk \in DOMAIN Effective(disk)
    BY <2>1 DEF HasFiles
  <2>3. Effective(disk)[fk] = IF IsMap(said) THEN Map(Under(disk, fk)) ELSE said
    BY <2>2 DEF Effective
  <2>4. Files = Under(disk, fk)
    <3>1. IsMap(said)
      BY <2>1, <2>3
    <3>2. config.other[fk] = Map(Under(disk, fk))
      BY <2>1, <2>3, <3>1
    <3>3. \A m : Map(m).map = m
      BY DEF Map
    <3> QED
      BY <1>2, <3>2, <3>3, Zenon
  <2>5. ASSUME NEW f \in DOMAIN Under(disk, fk)
        PROVE  \E i \in InForce(disk, fk) : f \in DOMAIN disk[i].other[fk].map
    BY <2>5 DEF Under
  <2>6. ASSUME NEW i \in InForce(disk, fk)
        PROVE  disk[i] \in HostLayer /\ NamedIn(disk[i]) = DOMAIN disk[i].other[fk].map
    BY <1>1 DEF InForce, Saying, NamedIn
  <2> QED
    BY <2>4, <2>5, <2>6 DEF File
<1> QED
  BY <1>4, <1>5

\* Whatever is on the disk the merge ends in one of three ways, and without an error it is
\* the configuration the layers stand for.
LEMMA MergedDisk ==
    ASSUME OnDisk
    PROVE  /\ MultiMerge(disk).err \in {"nil", "error", "panic"}
           /\ MultiMerge(disk).err = "nil" =>
                  MergesTo(disk, [err |-> "nil", other |-> MultiMerge(disk).other])
<1>1. MergesTo(disk, MultiMerge(disk))
  BY MultiMergeIsEffective, LayersAreHostLayers DEF OnDisk
<1> QED
  BY <1>1 DEF MergesTo

\* A content that was right stays right when there were more values.
LEMMA RightStays ==
    \A leaf, content, V, W :
        V \subseteq W /\ Right(leaf, content, V) => Right(leaf, content, W)
BY DEF Right

\* No file is right for a secret only, when it had no value for a time.
LEMMA RightNoFile ==
    \A leaf, V : Right(leaf, NoFile, V) => leaf = "secret" /\ NoReq \in V
BY DEF Right, NoFile, Inline, SecretValue

\* While a pull runs current only grows, and has the latest value.
LEMMA Watching ==
    ASSUME PullInv, SecretsTypeOK', Watch
    PROVE  /\ secret'.latest \in current'
           /\ current' \subseteq Req \cup {NoReq}
           /\ ppc # "idle" => current \subseteq current'
BY DEF Watch, SecretsTypeOK, PullInv, PullTypeOK
-----------------------------------------------------------------------------
LEMMA PullInitially == SecretsInit /\ PullInit => PullInv
<1> SUFFICES ASSUME SecretsInit, PullInit PROVE PullInv
  OBVIOUS
<1> USE DEF PullInit
<1>1. PullTypeOK
  BY PullAssumption DEF PullTypeOK, PullPC, Absent, NoConfig, NoFiles
<1>2. OnDisk /\ Began
  BY LayersAreHostLayers DEF OnDisk, Began
<1>3. Laid /\ MergedIs /\ Listed /\ Watched /\ Extracted /\ Written
  BY DEF Past, Pulled, Laid, MergedIs, Listed, Watched, Extracted, Written
<1> QED
  BY <1>1, <1>2, <1>3 DEF PullInv

\* A pull that ends with an error or a panic may leave the host in any state.
LEMMA EndStep ==
    ASSUME PullInv, SecretsTypeOK', Watch, NEW how \in {"error", "panic"}, PullEnds(how),
           disk' \in [1..4 -> HostLayer], config'.err \in {"none", "nil"}, DOMAIN root' = File
    PROVE  PullInv'
<1> USE DEF PullInv, PullEnds
<1>1. PullTypeOK'
  BY Watching, LayersAreHostLayers DEF PullTypeOK, PullPC, NoFiles
<1>2. OnDisk' /\ Began'
  BY DEF OnDisk, Began
<1>3. Laid' /\ MergedIs' /\ Listed' /\ Watched' /\ Extracted' /\ Written'
  BY DEF Past, Pulled, Laid, MergedIs, Listed, Watched, Extracted, Written
<1> QED
  BY <1>1, <1>2, <1>3

\* The same when the host is as before.
LEMMA EndUnchanged ==
    ASSUME PullInv, SecretsTypeOK', Watch, NEW how \in {"error", "panic"}, PullEnds(how),
           UNCHANGED host
    PROVE  PullInv'
BY EndStep DEF host, PullInv, OnDisk, PullTypeOK

\* A step that gets stuck at nothing but a fault ends like this.
LEMMA FailsStep ==
    ASSUME PullInv, SecretsTypeOK', Watch, NEW fault, Fails(fault)
    PROVE  PullInv'
BY EndUnchanged DEF Fails

\* A pull that begins promises nothing, on a host as it was left.
LEMMA StartStep ==
    ASSUME PullInv, SecretsTypeOK', Watch, NEW v \in Version, StartPull(v)
    PROVE  PullInv'
<1> USE DEF PullInv, StartPull, host
<1>1. PullTypeOK'
  BY Watching, PullAssumption DEF PullTypeOK, PullPC
<1>2. OnDisk' /\ Began'
  BY DEF OnDisk, Began
<1>3. Laid' /\ MergedIs' /\ Listed' /\ Watched' /\ Extracted' /\ Written'
  BY Watching DEF Past, Pulled, Laid, MergedIs, Listed, Watched, Extracted, Written
<1> QED
  BY <1>1, <1>2, <1>3

LEMMA BallStep ==
    ASSUME PullInv, SecretsTypeOK', Watch, GetConfigBall
    PROVE  PullInv'
<1>1. CASE PullGoes("expand") /\ UNCHANGED host
  <2> USE <1>1 DEF PullInv, GetConfigBall, PullGoes, host
  <2>1. PullTypeOK'
    BY Watching DEF PullTypeOK, PullPC
  <2>2. OnDisk' /\ Began'
    BY DEF OnDisk, Began
  <2>3. Laid' /\ MergedIs' /\ Listed' /\ Watched' /\ Extracted' /\ Written'
    BY Watching DEF Past, Pulled, Laid, MergedIs, Listed, Watched, Extracted, Written
  <2> QED
    BY <2>1, <2>2, <2>3
<1> QED
  BY <1>1, FailsStep DEF GetConfigBall, MetadataFails

\* Unpacking any part of a ball leaves layers a host may have, and all of it its layers.
LEMMA Unpacked ==
    ASSUME PullInv, ppc # "idle", NEW S, NEW P, Unpack(S, P)
    PROVE  /\ disk' \in [1..4 -> HostLayer]
           /\ config' = config /\ DOMAIN root' = File
           /\ S = Layers(pulling) => \A i \in Layers(pulling) : disk'[i] = Ball[pulling].layers[i]
<1>1. pulling \in Version /\ disk \in [1..4 -> HostLayer]
  BY DEF PullInv, Began, OnDisk
<1> QED
  BY <1>1, LayersAreHostLayers DEF Unpack, Layers

LEMMA ExpandStep ==
    ASSUME PullInv, SecretsTypeOK', Watch, ExpandConfigBall
    PROVE  PullInv'
<1>1. ppc = "expand"
  BY DEF ExpandConfigBall
<1>2. CASE Unpack(Layers(pulling), Ball[pulling].packed) /\ PullGoes("merge")
  <2>1. /\ disk' \in [1..4 -> HostLayer]
        /\ config' = config /\ DOMAIN root' = File
        /\ \A i \in Layers(pulling) : disk'[i] = Ball[pulling].layers[i]
    BY <1>1, <1>2, Unpacked
  <2> USE <1>1, <1>2 DEF PullInv, PullGoes
  <2>2. PullTypeOK'
    BY <2>1, Watching, LayersAreHostLayers DEF PullTypeOK, PullPC
  <2>3. OnDisk' /\ Began'
    BY <2>1 DEF OnDisk, Began
  <2>4. Laid'
    BY <2>1 DEF Laid, Layers
  <2>5. MergedIs' /\ Listed' /\ Watched' /\ Extracted' /\ Written'
    BY Watching DEF Past, Pulled, MergedIs, Listed, Watched, Extracted, Written, PullTypeOK
  <2> QED
    BY <2>2, <2>3, <2>4, <2>5
<1>3. ASSUME NEW S, NEW P, Unpack(S, P), PullEnds("error")
      PROVE  PullInv'
  <2>1. disk' \in [1..4 -> HostLayer] /\ config' = config /\ DOMAIN root' = File
    BY <1>1, <1>3, Unpacked
  <2> QED
    BY <1>3, <2>1, EndStep DEF PullInv, PullTypeOK
<1> QED
  BY <1>2, <1>3 DEF ExpandConfigBall

LEMMA MergeStep ==
    ASSUME PullInv, SecretsTypeOK', Watch, MergeConfig
    PROVE  PullInv'
<1>1. /\ MultiMerge(disk).err \in {"nil", "error", "panic"}
      /\ MultiMerge(disk).err = "nil" =>
             MergesTo(disk, [err |-> "nil", other |-> MultiMerge(disk).other])
  BY MergedDisk DEF PullInv
<1>2. CASE /\ ppc = "merge" /\ MultiMerge(disk).err = "nil"
           /\ config' = [err |-> "nil", other |-> MultiMerge(disk).other]
           /\ PullGoes("files")
           /\ UNCHANGED <<disk, root>>
  <2> USE <1>2 DEF PullInv, PullGoes
  <2>1. PullTypeOK'
    BY Watching DEF PullTypeOK, PullPC
  <2>2. OnDisk' /\ Began'
    BY DEF OnDisk, Began
  <2>3. Laid'
    BY DEF Past, Pulled, Laid, Layers
  <2>4. MergedIs'
    BY <1>1 DEF MergedIs
  <2>5. Listed' /\ Watched' /\ Extracted' /\ Written'
    BY Watching DEF Past, Pulled, Listed, Watched, Extracted, Written
  <2> QED
    BY <2>1, <2>2, <2>3, <2>4, <2>5
<1>3. CASE /\ MultiMerge(disk).err # "nil" /\ PullEnds(MultiMerge(disk).err)
           /\ UNCHANGED config /\ UNCHANGED <<disk, root>>
  <2>1. MultiMerge(disk).err \in {"error", "panic"}
    BY <1>1, <1>3
  <2> QED
    BY <1>3, <2>1, EndUnchanged DEF host
<1> QED
  BY <1>2, <1>3, FailsStep DEF MergeConfig

\* So the files to write are files of a layer.
LEMMA NamesInCopy ==
    ASSUME PullInv, ppc \in {"files", "copy"}, HasFiles => IsMap(config.other["files"])
    PROVE  DOMAIN Files \subseteq File
<1>1. OnDisk /\ config.err = "nil" /\ MergesTo(disk, config)
  BY DEF PullInv, MergedIs, Past
<1>2. CASE HasFiles
  BY <1>1, <1>2, FilesAreNamed
<1>3. CASE ~HasFiles
  BY <1>3 DEF Files, NoKeys
<1> QED
  BY <1>2, <1>3

LEMMA ListStep ==
    ASSUME PullInv, SecretsTypeOK', Watch, ListFiles
    PROVE  PullInv'
<1>1. CASE /\ ppc = "files" /\ (HasFiles => IsMap(config.other["files"]))
           /\ ppc' = "copy" /\ todo' = DOMAIN Files
           /\ UNCHANGED <<host, pulling, pulls, outcome, tmp, skipped>>
  <2> USE <1>1 DEF PullInv, host
  <2>1. DOMAIN Files \subseteq File
    BY NamesInCopy
  <2>2. PullTypeOK'
    BY <2>1, Watching DEF PullTypeOK, PullPC
  <2>3. OnDisk' /\ Began'
    BY DEF OnDisk, Began
  <2>4. Laid' /\ MergedIs'
    BY DEF Past, Pulled, Laid, Layers, MergedIs
  <2>5. Listed' /\ Extracted'
    BY DEF Listed, HasFiles, Extracted, Files
  <2>6. Watched' /\ Written'
    BY Watching DEF Pulled, Watched, Written
  <2> QED
    BY <2>2, <2>3, <2>4, <2>5, <2>6
<1> QED
  BY <1>1, EndUnchanged, FailsStep DEF ListFiles, MetadataFails

\* The file looked at gets what it should, or the value was nowhere to be read.
LEMMA ExtractStep ==
    ASSUME PullInv, SecretsTypeOK', UNCHANGED secretVars, Watch, NEW f \in File, ExtractFile(f)
    PROVE  PullInv'
<1>1. ppc = "copy" /\ f \in todo /\ UNCHANGED host
  BY DEF ExtractFile
<1>2. CASE /\ todo' = todo \ {f}
           /\ \/ ReadsSecret(f) /\ UNCHANGED skipped
              \/ /\ Files[f].leaf # "secret"
                 /\ tmp' = [tmp EXCEPT ![f] = Inline(Files[f].leaf)]
                 /\ UNCHANGED skipped
              \/ Skips(f)
           /\ UNCHANGED <<ppc, pulling, pulls, outcome>>
  <2> USE <1>1, <1>2 DEF PullInv, host
  <2>1. /\ DOMAIN tmp' = File /\ \A g \in File \ {f} : tmp'[g] = tmp[g]
        /\ skipped \subseteq skipped' /\ skipped' \subseteq File
    BY DEF ReadsSecret, Skips, PullTypeOK
  <2>2. PullTypeOK'
    BY <2>1, Watching DEF PullTypeOK, PullPC
  <2>3. OnDisk' /\ Began'
    BY DEF OnDisk, Began
  <2>4. Laid' /\ MergedIs' /\ Listed'
    BY DEF Past, Pulled, Laid, Layers, MergedIs, Listed, HasFiles
  <2>5. Watched' /\ Written'
    BY Watching DEF Pulled, Watched, Written
  <2>6. Extracted'
    <3>1. SUFFICES ASSUME NEW g \in DOMAIN Files \ (todo' \cup skipped')
                   PROVE  Right(Files[g].leaf, tmp'[g], current')
      BY DEF Extracted, Files, HasFiles
    <3>2. current \subseteq current' /\ secret.latest \in current'
      BY Watching DEF secretVars
    <3>3. CASE g # f
      <4>1. /\ g \in DOMAIN Files \ (todo \cup skipped)
            /\ Right(Files[g].leaf, tmp[g], current)
        BY <2>1, <3>1, <3>3 DEF Extracted
      <4>2. g \in File
        BY <3>1, NamesInCopy DEF Past, Listed, Files, HasFiles
      <4>3. tmp'[g] = tmp[g]
        BY <2>1, <3>3, <4>2
      <4> QED
        BY <3>2, <4>1, <4>3, RightStays
    <3>4. CASE g = f
      BY <3>1, <3>2, <3>4 DEF ReadsSecret, Skips, Right, PullTypeOK
    <3> QED
      BY <3>3, <3>4
  <2> QED
    BY <2>2, <2>3, <2>4, <2>5, <2>6
<1> QED
  BY <1>1, <1>2, EndUnchanged DEF ExtractFile

\* The files copied have what was looked up for them; one that has nothing is not copied,
\* and then it was right to have nothing.
LEMMA CopyStep ==
    ASSUME PullInv, SecretsTypeOK', UNCHANGED secretVars, Watch, CopyDirRecurse
    PROVE  PullInv'
<1> DEFINE extracted == {f \in File : tmp[f] # NoFile}
<1>1. ppc = "copy" /\ todo = {}
  BY DEF CopyDirRecurse
<1>2. ASSUME NEW S, CopyFiles(S)
      PROVE  /\ disk' \in [1..4 -> HostLayer] /\ config' = config /\ DOMAIN root' = File
             /\ \A f \in File : f \in S => root'[f] = tmp[f]
             /\ disk' = disk
  BY <1>2 DEF CopyFiles, PullInv, OnDisk
<1>3. CASE CopyFiles(extracted) /\ PullEnds("nil")
  <2>1. /\ config' = config /\ DOMAIN root' = File /\ disk' = disk
        /\ \A f \in File : tmp[f] # NoFile => root'[f] = tmp[f]
    BY <1>2, <1>3
  <2>2. DOMAIN Files \subseteq File
    BY <1>1, NamesInCopy DEF PullInv, Listed, Past
  <2>3. Watched' /\ current \subseteq current' /\ secret.latest \in current'
    BY <1>1, <1>3, Watching DEF Watched, PullEnds, secretVars
  <2> HIDE DEF extracted
  <2> USE <1>1, <1>3, <2>1 DEF PullInv, PullEnds
  <2>4. PullTypeOK'
    BY Watching DEF PullTypeOK, PullPC, NoFiles
  <2>5. OnDisk' /\ Began'
    BY DEF OnDisk, Began
  <2>6. Laid' /\ MergedIs' /\ Listed'
    BY DEF Past, Pulled, Laid, Layers, MergedIs, Listed, HasFiles
  <2>7. Extracted'
    BY DEF Extracted
  <2>8. Written'
    <3>1. SUFFICES ASSUME NEW f \in DOMAIN Files \ skipped
                   PROVE  Right(Files[f].leaf, root'[f], current')
      BY DEF Written, Files, HasFiles
    <3>2. Right(Files[f].leaf, tmp[f], current')
      BY <2>3, <3>1, RightStays DEF Extracted
    <3>3. CASE tmp[f] = NoFile
      <4>1. Files[f].leaf = "secret" /\ NoReq \in current'
        BY <3>2, <3>3, RightNoFile
      <4> QED
        BY <4>1 DEF Right
    <3>4. CASE tmp[f] # NoFile
      BY <2>1, <2>2, <3>2, <3>4
    <3> QED
      BY <3>3, <3>4
  <2> QED
    BY <2>3, <2>4, <2>5, <2>6, <2>7, <2>8
<1>4. ASSUME NEW S, CopyFiles(S), PullEnds("error")
      PROVE  PullInv'
  BY <1>2, <1>4, EndStep DEF PullInv, PullTypeOK
<1> QED
  BY <1>3, <1>4 DEF CopyDirRecurse

\* A step of a request changes nothing of the pull, which learns of the value it leaves.
LEMMA RequestsStep ==
    ASSUME PullInv, SecretsTypeOK', IF ppc = "idle" THEN UNCHANGED current ELSE Watch,
           UNCHANGED <<ppc, pulling, pulls, outcome, disk, config, root, todo, tmp, skipped>>
    PROVE  PullInv'
<1> USE DEF PullInv
<1>1. PullTypeOK'
  BY Watching DEF PullTypeOK
<1>2. current \subseteq current' /\ Watched'
  BY Watching DEF Watched
<1>3. OnDisk' /\ Began' /\ Laid' /\ MergedIs' /\ Listed'
  BY DEF OnDisk, Began, Past, Pulled, Laid, Layers, MergedIs, Listed, HasFiles
<1>4. Extracted'
  BY <1>2, RightStays DEF Extracted, Files, HasFiles
<1>5. Written'
  BY <1>2, RightStays DEF Written, Pulled, Files, HasFiles
<1> QED
  BY <1>1, <1>2, <1>3, <1>4, <1>5

\* A step of the pull, or the death of the daemon.
LEMMA PullStepKeeps ==
    ASSUME PullInv, SecretsTypeOK', UNCHANGED secretVars, Watch, PullStep
    PROVE  PullInv'
<1>1. CASE DaemonDies
  BY <1>1, EndUnchanged DEF DaemonDies
<1> QED
  BY <1>1, StartStep, BallStep, ExpandStep, MergeStep, ListStep, ExtractStep, CopyStep
     DEF PullStep

LEMMA ConfigInitially == Init => ConfigInv
BY SecretsInitially, PullInitially DEF Init, ConfigInv

\* Every step keeps the invariant.
LEMMA ConfigStep == ConfigInv /\ [Next]_vars => ConfigInv'
<1> SUFFICES ASSUME ConfigInv, [Next]_vars PROVE ConfigInv'
  OBVIOUS
<1>1. SecretsInv'
  <2>1. [SecretsNext]_secretVars
    BY DEF Next, vars
  <2> QED
    BY <2>1, SecretsStep DEF ConfigInv
<1>2. SecretsTypeOK'
  BY <1>1 DEF SecretsInv
<1>3. PullInv'
  <2>1. PullInv
    BY DEF ConfigInv
  <2>2. CASE PullStep /\ UNCHANGED secretVars /\ Watch
    BY <1>2, <2>1, <2>2, PullStepKeeps
  <2>3. CASE /\ SecretsNext
             /\ UNCHANGED <<ppc, pulling, pulls, outcome, disk, config, root, todo, tmp, skipped>>
             /\ IF ppc = "idle" THEN UNCHANGED current ELSE Watch
    BY <1>2, <2>1, <2>3, RequestsStep
  <2>4. CASE UNCHANGED vars
    BY <2>1, <2>4 DEF vars, secretVars, pullVars, PullInv, PullTypeOK, OnDisk, Began, Past,
                      Pulled, Laid, Layers, MergedIs, Listed, HasFiles, Watched, Extracted,
                      Written, Files
  <2> QED
    BY <2>2, <2>3, <2>4 DEF Next
<1> QED
  BY <1>1, <1>3 DEF ConfigInv
-----------------------------------------------------------------------------
\* The inductive invariant holds for any versions, balls, requests and faults.
THEOREM ConfigInvariant == Spec => []ConfigInv
BY ConfigInitially, ConfigStep, PTL DEF Spec

\* Every variable keeps its type: no config.yaml is written from layers that could not be
\* merged (mergeConfig).
THEOREM ConfigTyped == Spec => []TypeOK
<1>1. ConfigInv => TypeOK
  BY DEF ConfigInv, SecretsInv, PullInv, TypeOK
<1> QED
  BY <1>1, ConfigInvariant, PTL

\* The most specific layer decides about a key, deletions included, for any layers: the
\* balls' and any others (MultiMerge).
THEOREM MergeIsEffectiveAlways == Spec => []MergeIsEffective
<1>1. EffectiveOn(Layer)
  BY MultiMergeIsEffective, LayerAssumption DEF EffectiveOn
<1>2. EffectiveOn(HostLayer)
  BY MultiMergeIsEffective, LayersAreHostLayers DEF EffectiveOn
<1>3. MergeIsEffective
  BY <1>1, <1>2 DEF MergeIsEffective
<1> QED
  BY <1>3, PTL

\* A pull without an error leaves the ball's layers and a config.yaml that is what the
\* layers on the host stand for, whatever earlier pulls left (pullAndMergeConfigs).
THEOREM PulledIsMergedAlways == Spec => []PulledIsMerged
<1>1. ConfigInv => PulledIsMerged
  BY DEF ConfigInv, PullInv, Laid, MergedIs, Past, PulledIsMerged
<1> QED
  BY <1>1, ConfigInvariant, PTL

\* And every file config.yaml gives a text has it, a secret one a value that was the latest
\* while the pull ran, but for the files this pull warned about (extractFiles).
THEOREM PulledFilesAreCurrentAlways == Spec => []PulledFilesAreCurrent
<1>1. ConfigInv => PulledFilesAreCurrent
  BY DEF ConfigInv, PullInv, Written, Right, PulledFilesAreCurrent
<1> QED
  BY <1>1, ConfigInvariant, PTL

\* The host only reads the secret: with a pull beside them the requests still behave as
\* Secrets says, so that what is proved of them there holds here (SecretRead).
THEOREM ConfigKeepsSecrets == Spec => SecretsSpec
<1>1. Init => SecretsInit
  BY DEF Init
<1>2. [Next]_vars => [SecretsNext]_secretVars
  BY DEF Next, vars
<1> QED
  BY <1>1, <1>2, PTL DEF Spec, SecretsSpec
=============================================================================
