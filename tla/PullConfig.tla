----------------------------- MODULE PullConfig ------------------------------
(***************************************************************************)
(* The configuration of one app on one host (daemon/runners/deploy.go,      *)
(* pullAndMergeConfigs): the version's config ball is unpacked over the     *)
(* app's root, its layers are merged into config.yaml, and the files that   *)
(* config.yaml names are written, secrets among them.  Only one pull runs   *)
(* at a time, but it can stop at any step: an error leaves what was done,   *)
(* and so does the death of the daemon.  Nothing is ever removed.           *)
(***************************************************************************)
EXTENDS ConfigMerge, Secrets

CONSTANTS
    Version,
    NoVersion,
    Ball,       \* [Version -> its layers, and the files the CLI packed beside them]
    MaxPulls    \* a bound on the pulls of a behaviour

ASSUME PullAssumption ==
    /\ \A v \in Version, i \in 1..4 : IsLayer(Ball[v].layers[i])
    /\ MaxPulls \in Nat

\* The layers a host may have, and the files they name.
HostLayer == {Absent} \cup {Ball[v].layers[i] : v \in Version, i \in 1..4}
NamedIn(layer) ==
    IF "files" \in DOMAIN layer.other THEN DOMAIN layer.other["files"].map ELSE {}
File == UNION {NamedIn(layer) : layer \in HostLayer}

VARIABLES
    ppc,        \* where pullAndMergeConfigs is
    pulling,    \* the version being pulled, or pulled last
    pulls,      \* how many pulls were begun
    outcome,    \* how the last one ended: "nil", "error" or "panic"
    disk,       \* [1..4 -> layer]: the files under .arryved/config
    config,     \* what config.yaml holds, or NoConfig
    root,       \* [File -> content]: the app's files
    todo,       \* extractFiles: the files not looked at yet
    tmp,        \* [File -> content]: its temporary directory
    skipped,    \* history: the files it warned about and went on without
    current     \* history: what versions/latest has been since the pull began

pullVars == <<ppc, pulling, pulls, outcome, disk, config, root, todo, tmp, skipped, current>>
host == <<disk, config, root>>

NoConfig == [err |-> "none", other |-> NoKeys]
NoFile == [is |-> "none", what |-> NoReq]
NoFiles == [f \in File |-> NoFile]
Packed(v) == [is |-> "packed", what |-> v]
Inline(text) == [is |-> "inline", what |-> text]
SecretValue(r) == [is |-> "secret", what |-> r]
CutShort == [is |-> "cut short", what |-> NoReq]

PullPC == {"idle", "ball", "expand", "merge", "files", "copy"}

PullTypeOK ==
    /\ ppc \in PullPC
    /\ pulling \in Version \cup {NoVersion}
    /\ pulls \in 0..MaxPulls
    /\ outcome \in {"none", "nil", "error", "panic"}
    /\ \A i \in 1..4 : disk[i].is \in {"absent", "bad", "yaml"}
    /\ config.err \in {"none", "nil"}
    /\ DOMAIN root = File /\ DOMAIN tmp = File
    /\ todo \subseteq File /\ skipped \subseteq File
    /\ current \subseteq Req \cup {NoReq}

\* A host whose app was never deployed.
PullInit ==
    /\ ppc = "idle"
    /\ pulling = NoVersion
    /\ pulls = 0
    /\ outcome = "none"
    /\ disk = [i \in 1..4 |-> Absent]
    /\ config = NoConfig
    /\ root = NoFiles
    /\ todo = {}
    /\ tmp = NoFiles
    /\ skipped = {}
    /\ current = {}
-----------------------------------------------------------------------------
PullGoes(where) == ppc' = where /\ UNCHANGED <<pulling, pulls, outcome, todo, tmp, skipped>>

\* pullAndMergeConfigs returns, or the daemon dies of a panic; the temporary directory is
\* removed, or nobody looks at it again.
PullEnds(how) ==
    /\ ppc' = "idle"
    /\ outcome' = how
    /\ todo' = {}
    /\ tmp' = NoFiles
    /\ skipped' = IF how = "nil" THEN skipped ELSE {}
    /\ UNCHANGED <<pulling, pulls>>

Fails(fault) == fault \in Faults /\ PullEnds("error") /\ UNCHANGED host

\* GetAppControlMetadata and getMetadata, which several steps ask.
MetadataFails == Fails("metadata")

StartPull(v) ==
    /\ ppc = "idle"
    /\ pulls < MaxPulls
    /\ ppc' = "ball"
    /\ pulling' = v
    /\ pulls' = pulls + 1
    /\ outcome' = "none"
    /\ skipped' = {}
    /\ UNCHANGED <<host, todo, tmp>>

\* GetAppControlMetadata and getConfigBall: the app's cluster and environment, and the
\* most recent ball of the version.
GetConfigBall ==
    /\ ppc = "ball"
    /\ \/ PullGoes("expand") /\ UNCHANGED host
       \/ MetadataFails
       \/ Fails("bucket")

\* What unpacking the part S of the ball's layers and the packed files P leaves.
Unpack(S, P) ==
    LET ball == Ball[pulling] IN
    /\ disk' = [i \in 1..4 |-> IF i \in S THEN ball.layers[i] ELSE disk[i]]
    /\ root' = [f \in File |-> IF f \in P THEN Packed(pulling) ELSE root[f]]
    /\ UNCHANGED config

Layers(v) == {i \in 1..4 : Ball[v].layers[i].is # "absent"}

ExpandConfigBall_Older ==
    LET S == {i \in Layers(pulling) : disk[i].is = "absent"} IN
    /\ ppc = "expand"
    /\ Unpack(S, Ball[pulling].packed) /\ PullGoes("merge")

\* expandConfigBall and the chmod, chown and find commands after it: tar writes what the
\* ball has over what was there.  It may break off, and a command after it may fail.
ExpandConfigBall ==
    /\ ppc = "expand"
    /\ \/ Unpack(Layers(pulling), Ball[pulling].packed) /\ PullGoes("merge")
       \/ /\ "tar" \in Faults
          /\ \E S \in SUBSET Layers(pulling), P \in SUBSET Ball[pulling].packed : Unpack(S, P)
          /\ PullEnds("error")

MergeConfig_IgnoresError ==
    LET merged == MultiMerge(disk) IN
    /\ ppc = "merge"
    /\ config' = [err |-> merged.err, other |-> merged.other]
    /\ PullGoes("files")
    /\ UNCHANGED <<disk, root>>

\* mergeConfig: the layers on disk, from whichever ball they are, become config.yaml.
MergeConfig ==
    LET merged == MultiMerge(disk) IN
    \/ /\ ppc = "merge"
       /\ \/ /\ merged.err = "nil"
             /\ config' = [err |-> "nil", other |-> merged.other]
             /\ PullGoes("files")
          \/ merged.err # "nil" /\ PullEnds(merged.err) /\ UNCHANGED config
       /\ UNCHANGED <<disk, root>>
    \/ ppc = "merge" /\ Fails("sudo")
-----------------------------------------------------------------------------
HasFiles == "files" \in DOMAIN config.other
Files == IF HasFiles THEN config.other["files"].map ELSE NoKeys

\* extractFiles up to its loop: the project's number, config.yaml again, the files in it.
\* A "files" that is no map panics.
ListFiles ==
    /\ ppc = "files"
    /\ \/ /\ HasFiles => IsMap(config.other["files"])
          /\ ppc' = "copy"
          /\ todo' = DOMAIN Files
          /\ UNCHANGED <<host, pulling, pulls, outcome, tmp, skipped>>
       \/ HasFiles /\ ~IsMap(config.other["files"]) /\ PullEnds("panic") /\ UNCHANGED host
       \/ MetadataFails

ReadsSecret_KeepsFile(f) ==
    /\ Files[f].leaf = "secret"
    /\ IF secret.latest = NoReq \/ root[f] # NoFile THEN UNCHANGED tmp
       ELSE tmp' = [tmp EXCEPT ![f] = SecretValue(secret.latest)]

\* The latest value of a secret goes into the temporary directory; one without a value is
\* skipped (SecretRead).  Whether its policy lets the host read it is not looked at: if it
\* does not, the read fails (Skips).
ReadsSecret(f) ==
    /\ Files[f].leaf = "secret"
    /\ IF secret.latest = NoReq THEN UNCHANGED tmp
       ELSE tmp' = [tmp EXCEPT ![f] = SecretValue(secret.latest)]

HasText(f) == ~IsMap(Files[f]) /\ Files[f].leaf # "null"

\* A secret that cannot be read, and a file that cannot be written, or not all of it, are
\* passed over with a warning; what was written of it is copied with the others.
Skips(f) ==
    /\ "read" \in Faults
    /\ tmp' = tmp \/ tmp' = [tmp EXCEPT ![f] = CutShort]
    /\ skipped' = skipped \cup {f}

\* One turn of its loop.  A file without content, which the CLI packs into the ball, is nil
\* and panics.
ExtractFile(f) ==
    /\ ppc = "copy"
    /\ f \in todo
    /\ \/ /\ HasText(f)
          /\ todo' = todo \ {f}
          /\ \/ ReadsSecret(f) /\ UNCHANGED skipped
             \/ /\ Files[f].leaf # "secret"
                /\ tmp' = [tmp EXCEPT ![f] = Inline(Files[f].leaf)]
                /\ UNCHANGED skipped
             \/ Skips(f)
          /\ UNCHANGED <<ppc, pulling, pulls, outcome>>
       \/ ~HasText(f) /\ PullEnds("panic")
    /\ UNCHANGED host

\* What copying the files in S from the temporary directory leaves.
CopyFiles(S) ==
    /\ root' = [f \in File |-> IF f \in S THEN tmp[f] ELSE root[f]]
    /\ UNCHANGED <<disk, config>>

\* All are copied into the app's root, or some and the pull fails.
CopyDirRecurse ==
    LET extracted == {f \in File : tmp[f] # NoFile} IN
    /\ ppc = "copy" /\ todo = {}
    /\ \/ CopyFiles(extracted) /\ PullEnds("nil")
       \/ "sudo" \in Faults /\ (\E S \in SUBSET extracted : CopyFiles(S)) /\ PullEnds("error")

\* The daemon dies for another reason.
DaemonDies ==
    /\ "crash" \in Faults
    /\ ppc # "idle"
    /\ PullEnds("panic")
    /\ UNCHANGED host

PullStep ==
    \/ \E v \in Version : StartPull(v)
    \/ GetConfigBall \/ ExpandConfigBall \/ MergeConfig \/ ListFiles
    \/ (\E f \in File : ExtractFile(f)) \/ CopyDirRecurse \/ DaemonDies
=============================================================================
