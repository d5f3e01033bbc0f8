------------------------------ MODULE MCConfig -------------------------------
(* Instances of ConfigDeploy for TLC. *)
EXTENDS ConfigDeploy, TLC

CONSTANTS v1, v2, v3, create, again, update, delete

MCOp == [r \in Req |-> CASE r \in {create, again} -> "create"
                         [] r = update -> "update" [] r = delete -> "delete"]
MCMayChange == [r \in Req |-> IF r = create THEN Req \cap {update, delete} ELSE {}]

FilesAre(m) == Yaml([files |-> Map(m)])

\* v2 has no environment layer, and its variant deletes a file; v3 leaves a packed file
\* without content to the defaults, and cannot be merged in its region.
MCBall ==
    (v1 :> [layers |-> <<FilesAre([f |-> Leaf("one"), g |-> Leaf("secret")]),
                         FilesAre([f |-> Leaf("test")]), Absent, Absent>>,
            packed |-> {}])
    @@ (v2 :> [layers |-> <<FilesAre([f |-> Leaf("two"), g |-> Leaf("secret")]),
                            Absent, Absent, FilesAre([g |-> Leaf(Deletion)])>>,
               packed |-> {}])
    @@ (v3 :> [layers |-> <<FilesAre([f |-> Leaf("null")]), Absent, Bad, Absent>>,
               packed |-> {"f"}])

\* Layers over the keys a and b: leaves, maps that share keys, deletions at both depths.
MCLayer ==
    {Absent, Bad, Yaml(NoKeys)} \cup
    {Yaml(m) : m \in {[a |-> Leaf("1")], [a |-> Leaf(Deletion)], [b |-> Leaf("2")],
                      [a |-> Map([n |-> Leaf("3"), m |-> Leaf("4")])],
                      [a |-> Map([n |-> Leaf(Deletion)])],
                      [a |-> Map([n |-> Leaf("5")]), b |-> Leaf(Deletion)],
                      [a |-> Map(NoKeys), b |-> Map([m |-> Leaf("6")])]}}
=============================================================================
