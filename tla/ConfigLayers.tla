---------------------------- MODULE ConfigLayers -----------------------------
(***************************************************************************)
(* An app's configuration layers (api/config/product/schema.go): defaults,  *)
(* then environment, region and variant, each overriding the ones before    *)
(* it, with the tag !DELETE for a key that is to go.  Effective says, key   *)
(* by key and without merging anything, what configuration they stand for;  *)
(* ConfigMerge is the code's way to it.                                     *)
(***************************************************************************)
EXTENDS Naturals

\* A Schemaless value is a leaf or a map of keys to values; a leaf is named by a string.
NoKeys == <<>>
Leaf(v) == [leaf |-> v, map |-> NoKeys]
Map(m) == [leaf |-> "", map |-> m]
IsMap(value) == value.leaf = ""

Deletion == "!DELETE"

\* A layer's file: absent (or empty), not a configuration, or one with the given keys.
Absent == [is |-> "absent", other |-> NoKeys]
Bad == [is |-> "bad", other |-> NoKeys]
Yaml(m) == [is |-> "yaml", other |-> m]

\* The bound on a layer's depth: its keys have leaves, or maps of leaves (files: name: text).
TwoKeysDeep(layer) ==
    \A k \in DOMAIN layer.other :
        IsMap(layer.other[k]) =>
            \A n \in DOMAIN layer.other[k].map : ~IsMap(layer.other[k].map[n])

IsLayer(layer) ==
    \/ layer \in {Absent, Bad}
    \/ layer.is = "yaml" /\ TwoKeysDeep(layer)

-----------------------------------------------------------------------------
\* The layers that say something of key k, and the last that does.
Saying(layers, k) == {i \in DOMAIN layers : k \in DOMAIN layers[i].other}
LastOf(S) == CHOOSE i \in S : \A o \in S : o <= i

\* The layers whose maps for k are all in force: those since k was last set to a leaf.
InForce(layers, k) ==
    {i \in Saying(layers, k) :
        \A o \in Saying(layers, k) : o >= i => IsMap(layers[o].other[k])}

\* Of the keys under k, what the last layer in force says, if it does not delete it.
Under(layers, k) ==
    LET says(n) == {i \in InForce(layers, k) : n \in DOMAIN layers[i].other[k].map}
        value(n) == layers[LastOf(says(n))].other[k].map[n]
        named == UNION {DOMAIN layers[i].other[k].map : i \in InForce(layers, k)}
    IN [n \in {m \in named : value(m).leaf # Deletion} |-> value(n)]

\* The configuration layers stand for, for layers two keys deep: for every key what the
\* last layer says, and where that is a map all the maps in force for it.
Effective(layers) ==
    LET keys == UNION {DOMAIN layers[i].other : i \in DOMAIN layers}
        said(k) == layers[LastOf(Saying(layers, k))].other[k]
    IN [k \in {key \in keys : said(key).leaf # Deletion} |->
           IF IsMap(said(k)) THEN Map(Under(layers, k)) ELSE said(k)]

\* For layers of which at least one overrides the defaults: when one is no configuration
\* there is no result, when the defaults are empty the merge may panic, and otherwise it
\* is the effective configuration.  Defaults alone keep their tags.
MergesTo(layers, result) ==
    LET present == {i \in DOMAIN layers : layers[i].is = "yaml"} IN
    IF 1 \notin present \/ \E i \in DOMAIN layers : layers[i].is = "bad"
    THEN result.err \in {"error", "panic"}
    ELSE IF result.err = "panic" THEN layers[1].other = NoKeys
    ELSE /\ result.err = "nil"
         /\ result.other = IF present = {1} THEN layers[1].other ELSE Effective(layers)
=============================================================================
