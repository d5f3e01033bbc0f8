----------------------------- MODULE ConfigMerge -----------------------------
(***************************************************************************)
(* Merging an app's configuration layers, translated from MultiMerge and    *)
(* what it calls (api/config/product/schema.go).  The code recurses into    *)
(* maps of maps; the layers here are two keys deep (TwoKeysDeep), so each   *)
(* of its recursive functions is one operator for the keys and one for the  *)
(* leaves under a key.                                                      *)
(***************************************************************************)
EXTENDS ConfigLayers

StripLeaves(data) == [k \in {key \in DOMAIN data : data[key].leaf # Deletion} |-> data[k]]

StripDeletedKeys(data) ==
    [k \in {key \in DOMAIN data : data[key].leaf # Deletion} |->
        IF IsMap(data[k]) THEN Map(StripLeaves(data[k].map)) ELSE data[k]]

MergeLeaves(dst, src) ==
    [k \in DOMAIN dst \cup DOMAIN src |-> IF k \in DOMAIN src THEN src[k] ELSE dst[k]]

\* A key of both maps is merged when both its values are maps, and src's otherwise.
MergeMaps(dst, src) ==
    [k \in DOMAIN dst \cup DOMAIN src |->
        IF k \notin DOMAIN src THEN dst[k]
        ELSE IF k \in DOMAIN dst /\ IsMap(dst[k]) /\ IsMap(src[k])
             THEN Map(MergeLeaves(dst[k].map, src[k].map))
             ELSE src[k]]

Merge_KeepsTags(base, override) == MergeMaps(base, override)

Merge(base, override) == StripDeletedKeys(MergeMaps(base, override))

\* One layer merged into the result so far.  A default layer without any key of its own
\* leaves a nil map, and the first key merged into it panics.
MergeLayer(result, layer) ==
    IF result.err # "nil" \/ layer.is = "absent" THEN result
    ELSE IF layer.is = "bad" THEN [result EXCEPT !.err = "error"]
    ELSE IF result.nilMap /\ layer.other # NoKeys THEN [result EXCEPT !.err = "panic"]
    ELSE [result EXCEPT !.other = Merge(result.other, layer.other)]

DefaultLayer(layer) ==
    [err |-> IF layer.is = "yaml" THEN "nil" ELSE "error",
     nilMap |-> layer.other = NoKeys,
     other |-> layer.other]

\* layers is <<default, env, region, variant>>.
MultiMerge(layers) ==
    LET env == MergeLayer(DefaultLayer(layers[1]), layers[2])
        region == MergeLayer(env, layers[3])
    IN MergeLayer(region, layers[4])
=============================================================================
