------------------------------- MODULE MCFleet -------------------------------
(* Small instances of Fleet. *)
EXTENDS Fleet, TLC

CONSTANTS h1, h2, h3, j1, j2, j3, t1, t2, v1, v2

\* Every job deploys to all instances; or one finds h1 only, the others added later.
OneCluster == [j \in Job |-> Host]
GrowingCluster == [j \in Job |-> IF j = j1 THEN Host ELSE {h1}]

Count(n) == [kind |-> "count", n |-> n]
Percent(n) == [kind |-> "percent", n |-> n]
Malformed == [kind |-> "malformed", n |-> 0]

\* Of three instances: two at once; 50%, which is one at once; a string that is no number.
TwoHalfBad == [j \in Job |-> CASE j = j1 -> Count(2)
                              [] j = j2 -> Percent(50)
                              [] j = j3 -> Malformed]

\* One at once for one job, two for the other.
OneAndTwo == [j \in Job |-> IF j = j1 THEN Count(1) ELSE Count(2)]

AVersionEach == [j \in Job |-> IF j = j1 THEN v1 ELSE v2]
OneVersion == [j \in Job |-> v1]

Symmetry == Permutations(Thread) \cup Permutations(Host)
=============================================================================
