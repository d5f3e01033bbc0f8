------------------------------ MODULE MCGkeJob -------------------------------
(* Small instances of GkeJob. *)
EXTENDS GkeJob

CONSTANTS j1, j2, v1, v2, p1, p2, p3

\* Two jobs with versions of their own; the app runs the version of the first.
AVersionEach == [j \in Job |-> IF j = j1 THEN v1 ELSE v2]
=============================================================================
