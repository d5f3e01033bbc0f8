------------------------------ MODULE MCControld -----------------------------
(* Small instances of Controld. *)
EXTENDS Controld, TLC

CONSTANTS a1, a2, v1, v2, r1, r2

\* Every slot's requests name one app, or each of two apps has a slot.
OneApp == [r \in Req |-> a1]
TwoApps == [r \in Req |-> IF r = r1 THEN a1 ELSE a2]

\* ParseVersion tells all versions apart, makes the same number of all of them, or fails
\* on all of them (then status polls and convergence play no part).
Distinct == [v \in Version |-> v]
BothSame == [v \in Version |-> v1]
NoneParsable == [v \in Version |-> Unparsable]

\* Slots of one app are interchangeable.
SlotSymmetry == Permutations(Req)

\* And so are apps together with their slots.
AppSymmetry ==
    {p \in Permutations(App \cup Req) :
        \A r \in Req : p[r] \in Req /\ AppOf[p[r]] = p[AppOf[r]]}
=============================================================================
