----------------------------- MODULE DeploySlot ------------------------------
(***************************************************************************)
(* What app-controld promises about deploys, without its goroutines: an app *)
(* has one slot, and a deploy that gets it goes through it in order.  It is *)
(* asked for while the slot is free, taken up once, may change the          *)
(* installed version of its own app only while it is being worked on, is    *)
(* done once, and done without an error only if the asked version is the    *)
(* one installed.  The slot is freed only when the deploy is done, or when  *)
(* the daemon dies and forgets every deploy.                                *)
(***************************************************************************)
CONSTANTS App, Version, NoVersion

VARIABLES
    state,          \* [App -> {"free", "asked", "working", "ok", "failed"}]
    wanted,         \* [App -> Version \cup {NoVersion}]
    installed       \* [App -> Version \cup {NoVersion}]

slotVars == <<state, wanted, installed>>

SlotInit ==
    /\ state = [a \in App |-> "free"]
    /\ wanted = [a \in App |-> NoVersion]
    /\ installed \in [App -> Version \cup {NoVersion}]

Ask(a, v) ==
    /\ state[a] = "free"
    /\ state' = [state EXCEPT ![a] = "asked"]
    /\ wanted' = [wanted EXCEPT ![a] = v]
    /\ UNCHANGED installed

Take(a) ==
    /\ state[a] = "asked"
    /\ state' = [state EXCEPT ![a] = "working"]
    /\ UNCHANGED <<wanted, installed>>

\* Some of the apps being worked on get the version wanted of them.
Install ==
    /\ \E some \in SUBSET {a \in App : state[a] = "working"} :
          installed' = [a \in App |-> IF a \in some THEN wanted[a] ELSE installed[a]]
    /\ UNCHANGED <<state, wanted>>

Finish(a) ==
    /\ state[a] = "working"
    /\ \E s \in {"ok", "failed"} :
          /\ s = "ok" => installed[a] = wanted[a]
          /\ state' = [state EXCEPT ![a] = s]
    /\ UNCHANGED <<wanted, installed>>

Free(a) ==
    /\ state[a] \in {"ok", "failed"}
    /\ state' = [state EXCEPT ![a] = "free"]
    /\ wanted' = [wanted EXCEPT ![a] = NoVersion]
    /\ UNCHANGED installed

Forget ==
    /\ state' = [a \in App |-> "free"]
    /\ wanted' = [a \in App |-> NoVersion]
    /\ UNCHANGED installed

SlotNext ==
    \/ \E a \in App, v \in Version : Ask(a, v)
    \/ \E a \in App : Take(a) \/ Finish(a) \/ Free(a)
    \/ Install
    \/ Forget

SlotSpec == SlotInit /\ [][SlotNext]_slotVars
=============================================================================
