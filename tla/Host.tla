-------------------------------- MODULE Host ---------------------------------
(***************************************************************************)
(* The machine under the daemon, as the daemon's code uses it: the package  *)
(* database behind apt, the services behind systemctl, the configuration    *)
(* files of each app and its .oor (out of rotation) marker.  None of it is  *)
(* in the daemon's memory, so all of it survives a crash of the daemon.     *)
(* apt and systemctl take the whole batch in one command (daemon/cli/cli.go)*)
(* and may fail half way; Faults names what goes wrong in a run.            *)
(***************************************************************************)
EXTENDS Naturals, Apps

CONSTANT
    Faults      \* what may go wrong: touch and rm ("sudo"), "apt", a target's "config",
                \* "systemd"; a config written without an error may not be all of it, or have
                \* some of another version's ("mixed"); a restarted service may come up late
                \* or not at all ("start"), may not answer ("varz"), or exit and come back by
                \* itself ("exit"); the listing of the packages may not run to its end
                \* ("list"); the daemon may die ("crash")

ASSUME FaultsAssumption ==
    Faults \subseteq {"sudo", "apt", "config", "mixed", "systemd", "start", "varz", "exit",
                      "list", "crash"}

VARIABLES
    installed,      \* version in the package database
    configured,     \* version whose configuration is on disk, NoVersion for a mixture
    running,        \* version of the running process
    oor             \* apps whose .oor file exists

hostVars == <<installed, configured, running, oor>>

HostTypeOK ==
    /\ installed  \in [App -> MaybeVersion]
    /\ configured \in [App -> MaybeVersion]
    /\ running    \in [App -> MaybeVersion]
    /\ oor \in SUBSET App

\* A host as its image left it: each app absent, or installed at some version and running.
HostInit ==
    /\ installed \in [App -> MaybeVersion]
    /\ configured = installed
    /\ running = installed
    /\ oor = {}

\* The subsets of S a command may get done: all of it, or less if it can fail.
Done(S, fault) == IF fault \in Faults THEN SUBSET S ELSE {S}

\* What may be on disk when v's configuration was written without an error: a file whose
\* secret is not read or which is not written is left out with a warning, and a layer that
\* an older ball has left is merged in.
Written(v) == {v} \cup (IF "mixed" \in Faults THEN {NoVersion} ELSE {})
-----------------------------------------------------------------------------
\* touch <AppRoot>/.oor; SetOOR's error is ignored by its caller.
TouchOOR(a) ==
    /\ \E ok \in Done({a}, "sudo") : oor' = oor \cup ok
    /\ UNCHANGED <<installed, configured, running>>

RemoveOOR(a) ==
    /\ \E ok \in Done({a}, "sudo") : oor' = oor \ ok
    /\ UNCHANGED <<installed, configured, running>>

\* apt install of the versions want names for the apps in S.
InstallPackages(S, want) ==
    /\ installed' = [a \in App |-> IF a \in S THEN want[a] ELSE installed[a]]
    /\ UNCHANGED <<configured, running, oor>>

\* A config ball unpacked over an app's root, merged and its files written; v is NoVersion
\* when what is there then is not one version's configuration.
WriteConfig(a, v) ==
    /\ configured' = [configured EXCEPT ![a] = v]
    /\ UNCHANGED <<installed, running, oor>>

\* systemctl restart: each service in S comes up at the installed version, or is down for now.
RestartServices(S) ==
    \E up \in Done(S, "start") :
        /\ running' = [a \in App |-> IF a \in up THEN installed[a]
                                     ELSE IF a \in S THEN NoVersion ELSE running[a]]
        /\ UNCHANGED <<installed, configured, oor>>

\* A service exits, or one that is down comes up at whatever version is installed by now.
ServiceExits(a) ==
    /\ "exit" \in Faults
    /\ running[a] # NoVersion
    /\ running' = [running EXCEPT ![a] = NoVersion]
    /\ UNCHANGED <<installed, configured, oor>>

ServiceComesUp(a) ==
    /\ Faults \cap {"start", "exit"} # {}
    /\ running[a] = NoVersion
    /\ installed[a] # NoVersion
    /\ running' = [running EXCEPT ![a] = installed[a]]
    /\ UNCHANGED <<installed, configured, oor>>

HostNext == \E a \in App : ServiceExits(a) \/ ServiceComesUp(a)
=============================================================================
