----------------------------- MODULE StatusRunner ----------------------------
(***************************************************************************)
(* The goroutine that polls the host and replaces the status cache          *)
(* (daemon/runners/status.go, daemon/model/status.go).  A poll lists the    *)
(* installed packages once, then asks each listed app for its running       *)
(* version, and publishes the result last: what it publishes was never      *)
(* true at one instant, and readers keep the previous poll until then.      *)
(* No deploy decision reads the health results of a poll; Rotation adds      *)
(* them.                                                                    *)
(***************************************************************************)
EXTENDS Host

CONSTANTS
    VersionNumber,  \* the values ParseVersion returns
    Unparsable,     \* and what stands for its error
    Parsed,         \* Parsed[v]: what it makes of v; it need not tell two strings apart
    StatusPeriodS   \* a bound on the time between two polls' ends: PollIntervalS, the
                    \* list and the probes

ASSUME ParsedAssumption ==
    /\ Parsed \in [Version -> VersionNumber \cup {Unparsable}]
    /\ Unparsable \notin VersionNumber
    /\ NoVersion \notin VersionNumber
ASSUME PeriodAssumption == StatusPeriodS \in Nat

VARIABLES
    statuses,       \* the status cache: [App -> Status]
    snap,           \* the map the poll in progress is filling
    toProbe,        \* listed apps the poll has not asked yet
    spc,            \* "idle" or "polling"
    sincePoll       \* seconds since the last poll ended

statusVars == <<statuses, snap, toProbe, spc, sincePoll>>

\* known = "no": the app has no entry in the map.
MaybeNumber == VersionNumber \cup {NoVersion}
Status == [known : {"yes", "no"}, installed : MaybeNumber, running : MaybeNumber]
NoStatus == [known |-> "no", installed |-> NoVersion, running |-> NoVersion]

StatusTypeOK ==
    /\ statuses \in [App -> Status]
    /\ snap \in [App -> Status]
    /\ toProbe \in SUBSET App
    /\ spc \in {"idle", "polling"}
    /\ sincePoll \in 0..StatusPeriodS

NoStatuses == [a \in App |-> NoStatus]

StatusInit ==
    /\ statuses = NoStatuses
    /\ snap = NoStatuses
    /\ toProbe = {}
    /\ spc = "idle"
    /\ sincePoll = 0

StatusLost ==
    /\ statuses' = NoStatuses
    /\ snap' = NoStatuses
    /\ toProbe' = {}
    /\ spc' = "idle"
    /\ sincePoll' = 0
-----------------------------------------------------------------------------
Listed == {a \in App : installed[a] # NoVersion}

\* One unparsable version in the list aborts the poll, for every app.
ListParses == \A a \in Listed : Parsed[installed[a]] # Unparsable

\* getInstalledVersions.  The errors of StdoutPipe, Start and Wait are not looked at: of a
\* listing that does not start or is cut short, what was read of it is the whole list.
ListInstalled ==
    /\ spc = "idle"
    /\ \E found \in Done(Listed, "list") :
          /\ \A a \in found : Parsed[installed[a]] # Unparsable
          /\ snap' = [a \in App |->
                IF a \in found
                THEN [known |-> "yes", installed |-> Parsed[installed[a]], running |-> NoVersion]
                ELSE NoStatus]
          /\ toProbe' = found
    /\ spc' = "polling"
    /\ UNCHANGED <<statuses, sincePoll>>

\* The poll ends with an error and the cache keeps what it has.
ListFails ==
    /\ spc = "idle"
    /\ ~ListParses
    /\ sincePoll' = 0
    /\ UNCHANGED <<statuses, snap, toProbe, spc>>

RunningVersion_NotParsed(a) == running[a]

\* getRunningVersion.  With no process, an answer that does not parse, or ("varz") no
\* answer or no varz configured, the running version is NoVersion.
RunningVersion(a) ==
    IF running[a] = NoVersion THEN NoVersion
    ELSE IF Parsed[running[a]] = Unparsable THEN NoVersion ELSE Parsed[running[a]]

ProbeRunning(a) ==
    /\ spc = "polling"
    /\ a \in toProbe
    /\ \E v \in {RunningVersion(a)} \cup (IF "varz" \in Faults THEN {NoVersion} ELSE {}) :
          snap' = [snap EXCEPT ![a].running = v]
    /\ toProbe' = toProbe \ {a}
    /\ UNCHANGED <<statuses, spc, sincePoll>>

\* SetStatuses
Publish ==
    /\ spc = "polling"
    /\ toProbe = {}
    /\ statuses' = snap
    /\ snap' = NoStatuses
    /\ spc' = "idle"
    /\ sincePoll' = 0
    /\ UNCHANGED toProbe

StatusNext ==
    \/ ListInstalled \/ ListFails \/ Publish
    \/ \E a \in App : ProbeRunning(a)
=============================================================================
