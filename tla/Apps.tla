-------------------------------- MODULE Apps ---------------------------------
(* The names the daemon's parts share. *)
CONSTANTS
    App,            \* the applications this host may run
    Version,        \* version strings
    NoVersion       \* the empty string, the version of nothing

ASSUME VersionAssumption == NoVersion \notin Version

MaybeVersion == Version \cup {NoVersion}
=============================================================================
