------------------------------ MODULE GceCache ------------------------------
(***************************************************************************)
(* The API's cache of the GCE instances of each cluster                     *)
(* (api/runners/gce-cache.go) and the fetch that fills it (api/gce/gce.go). *)
(* A goroutine goes through the regions of the configured topology for      *)
(* ever: it lists the instances of each zone, sorts them by the cluster ids *)
(* in their metadata, and merges what it has got into a map that requests   *)
(* read, also when a region or a zone could not be listed.                  *)
(*                                                                         *)
(* listed is a history variable: no action depends on it.                   *)
(***************************************************************************)
EXTENDS Naturals

CONSTANTS
    Instance,       \* VMs, each of which is started once and deleted once
    Id,             \* ClusterIds: app, region and variant, without the environment
    Area,           \* pairs of environment and region in the topology
    Zone,
    ZonesOf,        \* [Area -> SUBSET Zone]
    ZoneOf,         \* [Instance -> Zone]
    IdsOf,          \* [Instance -> SUBSET Id]: the app-control metadata
    Faults,         \* "compute": a call to the compute API may fail
    MaxDeaths       \* bound: how often the API may die

ASSUME CloudAssumption ==
    /\ ZonesOf \in [Area -> SUBSET Zone]
    /\ ZoneOf \in [Instance -> Zone]
    /\ IdsOf \in [Instance -> SUBSET Id]
    /\ MaxDeaths \in Nat

VARIABLES
    cloud,      \* each VM's life
    cache,      \* GCECache.data: the instances of each id, none for a key it has not
    gpc,        \* the runner: asleep, between two areas, or listing the zones of one
    lap,        \* the areas still to fetch in this lap
    zones,      \* the zones still to list in this fetch
    found,      \* appControlInstances, the map the fetch returns
    listed,     \* the instances of each id in the zones that were listed
    deaths      \* how often the API has died

cacheVars == <<cache, gpc, lap, zones, found, listed, deaths>>

NoInstances == [id \in Id |-> {}]

CacheTypeOK ==
    /\ cloud \in [Instance -> {"unborn", "live", "gone"}]
    /\ cache \in [Id -> SUBSET Instance]
    /\ gpc \in {"asleep", "lap", "zones"}
    /\ lap \in SUBSET Area
    /\ zones \in SUBSET Zone
    /\ found \in [Id -> SUBSET Instance]
    /\ listed \in [Id -> SUBSET Instance]
    /\ deaths \in 0..MaxDeaths

\* main starts the runner with an empty cache.
CacheInit ==
    /\ cloud \in [Instance -> {"unborn", "live"}]
    /\ cache = NoInstances
    /\ gpc = "lap"
    /\ lap = Area
    /\ zones = {}
    /\ found = NoInstances
    /\ listed = NoInstances
    /\ deaths = 0

InstanceComes(i) ==
    /\ cloud[i] = "unborn"
    /\ cloud' = [cloud EXCEPT ![i] = "live"]
    /\ UNCHANGED cacheVars

InstanceGoes(i) ==
    /\ cloud[i] = "live"
    /\ cloud' = [cloud EXCEPT ![i] = "gone"]
    /\ UNCHANGED cacheVars

\* The sleep of a minute is over.
WakeUp ==
    /\ gpc = "asleep"
    /\ gpc' = "lap"
    /\ lap' = Area
    /\ UNCHANGED <<cloud, cache, zones, found, listed, deaths>>

\* GetRegionAppControlInstances: a map of its own for each fetch.  A region whose zones
\* are not told is a fetch that is over.
GetRegion(a, itsZones) ==
    /\ gpc = "lap"
    /\ a \in lap
    /\ lap' = lap \ {a}
    /\ zones' = itsZones
    /\ gpc' = "zones"
    /\ found' = NoInstances
    /\ listed' = NoInstances
    /\ UNCHANGED <<cloud, cache, deaths>>

RegionFails(a) ==
    /\ "compute" \in Faults
    /\ GetRegion(a, {})

Tagged(id, z) == {i \in Instance : cloud[i] = "live" /\ ZoneOf[i] = z /\ id \in IdsOf[i]}

\* An id that has instances keeps those: list is appended to, and not stored back.  One
\* that has none gets the first of this zone, in whatever order they are listed.
ListZone(z) ==
    /\ z \in zones
    /\ zones' = zones \ {z}
    /\ \E first \in [Id -> Instance] :
          /\ \A id \in Id : first[id] \in Tagged(id, z) \/ Tagged(id, z) = {}
          /\ found' = [id \in Id |-> IF found[id] # {} \/ Tagged(id, z) = {}
                                     THEN found[id] ELSE {first[id]}]
    /\ listed' = [id \in Id |-> listed[id] \cup Tagged(id, z)]
    /\ UNCHANGED <<cloud, cache, gpc, lap, deaths>>

\* What was found in the zones before it is returned with the error.
ZoneFails ==
    /\ "compute" \in Faults
    /\ zones # {}
    /\ zones' = {}
    /\ UNCHANGED <<cloud, cache, gpc, lap, found, listed, deaths>>

Set_NewOnly ==
    /\ gpc = "zones" /\ zones = {}
    /\ cache' = [id \in Id |-> IF cache[id] = {} THEN found[id] ELSE cache[id]]
    /\ gpc' = IF lap = {} THEN "asleep" ELSE "lap"
    /\ UNCHANGED <<cloud, lap, zones, found, listed, deaths>>

Set_Replaces ==
    /\ gpc = "zones" /\ zones = {}
    /\ cache' = found
    /\ gpc' = IF lap = {} THEN "asleep" ELSE "lap"
    /\ UNCHANGED <<cloud, lap, zones, found, listed, deaths>>

\* The fetch is over, with an error or without: its keys replace those of the cache.
Set ==
    /\ gpc = "zones" /\ zones = {}
    /\ cache' = [id \in Id |-> IF found[id] # {} THEN found[id] ELSE cache[id]]
    /\ gpc' = IF lap = {} THEN "asleep" ELSE "lap"
    /\ UNCHANGED <<cloud, lap, zones, found, listed, deaths>>

\* A compute service that cannot be made (log.Fatalf), or the runtime that finds the map
\* read and written at once, ends the process; systemd starts it again.
CacheLost ==
    /\ deaths < MaxDeaths
    /\ deaths' = deaths + 1
    /\ cache' = NoInstances
    /\ gpc' = "lap"
    /\ lap' = Area
    /\ zones' = {}
    /\ found' = NoInstances
    /\ listed' = NoInstances
    /\ UNCHANGED cloud

CacheNext ==
    \/ \E i \in Instance : InstanceComes(i) \/ InstanceGoes(i)
    \/ \E a \in Area : GetRegion(a, ZonesOf[a]) \/ RegionFails(a)
    \/ \E z \in Zone : ListZone(z)
    \/ WakeUp \/ ZoneFails \/ Set
=============================================================================
