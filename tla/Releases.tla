------------------------------- MODULE Releases -------------------------------
(***************************************************************************)
(* Release metadata: backend/internal/domain/releases/service.go           *)
(* (channels, artifacts with their windows of compatibility, dotted        *)
(* versions) and ha_versions.go (the catalogue of Home Assistant's own     *)
(* versions and the advisory of a device), with the provider of            *)
(* backend/internal/platform/hacatalog/github.go.                          *)
(*                                                                         *)
(* A refresh asks the provider and then saves its answer, or that there    *)
(* was none, over whatever the catalogue has become in the meantime; an    *)
(* advisory is judged on the catalogue as it is.                           *)
(***************************************************************************)
EXTENDS Integers, Sequences

CONSTANTS
  Versions,       \* versions that devices report, as written
  Published,      \* versions the provider answers with, as written
  Windows,        \* windows of compatibility that are registered
  Refreshers,     \* refreshes of the catalogue at the same time
  TTL,            \* how long the catalogue is fresh
  MaxPart,        \* bound: the largest number in a version
  MaxParts,       \* bound: the most numbers in a version
  MaxClock,       \* bound: the time
  MaxRegistrations,  \* bound: artifacts registered
  MaxRefreshes    \* bound: refreshes started

VARIABLES
  channel,    \* whether the release channel is registered
  artifact,   \* the artifact of one version in that channel
  catalog,    \* ha_core_version_catalog
  refresh,    \* refreshes in flight
  advisory,   \* the device's row of device_ha_version_advisories
  clock,
  registrations, refreshes   \* bounded counters

releaseVars == <<channel, artifact, registrations>>
catalogVars == <<catalog, refresh, refreshes>>
serviceVars == <<releaseVars, catalogVars, advisory, clock>>

-------------------------------------------------------------------------------
(***************************************************************************)
(* Versions.                                                               *)
(***************************************************************************)

\* A version as it is written: nothing at all, something that is not dotted
\* numbers, or dotted numbers that may carry a -tag or +tag.
Text(kind, parts, tag) == [kind |-> kind, parts |-> parts, tag |-> tag]

Absent == Text("absent", <<>>, FALSE)
Malformed == Text("malformed", <<>>, FALSE)

Dotted == {Text("dotted", p, t) :
             p \in UNION {[1..n -> 0..MaxPart] : n \in 1..MaxParts}, t \in BOOLEAN}

Texts == Dotted \union {Absent, Malformed}

ASSUME ReleasesAssumption ==
  /\ MaxPart \in Nat /\ MaxParts \in Nat \ {0}
  /\ Versions \subseteq Texts /\ Published \subseteq Texts \ {Absent}
  /\ Windows \subseteq [minP : Texts, maxP : Texts, minH : Texts, maxH : Texts,
                        supported : BOOLEAN]
  /\ TTL \in Nat \ {0}
  /\ MaxClock \in Nat /\ MaxRegistrations \in Nat /\ MaxRefreshes \in Nat

Parses(v) == v.kind = "dotted"

\* The tag is cut off.
ParseDottedVersion(v) == v.parts

\* A part that is not there counts as zero.
PartAt(parts, i) == IF i <= Len(parts) THEN parts[i] ELSE 0

\* Mutant: only the parts both versions have are compared.
CompareCommonParts(left, right) ==
  LET l == ParseDottedVersion(left)
      r == ParseDottedVersion(right)
      differ == {i \in 1..(IF Len(l) < Len(r) THEN Len(l) ELSE Len(r)) : l[i] # r[i]}
      first == CHOOSE i \in differ : \A j \in differ : i <= j
  IN  IF differ = {} THEN 0 ELSE IF l[first] < r[first] THEN -1 ELSE 1

CompareDottedVersion(left, right) ==
  LET l == ParseDottedVersion(left)
      r == ParseDottedVersion(right)
      longer == IF Len(l) < Len(r) THEN Len(r) ELSE Len(l)
      differ == {i \in 1..longer : PartAt(l, i) # PartAt(r, i)}
      first == CHOOSE i \in differ : \A j \in differ : i <= j
  IN  IF differ = {} THEN 0
      ELSE IF PartAt(l, first) < PartAt(r, first) THEN -1 ELSE 1

-------------------------------------------------------------------------------
(***************************************************************************)
(* Windows of compatibility.                                               *)
(***************************************************************************)

\* A missing value is inside only where nothing bounds it; a bound that is there
\* has to parse, the lower one first.
VersionWithin(value, min, max) ==
  IF value = Absent THEN IF min = Absent /\ max = Absent THEN "in" ELSE "out"
  ELSE IF min # Absent /\ ~(Parses(value) /\ Parses(min)) THEN "error"
  ELSE IF min # Absent /\ CompareDottedVersion(value, min) < 0 THEN "out"
  ELSE IF max # Absent /\ ~(Parses(value) /\ Parses(max)) THEN "error"
  ELSE IF max # Absent /\ CompareDottedVersion(value, max) > 0 THEN "out"
  ELSE "in"

\* Only a window with both bounds is looked at when it is registered.
ValidateWindowBound(min, max) ==
  min # Absent /\ max # Absent =>
    /\ Parses(min) /\ Parses(max)
    /\ CompareDottedVersion(min, max) <= 0

\* A window bounds the agent protocol and the Home Assistant version.
Window(minP, maxP, minH, maxH, supported) ==
  [minP |-> minP, maxP |-> maxP, minH |-> minH, maxH |-> maxH, supported |-> supported]

MatchesCompatibilityWindow(w, protocol, ha) ==
  LET p == VersionWithin(protocol, w.minP, w.maxP) IN
  IF p # "in" THEN p ELSE VersionWithin(ha, w.minH, w.maxH)

\* RegisterArtifact's checks of the windows.
ValidateWindows(windows) ==
  /\ windows # <<>>
  /\ \A i \in 1..Len(windows) :
       /\ ValidateWindowBound(windows[i].minP, windows[i].maxP)
       /\ ValidateWindowBound(windows[i].minH, windows[i].maxH)

\* The artifact of a version: its status and its windows, in order.
ArtifactStatuses == {"draft", "published", "retired", "unsupported"}

NoArtifact == [status |-> "none", windows |-> <<>>]

\* RegisterChannel; a channel that is registered again stays what its key makes
\* it (validateChannel).
RegisterChannel ==
  /\ channel' = TRUE
  /\ UNCHANGED <<artifact, registrations, catalogVars, advisory, clock>>

\* RegisterArtifact: its channel must be there, whatever the channel's status,
\* and every window must be valid.
RegisterArtifact(status, windows) ==
  /\ registrations < MaxRegistrations
  /\ channel
  /\ ValidateWindows(windows)
  /\ artifact' = [status |-> status, windows |-> windows]
  /\ registrations' = registrations + 1
  /\ UNCHANGED <<channel, catalogVars, advisory, clock>>

\* Mutant: any supported window makes the version supported.
CompatibilityByAnyWindow(protocol, ha) ==
  IF artifact.status = "published" /\ \E i \in 1..Len(artifact.windows) :
       /\ MatchesCompatibilityWindow(artifact.windows[i], protocol, ha) = "in"
       /\ artifact.windows[i].supported
  THEN "supported" ELSE "outside_compatibility_window"

\* The first window that matches, or that cannot be evaluated, decides.
CompatibilityForVersion(protocol, ha) ==
  LET Match(i) == MatchesCompatibilityWindow(artifact.windows[i], protocol, ha)
      hits == {i \in 1..Len(artifact.windows) : Match(i) # "out"}
      first == CHOOSE i \in hits : \A j \in hits : i <= j
  IN  IF artifact.status = "none" THEN "unsupported_version"
      ELSE IF artifact.status # "published" THEN "release_unavailable"
      ELSE IF hits = {} THEN "outside_compatibility_window"
      ELSE IF Match(first) = "error" THEN "error"
      ELSE IF artifact.windows[first].supported THEN "supported" ELSE "unsupported_window"

-------------------------------------------------------------------------------
(***************************************************************************)
(* The catalogue of Home Assistant versions.                               *)
(***************************************************************************)

NoCatalog == [status |-> "missing", version |-> Absent, fetched |-> 0, expires |-> 0]

\* A refresh in flight: when it started and the row it will save; raced is
\* history, it tells that another refresh saved since.
NoRefresh == [pc |-> "idle", from |-> 0, row |-> NoCatalog, raced |-> FALSE]

\* RefreshLatestStable reads the clock and asks the provider.
StartRefresh(f) ==
  /\ refresh[f].pc = "idle"
  /\ refreshes < MaxRefreshes
  /\ refresh' = [refresh EXCEPT ![f] = [NoRefresh EXCEPT !.pc = "fetch", !.from = clock]]
  /\ refreshes' = refreshes + 1
  /\ UNCHANGED <<releaseVars, catalog, advisory, clock>>

\* The provider answers with a stable version and the time of its answer; a
\* version that does not parse ends the refresh.
FetchLatestStable(f, v) ==
  /\ refresh[f].pc = "fetch"
  /\ refresh' = [refresh EXCEPT ![f] =
       IF Parses(v)
         THEN [@ EXCEPT !.pc = "save", !.row = [status |-> "active", version |-> v,
                                                fetched |-> clock, expires |-> clock + TTL]]
         ELSE NoRefresh]
  /\ UNCHANGED <<releaseVars, catalog, refreshes, advisory, clock>>

\* Mutant: a failed refresh has no time of its own.
FetchFailsUnstamped(f) ==
  /\ refresh[f].pc = "fetch"
  /\ refresh' = [refresh EXCEPT ![f] = [@ EXCEPT !.pc = "save", !.row =
       [NoCatalog EXCEPT !.status = "unavailable"]]]
  /\ UNCHANGED <<releaseVars, catalog, refreshes, advisory, clock>>

\* The provider fails, or has no stable version: the row that will be saved says
\* so, as of the time the refresh started.
FetchFails(f) ==
  /\ refresh[f].pc = "fetch"
  /\ refresh' = [refresh EXCEPT ![f] = [@ EXCEPT !.pc = "save", !.row =
       [status |-> "unavailable", version |-> Absent,
        fetched |-> refresh[f].from, expires |-> refresh[f].from + TTL]]]
  /\ UNCHANGED <<releaseVars, catalog, refreshes, advisory, clock>>

\* SaveHACoreCatalog replaces the row, or fails.
SaveHACoreCatalog(f) ==
  /\ refresh[f].pc = "save"
  /\ catalog' = refresh[f].row
  /\ refresh' = [g \in Refreshers |->
       IF g = f THEN NoRefresh
       ELSE IF refresh[g].pc = "idle" THEN refresh[g] ELSE [refresh[g] EXCEPT !.raced = TRUE]]
  /\ UNCHANGED <<releaseVars, refreshes, advisory, clock>>

SaveHACoreCatalogFails(f) ==
  /\ refresh[f].pc = "save"
  /\ refresh' = [refresh EXCEPT ![f] = NoRefresh]
  /\ UNCHANGED <<releaseVars, catalog, refreshes, advisory, clock>>

-------------------------------------------------------------------------------
(***************************************************************************)
(* The advisory on the installed Home Assistant version.                   *)
(***************************************************************************)
CatalogUsable(row, now) ==
  /\ row.status = "active"
  /\ row.version # Absent
  /\ now <= row.expires

AdviceStatus(row, installed, now) ==
  IF ~CatalogUsable(row, now) \/ installed = Absent \/ ~Parses(installed) THEN "hidden"
  ELSE IF CompareDottedVersion(installed, row.version) < 0 THEN "update_available"
  ELSE "current"

\* An advisory: what it says, of which installed version, judged when and on
\* which row of the catalogue.
NoAdvisory == [status |-> "none", installed |-> Absent, at |-> 0, on |-> NoCatalog]

\* AdvisoryForInstalled reads the catalogue, judges and replaces the device's
\* row; a save that fails leaves everything as it is.
AdvisoryForInstalled(v) ==
  /\ advisory' = [status |-> AdviceStatus(catalog, v, clock), installed |-> v,
                  at |-> clock, on |-> catalog]
  /\ UNCHANGED <<releaseVars, catalogVars, clock>>

Tick ==
  /\ clock < MaxClock
  /\ clock' = clock + 1
  /\ UNCHANGED <<releaseVars, catalogVars, advisory>>

-------------------------------------------------------------------------------
ReleasesInit ==
  /\ channel = FALSE
  /\ artifact = NoArtifact
  /\ catalog = NoCatalog
  /\ refresh = [f \in Refreshers |-> NoRefresh]
  /\ advisory = NoAdvisory
  /\ clock = 0
  /\ registrations = 0 /\ refreshes = 0

RefreshStep(f) ==
  \/ StartRefresh(f)
  \/ \E v \in Published : FetchLatestStable(f, v)
  \/ FetchFails(f)
  \/ SaveHACoreCatalog(f)
  \/ SaveHACoreCatalogFails(f)

ReleasesNext ==
  \/ RegisterChannel
  \/ \E s \in ArtifactStatuses, u, w \in Windows :
       RegisterArtifact(s, <<u>>) \/ RegisterArtifact(s, <<u, w>>)
  \/ \E f \in Refreshers : RefreshStep(f)
  \/ \E v \in Versions : AdvisoryForInstalled(v)
  \/ Tick

ReleasesSpec == ReleasesInit /\ [][ReleasesNext]_serviceVars

-------------------------------------------------------------------------------
(***************************************************************************)
(* Properties.  The reference reads a version as a number with one digit   *)
(* per part.                                                               *)
(***************************************************************************)
Reading(v) ==
  LET digits[i \in 0..MaxParts] ==
        IF i = 0 THEN 0 ELSE digits[i - 1] * (MaxPart + 1) + PartAt(v.parts, i)
  IN  digits[MaxParts]

\* A version lies between bounds, those that are there, as the numbers they stand
\* for.
Between(v, min, max) ==
  /\ min # Absent => v # Absent /\ Reading(min) <= Reading(v)
  /\ max # Absent => v # Absent /\ Reading(v) <= Reading(max)

\* A window holds an agent protocol and a Home Assistant version.
Holds(w, protocol, ha) ==
  Between(protocol, w.minP, w.maxP) /\ Between(ha, w.minH, w.maxH)

WellFormed(w) == Malformed \notin {w.minP, w.maxP, w.minH, w.maxH}

\* Whatever was registered with bounds that parse, a device is supported exactly
\* if the artifact is published and the first window that holds its protocol and
\* its version says so: the order of the windows is part of the answer
\* (CompatibilityForVersion against the checks of RegisterArtifact).
SupportIsSound ==
  LET ws == artifact.windows IN
  (\A i \in 1..Len(ws) : WellFormed(ws[i])) =>
    \A p, v \in Versions \ {Malformed} :
      (CompatibilityForVersion(p, v) = "supported") =
        /\ artifact.status = "published"
        /\ \E i \in 1..Len(ws) :
             /\ ws[i].supported /\ Holds(ws[i], p, v)
             /\ \A j \in 1..(i - 1) : ~Holds(ws[j], p, v)

\* An advisory on record that names an update, or none, was judged on a catalogue
\* that was active and fresh, and the versions compare as the numbers they stand
\* for, whatever their lengths and tags (AdvisoryForInstalled).
AdviceIsSound ==
  advisory.status \in {"update_available", "current"} =>
    /\ advisory.on.status = "active" /\ advisory.at <= advisory.on.expires
    /\ (advisory.status = "update_available") =
         (Reading(advisory.installed) < Reading(advisory.on.version))

\* The catalogue is replaced by an older answer only if refreshes overlap
\* (RefreshLatestStable saves without looking at what is there).
CatalogMovesBackOnlyByRace ==
  [][catalog'.fetched < catalog.fetched =>
       \E f \in Refreshers : refresh[f].raced /\ catalog' = refresh[f].row]_serviceVars

-------------------------------------------------------------------------------
(***************************************************************************)
(* Inductive invariants.                                                   *)
(***************************************************************************)
Catalogs == [status : {"missing", "active", "unavailable"}, version : Texts,
             fetched : 0..MaxClock, expires : 0..(MaxClock + TTL)]

ReleasesTypeOK ==
  /\ channel \in BOOLEAN
  /\ artifact \in [status : ArtifactStatuses \union {"none"}, windows : Seq(Windows)]
  /\ catalog \in Catalogs
  /\ refresh \in [Refreshers -> [pc : {"idle", "fetch", "save"}, from : 0..MaxClock,
                                 row : Catalogs, raced : BOOLEAN]]
  /\ advisory \in [status : {"none", "hidden", "update_available", "current"},
                   installed : Texts, at : 0..MaxClock, on : Catalogs]
  /\ clock \in 0..MaxClock
  /\ registrations \in 0..MaxRegistrations
  /\ refreshes \in 0..MaxRefreshes

\* The version of an active row parses, wherever the row is held.
ActiveParses(row) == row.status = "active" => Parses(row.version)

RowsInv ==
  /\ ActiveParses(catalog) /\ ActiveParses(advisory.on)
  /\ \A f \in Refreshers : ActiveParses(refresh[f].row)

\* An advisory is what its own row of the catalogue and its own time give.
AdviceInv ==
  advisory.status # "none" =>
    advisory.status = AdviceStatus(advisory.on, advisory.installed, advisory.at)

\* A refresh that nobody overtook began after the catalogue was fetched, and its
\* answer is not older than itself.
RefreshInv ==
  /\ catalog.fetched <= clock
  /\ \A f \in Refreshers : refresh[f].pc # "idle" =>
       /\ refresh[f].from <= clock
       /\ ~refresh[f].raced => catalog.fetched <= refresh[f].from
       /\ refresh[f].pc = "save" =>
            refresh[f].from <= refresh[f].row.fetched /\ refresh[f].row.fetched <= clock
===============================================================================
