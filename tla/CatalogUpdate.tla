------------------------------ MODULE CatalogUpdate ------------------------------
(***************************************************************************)
(* The daily update of the two published catalogs: scripts/                *)
(* update_sources.py (main) with publication.py. A run reads the upstream  *)
(* indexes, downloads packages or falls back on the ones it published      *)
(* last, gives client revisions to the opted-in sources, asks the website  *)
(* sweep which sources are quarantined, selects one source per website for *)
(* the maintained catalog and the rest for the legacy one, and publishes   *)
(* both if the safety gates pass. The package cache of a run IS the        *)
(* published catalogs: whatever leaves them is forgotten.                  *)
(*                                                                         *)
(* Abstractions.                                                           *)
(*   - The bytes of a package are its build (any content), the version in  *)
(*     its manifest, and whether publication.py rewrote the manifest.      *)
(*   - The website of a source (its urlKey) is fixed by its identifier.    *)
(*   - The sweep is any change of the quarantined set that SourceHealth    *)
(*     allows: of probed, not required sources, once a day.                *)
(*   - A run that raises saves nothing (the workflow commits only after a  *)
(*     successful run), so failed runs are stuttering steps.               *)
(*   - Packages pinned in the repository (localPackageOverrides,           *)
(*     localPackageSources) and edits of the policy are left out.          *)
(* An Option is a set of at most one element.                              *)
(***************************************************************************)
EXTENDS Integers, FiniteSets

CONSTANTS
  Source,            \* source identifiers
  IdOrder,           \* their alphabetical order
  SiteOf,            \* the website of each
  Active,            \* ACTIVE_REPOSITORY
  Mirror,            \* the other upstream repositories
  Priority,          \* priority of each repository
  Offers,            \* <<repository, source>> pairs an upstream index may hold
  MaxVersion,        \* bound of the versions upstream releases
  Build,             \* the package contents upstream may build
  Required,          \* policy.requiredMaintainedSources
  Promoted,          \* policy.promotedSources
  Republished,       \* keys of policy.republishedSources
  MinimumPublished,  \* minimumPublishedVersion of the republished sources
  VersionLimit,      \* first version that read_package refuses (1000001)
  ManualMaintained,  \* policy quarantine from the maintained catalog
  ManualLegacy,      \* policy quarantine from the legacy catalog
  MinimumMaintained, MinimumLegacy,  \* policy.safety
  RemovalFloor, RemovalPercent       \* removals always allowed (5); maximumRemovalRatio

Repository == Mirror \cup {Active}

ASSUME CatalogAssumption ==
  /\ Active \notin Mirror
  /\ IsFiniteSet(Mirror)
  /\ IdOrder \in [Source -> Nat]
  /\ \A s, t \in Source : IdOrder[s] = IdOrder[t] => s = t
  /\ DOMAIN SiteOf = Source
  /\ Priority \in [Repository -> Nat]
  /\ \A r, q \in Repository : Priority[r] = Priority[q] => r = q
  /\ Offers \subseteq Repository \X Source
  /\ MaxVersion \in Nat \ {0} /\ VersionLimit \in Nat /\ MaxVersion < VersionLimit
  /\ MinimumPublished \in 1..(VersionLimit - 1)
  /\ Required \subseteq Source /\ Promoted \subseteq Source /\ Republished \subseteq Source

VARIABLES
  upstream,     \* what the indexes and package hosts of the repositories hold
  maintained,   \* entries of the maintained catalog (index and inventory)
  legacy,       \* entries of the legacy catalog
  quarantined,  \* sources quarantined in the saved health state
  sampled,      \* the saved health state is of today
  last          \* history, read by no action: the entry of each source last published

vars == <<upstream, maintained, legacy, quarantined, sampled, last>>

-----------------------------------------------------------------------------
(* Packages, upstream offers, catalog entries.                              *)

Bytes == [build : Build, version : Nat, repacked : BOOLEAN]
Offer == {o \in [repo : Repository, id : Source, version : 1..MaxVersion, build : Build] :
            <<o.repo, o.id>> \in Offers}

(* origin is upstreamSha256, revised the presence of publicationTransform.  *)
Entry == [id : Source, repo : Repository, version : 1..(VersionLimit - 1), bytes : Bytes,
          origin : Bytes, revised : BOOLEAN]

Raw(o) == [build |-> o.build, version |-> o.version, repacked |-> FALSE]

Fresh(o) == [id |-> o.id, repo |-> o.repo, version |-> o.version, bytes |-> Raw(o),
             origin |-> Raw(o), revised |-> FALSE]

Ids(entries) == {e.id : e \in entries}
Listed == maintained \cup legacy

AtMostOneEach(entries) == \A e, f \in entries : e.id = f.id => e = f

Larger(m, n) == IF m >= n THEN m ELSE n

-----------------------------------------------------------------------------
(* Candidates of a run. down: mirrors whose index cannot be read; fetched:  *)
(* packages whose download succeeds.                                        *)

(* build_package_cache: the packages of both catalogs.                      *)
Cache(r, s) == {e \in Listed : e.repo = r /\ e.id = s}

(* candidate_from_package on a cached package: its record has no            *)
(* publication fields.                                                      *)
FromCache(entries) == {[e EXCEPT !.origin = e.bytes, !.revised = FALSE] : e \in entries}

(* Mutant: republished sources are served from the cache like any other.    *)
CheckedLive_Never(o) == FALSE

(* revision_ids in main: sources that are downloaded even when cached.      *)
CheckedLive(o) == o.repo = Active /\ o.id \in Republished

SameVersion(o) == {e \in Cache(o.repo, o.id) : e.version = o.version}

(* Mutants: a cached version is downloaded again; no fallback on the cache. *)
Candidate_AlwaysFetch(o, fetched) ==
  IF <<o.repo, o.id>> \in fetched THEN {Fresh(o)} ELSE FromCache(Cache(o.repo, o.id))

Candidate_NoFallback(o, fetched) ==
  CASE SameVersion(o) # {} /\ ~CheckedLive(o) -> FromCache(SameVersion(o))
    [] <<o.repo, o.id>> \in fetched /\ (SameVersion(o) = {} \/ CheckedLive(o)) -> {Fresh(o)}
    [] OTHER -> {}

(* candidate_from_entry: a published version is immutable; otherwise the    *)
(* live package, or the cached one if that fails.                           *)
Candidate(o, fetched) ==
  IF SameVersion(o) # {} /\ ~CheckedLive(o)
    THEN FromCache(SameVersion(o))
    ELSE IF <<o.repo, o.id>> \in fetched THEN {Fresh(o)} ELSE FromCache(Cache(o.repo, o.id))

(* cached_candidates_for_repository.                                        *)
Recovered(r) == FromCache({e \in Listed : e.repo = r})

Read(down) == {o \in upstream : o.repo \notin down /\ o.id \notin ManualMaintained \cap ManualLegacy}

Downloaded(down, fetched) ==
  (UNION {Candidate(o, fetched) : o \in Read(down)}) \cup (UNION {Recovered(r) : r \in down})

-----------------------------------------------------------------------------
(* publication.apply.                                                       *)

Previous(c) == {e \in maintained : e.id = c.id}

Revise(c, version) ==
  [c EXCEPT !.version = version,
            !.bytes = [build |-> c.bytes.build, version |-> version, repacked |-> TRUE],
            !.origin = c.bytes,
            !.revised = TRUE]

(* Mutant: a new upstream package is not given a version above the old one. *)
NewRevision_Upstream(c) == Larger(MinimumPublished, c.version)

OldVersion(c) == IF Previous(c) = {} THEN 0 ELSE (CHOOSE e \in Previous(c) : TRUE).version

(* The version of a package not republished before.                         *)
NewRevision(c) == Larger(Larger(MinimumPublished, c.version), OldVersion(c) + 1)

(* Mutant: the republished package, taken from the cache, is republished.   *)
Republish_CachedAgain(c) ==
  IF \E e \in Previous(c) : e.revised /\ e.origin = c.bytes
    THEN {Revise(c, Larger(MinimumPublished, e.version)) :
            e \in {f \in Previous(c) : f.revised /\ f.origin = c.bytes}}
    ELSE {Revise(c, NewRevision(c))}

(* One opted-in candidate; the result is a set of one. A cached package is  *)
(* already republished and keeps its record; one republished before keeps   *)
(* its version; anything else gets a new one.                               *)
Republish(c) ==
  LET known == {e \in Previous(c) : e.revised}
      cached == {e \in known : e.bytes = c.bytes}
      same == {e \in known : e.origin = c.bytes}
  IN  IF cached # {} THEN {[c EXCEPT !.origin = e.origin, !.revised = TRUE] : e \in cached}
      ELSE IF same # {} THEN {Revise(c, Larger(MinimumPublished, e.version)) : e \in same}
      ELSE {Revise(c, NewRevision(c))}

OptedIn(c) == c.id \in Republished /\ c.repo = Active

Published(candidates) ==
  {c \in candidates : ~OptedIn(c)}
    \cup (UNION {Republish(c) : c \in {d \in candidates : OptedIn(d)}})

-----------------------------------------------------------------------------
(* Selection and gates.                                                     *)

(* Lexicographic order of (priority, version) in select_candidates.         *)
Above(c, d) ==
  \/ Priority[c.repo] > Priority[d.repo]
  \/ Priority[c.repo] = Priority[d.repo] /\ c.version > d.version

(* The first of equal candidates, by identifier, is kept.                   *)
KeptOver(c, d) == Above(c, d) \/ (~Above(d, c) /\ IdOrder[c.id] < IdOrder[d.id])

BestById(candidates) ==
  {c \in candidates : \A d \in candidates : d.id = c.id => d = c \/ Above(c, d)}

Select(candidates) ==
  LET best == BestById(candidates)
  IN  {c \in best : \A d \in best : SiteOf[d.id] = SiteOf[c.id] => d = c \/ KeptOver(c, d)}

HealthCandidates(candidates) ==
  {c \in candidates : (c.repo = Active \/ c.id \in Promoted) /\ c.id \notin ManualMaintained}

ForMaintained(candidates, sick) == {c \in HealthCandidates(candidates) : c.id \notin sick}

(* Mutant: only the maintained catalog leaves quarantined sources out.      *)
Installable_Sick(candidates, sick) == {c \in candidates : c.id \notin ManualLegacy}

Installable(candidates, sick) ==
  {c \in candidates : c.id \notin ManualLegacy /\ c.id \notin sick}

AllowedRemovals(before) == Larger(RemovalFloor, (Cardinality(before) * RemovalPercent) \div 100)

(* validate_catalog_selection.                                              *)
GatePasses(before, after, minimum, required) ==
  /\ Cardinality(after) >= minimum
  /\ required \subseteq after
  /\ Cardinality(before \ after) <= AllowedRemovals(before)

(* Mutant: a revised package is not read again.                             *)
InRange_Unchecked(candidates) == TRUE

(* read_package, which also reads what publication.apply has revised, and   *)
(* refuses a version long before the client's integers run out.             *)
InRange(candidates) == \A c \in candidates : c.version < VersionLimit

-----------------------------------------------------------------------------
(* refresh_health_state: SourceHealth changes the quarantine of probed      *)
(* sources that are not required, and not twice a day.                      *)
Verdict(candidates, sick) ==
  /\ sick \subseteq Source \ Required
  /\ (sick \ quarantined) \cup (quarantined \ sick) \subseteq Ids(HealthCandidates(candidates))
  /\ sampled => sick = quarantined

Publish(main, rest) ==
  /\ maintained' = main
  /\ legacy' = rest
  /\ last' = {e \in last : e.id \notin Ids(main \cup rest)} \cup main \cup rest

Run(down, fetched, sick) ==
  LET candidates == Published(Downloaded(down, fetched))
      main == Select(ForMaintained(candidates, sick))
      rest == {c \in Select(Installable(candidates, sick)) : c.id \notin Ids(main)}
  IN  /\ \A r \in down : Recovered(r) # {}
      /\ InRange(candidates)
      /\ Verdict(candidates, sick)
      /\ GatePasses(Ids(maintained), Ids(main), MinimumMaintained, Required)
      /\ GatePasses(Ids(legacy) \ Ids(maintained), Ids(rest), MinimumLegacy, {})
      /\ Publish(main, rest)
      /\ quarantined' = sick
      /\ sampled' = TRUE
      /\ UNCHANGED upstream

UpdateRun ==
  \E down \in SUBSET Mirror, fetched \in SUBSET Offers, sick \in SUBSET Source :
    Run(down, fetched, sick)

(* A run during which every index and every package is available.           *)
CleanRun == \E sick \in SUBSET Source : Run({}, Offers, sick)

NewDay ==
  /\ sampled
  /\ sampled' = FALSE
  /\ UNCHANGED <<upstream, maintained, legacy, quarantined, last>>

(* A repository releases, rebuilds, rolls back or drops one source.         *)
Release ==
  \E listing \in Offers :
    LET others == {o \in upstream : <<o.repo, o.id>> # listing}
    IN  \E new \in {{}} \cup {{o} : o \in {p \in Offer : <<p.repo, p.id>> = listing}} :
          /\ upstream' = others \cup new
          /\ upstream' # upstream
          /\ UNCHANGED <<maintained, legacy, quarantined, sampled, last>>

(* The catalogs as they were published before republishing was introduced.  *)
Init ==
  /\ upstream \in SUBSET Offer
  /\ \A o, p \in upstream : o.repo = p.repo /\ o.id = p.id => o = p
  /\ LET candidates == {Fresh(o) : o \in Read({})}
         main == Select(ForMaintained(candidates, {}))
     IN  /\ Required \subseteq Ids(main)
         /\ maintained = main
         /\ legacy = {c \in Select(Installable(candidates, {})) : c.id \notin Ids(main)}
  /\ quarantined = {}
  /\ sampled = FALSE
  /\ last = Listed

Next == UpdateRun \/ NewDay \/ Release

(* The workflow runs every day; not every run meets an outage.              *)
Spec == Init /\ [][Next]_vars
FairSpec == Spec /\ WF_vars(NewDay) /\ SF_vars(CleanRun)

-----------------------------------------------------------------------------
TypeOK ==
  /\ upstream \subseteq Offer
  /\ maintained \subseteq Entry
  /\ legacy \subseteq Entry
  /\ AtMostOneEach(Listed)
  /\ quarantined \subseteq Source
  /\ sampled \in BOOLEAN
  /\ last \subseteq Entry

(* While a source stays listed from one repository, its version determines  *)
(* its bytes: no rebuild, outage, mirror or second catalog changes a public *)
(* package behind its URL (candidate_from_entry). Republished sources are   *)
(* covered by RevisionsDetectable.                                          *)
ImmutableWhileListed ==
  [][ \A e \in Listed, f \in Listed' :
        (e.id = f.id /\ e.repo = f.repo /\ e.version = f.version /\ ~OptedIn(e))
          => e.bytes = f.bytes ]_vars

(* candidate_from_entry's comment, unrestricted: "Treat a published         *)
(* (repository, ID, version) as immutable." The bytes published under a     *)
(* version are those it was last published with, also when the source was   *)
(* not listed for a while.                                                  *)
ImmutableForever ==
  [][ \A e \in last, f \in Listed' :
        (e.id = f.id /\ e.repo = f.repo /\ e.version = f.version) => e.bytes = f.bytes ]_vars

(* Clients notice a new package of a source by its version alone. For a     *)
(* republished source that is required and not promoted from a mirror, the  *)
(* version never goes down and grows whenever the bytes change, whatever    *)
(* upstream does to its own versions (publication.apply).                   *)
RevisionsDetectable ==
  [][ \A e \in last, f \in Listed' :
        (e.id = f.id /\ e.id \in (Republished \cap Required) \ Promoted)
          => /\ f.version >= e.version
             /\ f.bytes # e.bytes => f.version > e.version ]_vars

(* "Never increment it again during an upstream outage": a revised source   *)
(* gets a new version only for a package that upstream offers and that is   *)
(* not the one it was made from.                                            *)
RevisionsEarned ==
  [][ \A e \in last, f \in Listed' :
        (e.id = f.id /\ e.revised /\ f.version # e.version
           /\ e.id \in (Republished \cap Required) \ Promoted)
          => f.origin # e.origin /\ \E o \in upstream : Raw(o) = f.origin ]_vars

(* A quarantined source is in neither catalog, also when a second run of    *)
(* the day does not sweep, or when a mirror offers the same source.         *)
QuarantineWithdrawn == Ids(Listed) \cap quarantined = {}

(* Outages never take a website out of the catalogs: a website listed from  *)
(* a source that its repository still offers and that is not quarantined    *)
(* stays listed, whichever downloads and mirror indexes fail.               *)
OutageKeepsSites ==
  [][ \A e \in Listed :
        (e.id \notin quarantined' /\ \E o \in upstream : o.repo = e.repo /\ o.id = e.id)
          => \E f \in Listed' : SiteOf[f.id] = SiteOf[e.id] ]_vars

(* What upstream settles on reaches the clients, also a rebuild under the   *)
(* same version: "Every run checks the live upstream for this opted-in      *)
(* source" (docs/reliability.md). The versions below the limit do not run out. *)
RebuildDelivered ==
  \A s \in (Republished \cap Required) \ Promoted :
    (/\ <>[][UNCHANGED upstream]_vars
     /\ <>[](\E o \in upstream : o.repo = Active /\ o.id = s)
     /\ <>[](\A e \in maintained : e.id = s => e.version + 1 < VersionLimit))
      => <>[](\E e \in maintained, o \in upstream :
                e.id = s /\ o.id = s /\ o.repo = Active /\ e.origin = Raw(o))

=============================================================================
