------------------------------ MODULE CatalogTree ------------------------------
(***************************************************************************)
(* The files of the repository that the daily update reads and writes, as  *)
(* one record, and the two programs that work on them: update_sources.main *)
(* (Generate) and validate_catalog.validate_repository (Valid).            *)
(*                                                                         *)
(* Abstractions.                                                           *)
(*   - A package is its identifier, version and build (any content); its   *)
(*     SHA-256 is the package itself. Archives, icons, URLs and timestamps *)
(*     are left out: no step of these programs branches on them once they  *)
(*     are well-formed, and the generator only writes well-formed ones.    *)
(*   - The index, inventory and checksums of the maintained catalog are    *)
(*     one field, "listing", apart from the files of sources/, "packages"; *)
(*     the legacy catalog is one field. Of the rollback snapshot the       *)
(*     catalog is kept; no program reads its copy of the status.           *)
(*   - Every download succeeds and upstream never rebuilds a version:      *)
(*     caching, outages, rival sources of one website and client revisions *)
(*     are CatalogUpdate's.                                                *)
(*   - The classes of probe results are those that the counters tell       *)
(*     apart. A record is its streaks: that of a protected source has none *)
(*     and is left out, and a source that becomes required while it is     *)
(*     quarantined loses its record with its first healthy or protected    *)
(*     answer, where source_health.transition keeps it for another one.    *)
(***************************************************************************)
EXTENDS Integers, FiniteSets

CONSTANTS
  Source,               \* source identifiers
  Policies,             \* contents config/source_policy.json may have
  OfferSets,            \* contents the upstream indexes may have
  FailureThreshold, RecoveryThreshold,  \* policy.automaticHealth
  MinimumConclusive,                    \* its minimumConclusiveRatio, in percent
  MinimumMaintained, MinimumLegacy,     \* policy.safety
  RemovalFloor, RemovalPercent          \* removals always allowed (5); maximumRemovalRatio

Health == INSTANCE Quarantine
  WITH Required <- {}, streak <- {}, counted <- {}, quarantined <- {}

Scope == {"maintained", "legacy"}

(* Upstream packages are built upstream, pinned ones here.                  *)
Package == [id : Source, version : Nat, build : {"upstream", "pinned"}]
Offer == [id : Source, version : Nat, build : {"upstream"}, repo : {"active", "mirror"}]

(* manual is quarantinedSources with its scopes; overrides and locals are   *)
(* the pinned packages of localPackageOverrides and localPackageSources.    *)
Policy ==
  [manual : [Source -> SUBSET Scope], required : SUBSET Source, promoted : SUBSET Source,
   overrides : SUBSET Package, locals : SUBSET Package]

Ids(packages) == {p.id : p \in packages}
OneEach(packages) == \A p, q \in packages : p.id = q.id => p = q

(* The pins of a policy are objects keyed by source; an index lists a       *)
(* source once.                                                             *)
ASSUME TreeAssumption ==
  /\ IsFiniteSet(Source)
  /\ Policies \subseteq Policy
  /\ \A policy \in Policies : OneEach(policy.overrides) /\ OneEach(policy.locals)
  /\ OfferSets \subseteq SUBSET Offer
  /\ \A offers \in OfferSets : \A o, p \in offers : o.id = p.id /\ o.repo = p.repo => o = p
  /\ FailureThreshold \in Nat /\ FailureThreshold >= 2
  /\ RecoveryThreshold \in Nat /\ RecoveryThreshold >= 2
  /\ MinimumConclusive \in 0..100
  /\ MinimumMaintained \in Nat /\ MinimumLegacy \in Nat
  /\ RemovalFloor \in Nat /\ RemovalPercent \in 0..100

Excluded(policy, scope) == {s \in Source : scope \in policy.manual[s]}
Manual(policy) == {s \in Source : policy.manual[s] # {}}

-----------------------------------------------------------------------------
(* Candidates: an offer or a pinned package, and where it comes from.       *)

Rank == [mirror |-> 1, active |-> 2, local |-> 3]

From(pin, repo) == [id |-> pin.id, version |-> pin.version, build |-> pin.build, repo |-> repo]
PackageOf(c) == [id |-> c.id, version |-> c.version, build |-> c.build]

Offered(policy, offers) ==
  {o \in offers : o.id \notin Excluded(policy, "maintained") \cap Excluded(policy, "legacy")}

ActiveMatch(candidates, pin) == {c \in candidates : c.id = pin.id /\ c.repo = "active"}

(* apply_local_package_overrides: a pin holds until upstream is newer; at   *)
(* the same version the pinned bytes are retained.                          *)
WithOverrides(policy, candidates) ==
  LET applied == {p \in policy.overrides :
                    \A c \in ActiveMatch(candidates, p) : c.version <= p.version}
  IN  {c \in candidates : c.repo # "active" \/ c.id \notin Ids(applied)}
        \cup {From(p, "active") : p \in applied}

(* "Local override source ... is absent from the active upstream."          *)
OverridesFound(policy, candidates) ==
  \A p \in policy.overrides : ActiveMatch(candidates, p) # {}

(* apply_local_package_sources: a local source replaces every other one.    *)
WithLocals(policy, candidates) ==
  {c \in candidates : c.id \notin Ids(policy.locals)}
    \cup {From(p, "local") : p \in policy.locals}

Candidates(policy, offers) ==
  WithLocals(policy, WithOverrides(policy, Offered(policy, offers)))

Best(candidates) ==
  {c \in candidates : \A d \in candidates : d.id = c.id => Rank[d.repo] <= Rank[c.repo]}

HealthCandidates(policy, offers) ==
  {c \in Candidates(policy, offers) :
     /\ c.repo = "active" \/ c.id \in policy.promoted
     /\ c.id \notin Excluded(policy, "maintained")}

-----------------------------------------------------------------------------
(* Health state.                                                           *)

NoStreak == [fails |-> 0, oks |-> 0]

Recorded(health) == {s \in Source : s \in health.sick \/ health.streak[s].fails > 0}

Probed(policy, offers) == Ids(HealthCandidates(policy, offers))

(* What a conclusive probe of a source finds. A website that is up may ask  *)
(* for a browser check or a login instead of answering.                     *)
Answers(s, up) == IF s \in up THEN {"healthy", "protected"} ELSE {"failed"}

Heard(seen) == {s \in Source : seen[s] # "none"}

(* sweep_quality, and the guards of transition: a sweep hears from some of  *)
(* the probed sources; if they are too few, or the runner had no network,   *)
(* it is rejected and counts as having heard from none.                     *)
Sweeps(probed, up) ==
  {seen \in [Source -> Health!Seen] :
     /\ Heard(seen) \subseteq probed
     /\ \A s \in Heard(seen) : seen[s] \in Answers(s, up)
     /\ \/ Heard(seen) = {}
        \/ 100 * Cardinality(Heard(seen)) >= MinimumConclusive * Cardinality(probed)}

(* A sweep that hears from every source, and from no website that is up a   *)
(* challenge.                                                               *)
ClearSweep(probed, up) ==
  [s \in Source |-> IF s \notin probed THEN "none" ELSE IF s \in up THEN "healthy" ELSE "failed"]

(* transition: sources that were not heard from keep their record.          *)
Swept(health, policy, seen) ==
  LET new == [s \in Source |-> Health!Extend(health.streak[s], seen[s])]
      judged == Health!Judged(health.sick, new) \ policy.required
      sick == (health.sick \ Heard(seen)) \cup (judged \cap Heard(seen))
  IN  [streak |-> [s \in Source |-> IF s \in sick THEN new[s] ELSE [new[s] EXCEPT !.oks = 0]],
       sick |-> sick, swept |-> TRUE]

(* Mutant: the records of sources quarantined by hand stay.                 *)
Forget_Keep(health, sources) == health

(* main drops the records of sources quarantined by hand.                   *)
Forget(health, sources) ==
  [health EXCEPT !.streak = [s \in Source |-> IF s \in sources THEN NoStreak ELSE health.streak[s]],
                 !.sick = health.sick \ sources]

-----------------------------------------------------------------------------
(* update_sources.main on a checkout of tree.                               *)

(* Mutant: every run sweeps, also a second one of the day.                  *)
HealthsAfter_Again(tree, offers, up) ==
  {Swept(tree.health, tree.policy, seen) : seen \in Sweeps(Probed(tree.policy, offers), up)}

(* refresh_health_state: what the first run of a day may find; a later one  *)
(* does not sweep.                                                          *)
HealthsAfter(tree, offers, up) ==
  IF tree.health.swept
    THEN {tree.health}
    ELSE {Swept(tree.health, tree.policy, seen) : seen \in Sweeps(Probed(tree.policy, offers), up)}

HealthAfterClear(tree, offers, up) ==
  IF tree.health.swept
    THEN tree.health
    ELSE Swept(tree.health, tree.policy, ClearSweep(Probed(tree.policy, offers), up))

(* "They are never auto-quarantined by a coarse website reachability probe." *)
Automatic(tree, health) == health.sick \ tree.policy.required

Selected(candidates, withdrawn) ==
  {PackageOf(c) : c \in Best({d \in candidates : d.id \notin withdrawn})}

MaintainedOf(policy, offers, automatic) == Selected(HealthCandidates(policy, offers), automatic)

LegacyOf(policy, offers, automatic) ==
  {p \in Selected(Candidates(policy, offers), Excluded(policy, "legacy") \cup automatic) :
     p.id \notin Ids(MaintainedOf(policy, offers, automatic))}

AllowedRemovals(before) ==
  LET share == (Cardinality(before) * RemovalPercent) \div 100
  IN  IF share > RemovalFloor THEN share ELSE RemovalFloor

(* validate_catalog_selection.                                              *)
SelectionPasses(before, after, minimum, required) ==
  /\ Cardinality(after) >= minimum
  /\ required \subseteq after
  /\ Cardinality(before \ after) <= AllowedRemovals(before)

(* write_status_report.                                                     *)
StatusOf(policy, health, maintained, legacy, automatic) ==
  [maintained |-> Cardinality(maintained), legacyOnly |-> Cardinality(legacy),
   manual |-> Manual(policy),
   automatic |-> Recorded(health) \cap automatic,
   degraded |-> Recorded(health) \ automatic]

(* Mutant: the snapshot is taken after the catalogs are written.            *)
Snapshot_After(tree, listing) == listing

(* write_rollback_snapshot, called before write_catalog.                    *)
Snapshot(tree, listing) == tree.listing

(* The tree of a run whose sweep left health.                               *)
Generate(tree, offers, health) ==
  LET automatic == Automatic(tree, health)
      maintained == MaintainedOf(tree.policy, offers, automatic)
      legacy == LegacyOf(tree.policy, offers, automatic)
      kept == Forget(health, Excluded(tree.policy, "maintained"))
  IN  [policy |-> tree.policy,
       listing |-> maintained, packages |-> maintained, legacy |-> legacy,
       health |-> kept,
       status |-> StatusOf(tree.policy, kept, maintained, legacy, automatic),
       rollback |-> Snapshot(tree, maintained)]

(* The run that turns tree into new does not raise.                         *)
RunPasses(tree, offers, new) ==
  /\ OverridesFound(tree.policy, Offered(tree.policy, offers))
  /\ SelectionPasses(Ids(tree.listing), Ids(new.listing), MinimumMaintained, tree.policy.required)
  /\ SelectionPasses(Ids(tree.legacy) \ Ids(tree.listing), Ids(new.legacy), MinimumLegacy, {})

-----------------------------------------------------------------------------
(* validate_repository.                                                     *)

(* validate_aix: the package an entry points at is there, and its manifest  *)
(* has the identifier and version of the entry.                             *)
HasFile(entry, packages) == \E p \in packages : p.id = entry.id /\ p.version = entry.version

(* The names in sources/ are those the index refers to, no more.            *)
NoStrays(listing, packages) ==
  \A p \in packages : \E q \in listing : q.id = p.id /\ q.version = p.version

(* validate_inventory: the inventory and the checksums are of these files.  *)
InventoryMatches(listing, packages) == packages = listing

ValidCatalog(listing, packages) ==
  /\ OneEach(listing)
  /\ \A p \in listing : HasFile(p, packages)
  /\ NoStrays(listing, packages)
  /\ InventoryMatches(listing, packages)

(* validate_policy, check by check.                                         *)
QuarantineHolds(tree) ==
  /\ Excluded(tree.policy, "maintained") \cap Ids(tree.listing) = {}
  /\ Excluded(tree.policy, "legacy") \cap Ids(tree.legacy) = {}

RequiredListed(tree) == tree.policy.required \subseteq Ids(tree.listing)

(* Mutant: the pins are not compared with the catalog.                      *)
PinsPublished_Unchecked(tree) == TRUE

(* A pin is published unless upstream has superseded it.                    *)
PinsPublished(tree) ==
  \A p \in tree.policy.overrides :
    \E q \in tree.listing : q.id = p.id /\ (q.version > p.version \/ q = p)

PromotedListed(tree) == tree.policy.promoted \subseteq Ids(tree.listing)

LocalsPublished(tree) ==
  /\ Ids(tree.policy.locals) \subseteq tree.policy.promoted
  /\ tree.policy.locals \subseteq tree.listing

LargeEnough(tree) ==
  /\ Cardinality(Ids(tree.listing)) >= MinimumMaintained
  /\ Cardinality(Ids(tree.legacy)) >= MinimumLegacy

ValidPolicy(tree) ==
  /\ QuarantineHolds(tree) /\ RequiredListed(tree) /\ PinsPublished(tree)
  /\ PromotedListed(tree) /\ LocalsPublished(tree) /\ LargeEnough(tree)

(* validate_status.                                                         *)
ValidStatus(tree) ==
  LET status == tree.status
      installable == Ids(tree.listing) \cup Ids(tree.legacy)
  IN  /\ status.maintained = Cardinality(Ids(tree.listing))
      /\ status.legacyOnly = Cardinality(Ids(tree.legacy))
      /\ status.manual = Manual(tree.policy)
      /\ status.automatic \cap status.degraded = {}
      /\ status.manual \cap (status.automatic \cup status.degraded) = {}
      /\ status.automatic \cup status.degraded = Recorded(tree.health)
      /\ (status.manual \cup status.automatic) \cap installable = {}

(* The files of the legacy catalog are its listing, see above.              *)
Valid(tree) ==
  /\ ValidCatalog(tree.listing, tree.packages) /\ ValidCatalog(tree.legacy, tree.legacy)
  /\ Ids(tree.listing) \cap Ids(tree.legacy) = {}
  /\ ValidPolicy(tree) /\ ValidStatus(tree)

=============================================================================
