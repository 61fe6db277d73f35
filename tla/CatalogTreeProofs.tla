--------------------------- MODULE CatalogTreeProofs ---------------------------
(***************************************************************************)
(* Lemmas about the programs of CatalogTree, for all policies, upstream    *)
(* contents and thresholds: what the updater selects, and that the         *)
(* validator accepts what the updater generates unless a source the policy *)
(* needs is in quarantine.                                                 *)
(***************************************************************************)
EXTENDS CatalogTree, FiniteSetTheorems, TLAPS

LEMMA CandidateTypes ==
  ASSUME NEW policy \in Policies, NEW offered \in OfferSets
  PROVE  /\ \A c \in Candidates(policy, offered) : PackageOf(c) \in Package
         /\ HealthCandidates(policy, offered) \subseteq Candidates(policy, offered)
<1>1. policy \in Policy /\ offered \subseteq Offer
  BY TreeAssumption
<1>2. \A c \in Offered(policy, offered) : PackageOf(c) \in Package
  BY <1>1 DEF Offered, Offer, Package, PackageOf
<1>3. \A p \in Package : \A r : PackageOf(From(p, r)) \in Package
  BY DEF From, PackageOf, Package
<1>4. \A c \in WithOverrides(policy, Offered(policy, offered)) : PackageOf(c) \in Package
  BY <1>1, <1>2, <1>3 DEF WithOverrides, Policy
<1>5. \A c \in WithLocals(policy, WithOverrides(policy, Offered(policy, offered))) :
        PackageOf(c) \in Package
  BY <1>1, <1>3, <1>4 DEF WithLocals, Policy
<1>6. Candidates(policy, offered) =
        WithLocals(policy, WithOverrides(policy, Offered(policy, offered)))
  BY DEF Candidates
<1>7. HealthCandidates(policy, offered) \subseteq Candidates(policy, offered)
  BY DEF HealthCandidates
<1>8. QED
  BY <1>5, <1>6, <1>7

LEMMA SelectionTypes ==
  ASSUME NEW policy \in Policies, NEW offered \in OfferSets, NEW automatic \in SUBSET Source
  PROVE  /\ MaintainedOf(policy, offered, automatic) \subseteq Package
         /\ LegacyOf(policy, offered, automatic) \subseteq Package
<1>1. ASSUME NEW candidates, NEW withdrawn,
             \A c \in candidates : PackageOf(c) \in Package
      PROVE  Selected(candidates, withdrawn) \subseteq Package
  BY <1>1 DEF Selected, Best
<1>2. MaintainedOf(policy, offered, automatic)
        = Selected(HealthCandidates(policy, offered), automatic)
  BY DEF MaintainedOf
<1>3. LegacyOf(policy, offered, automatic) \subseteq
        Selected(Candidates(policy, offered), Excluded(policy, "legacy") \cup automatic)
  BY DEF LegacyOf
<1>4. \A c \in HealthCandidates(policy, offered) : PackageOf(c) \in Package
  BY CandidateTypes
<1>5. \A c \in Candidates(policy, offered) : PackageOf(c) \in Package
  BY CandidateTypes
<1>6. QED
  BY <1>1, <1>2, <1>3, <1>4, <1>5

-----------------------------------------------------------------------------
(* Candidates and the selection.                                            *)

(* A repository contributes one candidate for a source.                     *)
Unrivalled(candidates) ==
  \A c, d \in candidates : c.id = d.id /\ c.repo = d.repo => c = d

Ranked(candidates) == \A c \in candidates : c.repo \in {"mirror", "active", "local"}

LEMMA CandidatesUnrivalled ==
  ASSUME NEW policy \in Policies, NEW offered \in OfferSets
  PROVE  LET candidates == Candidates(policy, offered)
         IN  Unrivalled(candidates) /\ Ranked(candidates)
<1> DEFINE offers == Offered(policy, offered)
           pinned == WithOverrides(policy, offers)
           candidates == Candidates(policy, offered)
           applied == {p \in policy.overrides :
                         \A c \in ActiveMatch(offers, p) : c.version <= p.version}
<1>1. /\ offered \subseteq Offer
      /\ \A o, p \in offered : o.id = p.id /\ o.repo = p.repo => o = p
      /\ OneEach(policy.overrides) /\ OneEach(policy.locals)
  BY TreeAssumption
<1>2. Unrivalled(offers) /\ \A c \in offers : c.repo \in {"mirror", "active"}
  BY <1>1 DEF Offered, Unrivalled, Offer
<1>3. \A p, r : From(p, r).id = p.id /\ From(p, r).repo = r
  BY DEF From
<1>4. pinned = {c \in offers : c.repo # "active" \/ c.id \notin Ids(applied)}
                 \cup {From(p, "active") : p \in applied}
  BY DEF WithOverrides
<1> HIDE DEF offers, pinned
<1>5. OneEach(applied) /\ \A p \in applied : p.id \in Ids(applied)
  BY <1>1 DEF OneEach, Ids
<1> HIDE DEF applied
<1>6. Unrivalled(pinned) /\ \A c \in pinned : c.repo \in {"mirror", "active"}
  <2>1. \A c \in pinned : c.repo \in {"mirror", "active"}
    BY <1>2, <1>3, <1>4
  <2>2. ASSUME NEW c \in pinned, NEW d \in pinned, c.id = d.id, c.repo = d.repo
        PROVE  c = d
    <3>1. CASE c \in offers /\ d \in offers
      BY <1>2, <2>2, <3>1 DEF Unrivalled
    <3>2. CASE c \notin offers /\ d \notin offers
      <4>1. PICK p \in applied : c = From(p, "active")
        BY <1>4, <3>2
      <4>2. PICK q \in applied : d = From(q, "active")
        BY <1>4, <3>2
      <4>3. QED
        BY <1>3, <1>5, <2>2, <4>1, <4>2 DEF OneEach
    <3>3. \A x, y \in pinned : x.id = y.id /\ x.repo = y.repo /\ x \notin offers /\ y \in offers
            => y \in {From(p, "active") : p \in applied}
      BY <1>3, <1>4, <1>5
    <3>4. ASSUME NEW x \in {From(p, "active") : p \in applied},
                 NEW y \in {From(p, "active") : p \in applied}, x.id = y.id
          PROVE  x = y
      BY <1>3, <1>5, <3>4 DEF OneEach
    <3>5. \A x \in pinned : x \notin offers => x \in {From(p, "active") : p \in applied}
      BY <1>4
    <3>6. QED
      BY <2>2, <3>1, <3>2, <3>3, <3>4, <3>5
  <2>3. QED
    BY <2>1, <2>2 DEF Unrivalled
<1>7. candidates = {c \in pinned : c.id \notin Ids(policy.locals)}
                     \cup {From(p, "local") : p \in policy.locals}
  BY DEF Candidates, WithLocals, pinned, offers
<1> HIDE DEF candidates
<1>8. Ranked(candidates)
  BY <1>3, <1>6, <1>7 DEF Ranked
<1>9. ASSUME NEW c \in candidates, NEW d \in candidates, c.id = d.id, c.repo = d.repo
      PROVE  c = d
  <2>1. CASE c.repo = "local"
    <3>1. PICK p \in policy.locals : c = From(p, "local")
      BY <1>6, <1>7, <2>1
    <3>2. PICK q \in policy.locals : d = From(q, "local")
      BY <1>6, <1>7, <1>9, <2>1
    <3>3. QED
      BY <1>1, <1>3, <1>9, <3>1, <3>2 DEF OneEach
  <2>2. CASE c.repo # "local"
    BY <1>3, <1>6, <1>7, <1>9, <2>2 DEF Unrivalled
  <2>3. QED
    BY <2>1, <2>2
<1>10. Unrivalled(candidates)
  BY <1>9 DEF Unrivalled
<1>11. QED
  BY <1>8, <1>10 DEF candidates

(* Selecting loses no source that is not withdrawn, keeps one package of    *)
(* each, and takes the candidate of the best repository.                    *)
LEMMA SelectionOfUnrivalled ==
  ASSUME NEW candidates, Unrivalled(candidates), Ranked(candidates), NEW withdrawn
  PROVE  /\ Ids(Selected(candidates, withdrawn)) = Ids(candidates) \ withdrawn
         /\ OneEach(Selected(candidates, withdrawn))
         /\ \A c \in candidates :
              (c.id \notin withdrawn /\ \A d \in candidates : d.id = c.id => Rank[d.repo] <= Rank[c.repo])
                => PackageOf(c) \in Selected(candidates, withdrawn)
<1> DEFINE open == {d \in candidates : d.id \notin withdrawn}
           selected == Selected(candidates, withdrawn)
<1>1. selected = {PackageOf(c) : c \in Best(open)}
  BY DEF Selected
<1>2. \A c : PackageOf(c).id = c.id
  BY DEF PackageOf
<1>3. /\ Rank["mirror"] = 1 /\ Rank["active"] = 2 /\ Rank["local"] = 3
  BY DEF Rank
<1>4. Unrivalled(open) /\ Ranked(open)
  BY DEF Unrivalled, Ranked
<1>5. ASSUME NEW c \in open PROVE \E b \in Best(open) : b.id = c.id
  <2>1. CASE \E b \in open : b.id = c.id /\ b.repo = "local"
    BY <1>3, <1>4, <2>1 DEF Best, Ranked
  <2>2. CASE ~(\E b \in open : b.id = c.id /\ b.repo = "local")
             /\ \E b \in open : b.id = c.id /\ b.repo = "active"
    BY <1>3, <1>4, <2>2 DEF Best, Ranked
  <2>3. CASE /\ ~(\E b \in open : b.id = c.id /\ b.repo = "local")
             /\ ~(\E b \in open : b.id = c.id /\ b.repo = "active")
    BY <1>3, <1>4, <2>3 DEF Best, Ranked
  <2>4. QED
    BY <2>1, <2>2, <2>3
<1>6. Best(open) \subseteq open
  BY DEF Best
<1>7. Ids(selected) = Ids(candidates) \ withdrawn
  <2>1. Ids(selected) = {c.id : c \in Best(open)}
    BY <1>1, <1>2 DEF Ids
  <2>2. {c.id : c \in Best(open)} = {c.id : c \in open}
    BY <1>5, <1>6
  <2>3. {c.id : c \in open} = Ids(candidates) \ withdrawn
    BY DEF Ids
  <2>4. QED
    BY <2>1, <2>2, <2>3
<1>8. OneEach(selected)
  <2>1. ASSUME NEW c \in Best(open), NEW d \in Best(open), c.id = d.id PROVE c = d
    <3>1. Rank[c.repo] <= Rank[d.repo] /\ Rank[d.repo] <= Rank[c.repo]
      BY <1>6, <2>1 DEF Best
    <3>2. c.repo \in {"mirror", "active", "local"} /\ d.repo \in {"mirror", "active", "local"}
      BY <1>4, <1>6 DEF Ranked
    <3>3. c.repo = d.repo
      BY <1>3, <3>1, <3>2
    <3>4. QED
      BY <1>4, <1>6, <2>1, <3>3 DEF Unrivalled
  <2>2. ASSUME NEW p \in selected, NEW q \in selected, p.id = q.id PROVE p = q
    <3>1. PICK c \in Best(open) : p = PackageOf(c)
      BY <1>1
    <3>2. PICK d \in Best(open) : q = PackageOf(d)
      BY <1>1
    <3>3. QED
      BY <1>2, <2>1, <2>2, <3>1, <3>2
  <2>3. QED
    BY <2>2 DEF OneEach
<1>9. ASSUME NEW c \in candidates, c.id \notin withdrawn,
             \A d \in candidates : d.id = c.id => Rank[d.repo] <= Rank[c.repo]
      PROVE  PackageOf(c) \in selected
  BY <1>1, <1>9 DEF Best
<1>10. QED
  BY <1>7, <1>8, <1>9

(* Packages with distinct identifiers are as many as their identifiers.     *)
LEMMA CountOfIds ==
  ASSUME NEW packages \in SUBSET Package, OneEach(packages)
  PROVE  Cardinality(packages) = Cardinality(Ids(packages))
<1> DEFINE f == [p \in packages |-> p.id]
<1>1. f \in Bijection(packages, Ids(packages))
  BY DEF Bijection, Injection, Surjection, IsInjective, Ids, OneEach
<1>2. Ids(packages) \in SUBSET Source
  BY DEF Ids, Package
<1>3. IsFiniteSet(Ids(packages))
  BY <1>2, TreeAssumption, FS_Subset
<1>4. f \in Injection(packages, Ids(packages)) /\ f \in Surjection(packages, Ids(packages))
  BY <1>1 DEF Bijection
<1> HIDE DEF f
<1>5. QED
  BY <1>3, <1>4, FS_Injection

-----------------------------------------------------------------------------
(* What is generated against what is validated.                             *)

(* Override and local candidates of a policy that pins no source twice.     *)
LEMMA PinnedCandidates ==
  ASSUME NEW policy \in Policies, NEW offered \in OfferSets,
         OverridesFound(policy, Offered(policy, offered)),
         Ids(policy.overrides) \cap Ids(policy.locals) = {}
  PROVE  LET candidates == Candidates(policy, offered)
         IN  /\ \A p \in policy.locals : From(p, "local") \in candidates
             /\ \A p \in policy.overrides :
                  \E c \in candidates :
                    /\ c.id = p.id /\ c.repo = "active"
                    /\ c.version > p.version \/ PackageOf(c) = p
             /\ \A p \in policy.overrides, d \in candidates : d.id = p.id => d.repo # "local"
<1> DEFINE offers == Offered(policy, offered)
           pinned == WithOverrides(policy, offers)
           candidates == Candidates(policy, offered)
           applied == {p \in policy.overrides :
                         \A c \in ActiveMatch(offers, p) : c.version <= p.version}
<1>1. /\ offered \subseteq Offer /\ policy \in Policy /\ OneEach(policy.overrides)
  BY TreeAssumption
<1>2. /\ \A p, r : From(p, r).id = p.id /\ From(p, r).repo = r
      /\ \A p \in Package : \A r : PackageOf(From(p, r)) = p
  BY DEF From, PackageOf, Package
<1>3. candidates = {c \in pinned : c.id \notin Ids(policy.locals)}
                     \cup {From(p, "local") : p \in policy.locals}
  BY DEF Candidates, WithLocals
<1>4. pinned = {c \in offers : c.repo # "active" \/ c.id \notin Ids(applied)}
                 \cup {From(p, "active") : p \in applied}
  BY DEF WithOverrides
<1>5. \A c \in offers : c.version \in Nat /\ c.repo \in {"active", "mirror"}
  BY <1>1 DEF Offered, Offer
<1> HIDE DEF offers, pinned, candidates
<1>6. ASSUME NEW p \in policy.overrides
      PROVE  /\ p \in Package /\ p.version \in Nat
             /\ p.id \in Ids(policy.overrides) /\ p.id \notin Ids(policy.locals)
  BY <1>1 DEF Policy, Package, Ids
<1>7. ASSUME NEW p \in policy.overrides
      PROVE  \E c \in candidates :
               /\ c.id = p.id /\ c.repo = "active"
               /\ c.version > p.version \/ PackageOf(c) = p
  <2>1. CASE p \in applied
    <3>1. From(p, "active") \in pinned
      BY <1>4, <2>1
    <3>2. From(p, "active") \in candidates
      BY <1>2, <1>3, <1>6, <3>1
    <3>3. QED
      BY <1>2, <1>6, <3>2
  <2>2. CASE p \notin applied
    <3>1. PICK c \in offers : c.id = p.id /\ c.repo = "active" /\ ~(c.version <= p.version)
      BY <2>2 DEF ActiveMatch
    <3>2. c.version > p.version
      BY <1>5, <1>6, <3>1
    <3>3. p.id \notin Ids(applied)
      BY <1>1, <2>2 DEF OneEach, Ids
    <3>4. c \in candidates
      BY <1>3, <1>4, <1>6, <3>1, <3>3
    <3>5. QED
      BY <3>1, <3>2, <3>4
  <2>3. QED
    BY <2>1, <2>2
<1>8. \A p \in policy.locals : From(p, "local") \in candidates
  BY <1>3
<1>9. ASSUME NEW p \in policy.overrides, NEW d \in candidates, d.id = p.id
      PROVE  d.repo # "local"
  <2>1. d \in pinned
    BY <1>2, <1>3, <1>6, <1>9 DEF Ids
  <2>2. QED
    BY <1>2, <1>4, <1>5, <2>1
<1>10. QED
  BY <1>7, <1>8, <1>9 DEF candidates

(* Of a policy whose pins are offered and whose needs are health            *)
(* candidates, a run that passes its own gates generates a tree that the    *)
(* validator accepts, unless a pinned or promoted source is in quarantine.  *)
LEMMA GeneratedValid ==
  ASSUME NEW tree, tree.policy \in Policies, NEW offered \in OfferSets,
         NEW health, health.sick \subseteq Source,
         OverridesFound(tree.policy, Offered(tree.policy, offered)),
         Ids(tree.policy.overrides) \cap Ids(tree.policy.locals) = {},
         \A s \in Source : tree.policy.manual[s] \in {{}, Scope},
         Ids(tree.policy.locals) \subseteq tree.policy.promoted,
         tree.policy.promoted \cup Ids(tree.policy.overrides)
           \subseteq Ids(HealthCandidates(tree.policy, offered)),
         RunPasses(tree, offered, Generate(tree, offered, health))
  PROVE  LET new == Generate(tree, offered, health)
         IN  Valid(new) <=>
               new.health.sick \cap (tree.policy.promoted \cup Ids(tree.policy.overrides))
                 \subseteq tree.policy.required
<1> DEFINE policy == tree.policy
           candidates == Candidates(policy, offered)
           probed == HealthCandidates(policy, offered)
           automatic == Automatic(tree, health)
           maintained == MaintainedOf(policy, offered, automatic)
           legacy == LegacyOf(policy, offered, automatic)
           kept == Forget(health, Excluded(policy, "maintained"))
           new == Generate(tree, offered, health)
           needed == policy.promoted \cup Ids(policy.overrides)
           Fine == new.health.sick \cap needed \subseteq policy.required
<1>1. automatic = health.sick \ policy.required /\ automatic \in SUBSET Source
  BY DEF Automatic
<1>2. /\ new.policy = policy /\ new.listing = maintained /\ new.packages = maintained
      /\ new.legacy = legacy /\ new.health = kept
      /\ new.status = StatusOf(policy, kept, maintained, legacy, automatic)
  BY DEF Generate
<1>3. kept.sick = health.sick \ Excluded(policy, "maintained")
  BY DEF Forget
<1>4. /\ maintained \in SUBSET Package /\ legacy \in SUBSET Package
  BY <1>1, SelectionTypes
<1>5. Unrivalled(candidates) /\ Ranked(candidates) /\ probed \subseteq candidates
  BY CandidatesUnrivalled, CandidateTypes
<1>6. Unrivalled(probed) /\ Ranked(probed)
  BY <1>5 DEF Unrivalled, Ranked
<1>7. /\ maintained = Selected(probed, automatic)
      /\ legacy = {p \in Selected(candidates, Excluded(policy, "legacy") \cup automatic) :
                    p.id \notin Ids(maintained)}
  BY DEF MaintainedOf, LegacyOf
<1>8. Excluded(policy, "maintained") = Manual(policy) /\ Excluded(policy, "legacy") = Manual(policy)
  BY DEF Excluded, Manual, Scope
<1>9. Ids(probed) \cap Manual(policy) = {} /\ needed \subseteq Ids(probed)
  BY <1>8 DEF HealthCandidates, Ids
<1>10. \A c \in candidates : c.repo = "active" \/ c.id \in policy.promoted
         => c.id \in Manual(policy) \/ c \in probed
  BY <1>8 DEF HealthCandidates
<1>11. /\ SelectionPasses(Ids(tree.listing), Ids(maintained), MinimumMaintained, policy.required)
       /\ SelectionPasses(Ids(tree.legacy) \ Ids(tree.listing), Ids(legacy), MinimumLegacy, {})
  BY <1>2 DEF RunPasses
<1>12. /\ \A p \in policy.locals : From(p, "local") \in candidates
       /\ \A p \in policy.overrides :
            \E c \in candidates :
              /\ c.id = p.id /\ c.repo = "active"
              /\ c.version > p.version \/ PackageOf(c) = p
       /\ \A p \in policy.overrides, d \in candidates : d.id = p.id => d.repo # "local"
  BY PinnedCandidates
<1>13. policy.locals \subseteq Package /\ policy.overrides \subseteq Package
  BY TreeAssumption DEF Policy
<1> HIDE DEF policy, candidates, probed, automatic, maintained, legacy, kept, new
<1>14. Ids(maintained) = Ids(probed) \ automatic /\ OneEach(maintained)
  BY <1>6, <1>7, SelectionOfUnrivalled
<1>15. /\ Ids(legacy) \subseteq Ids(candidates) \ (Manual(policy) \cup automatic)
       /\ Ids(legacy) \cap Ids(maintained) = {}
       /\ OneEach(legacy)
  <2> DEFINE wide == Selected(candidates, Excluded(policy, "legacy") \cup automatic)
  <2>1. /\ Ids(wide) = Ids(candidates) \ (Excluded(policy, "legacy") \cup automatic)
        /\ OneEach(wide)
    BY <1>5, SelectionOfUnrivalled
  <2> HIDE DEF wide
  <2>2. legacy = {p \in wide : p.id \notin Ids(maintained)}
    BY <1>7 DEF wide
  <2>3. QED
    BY <1>8, <2>1, <2>2 DEF Ids, OneEach
<1>16. /\ Cardinality(maintained) = Cardinality(Ids(maintained))
       /\ Cardinality(legacy) = Cardinality(Ids(legacy))
  BY <1>4, <1>14, <1>15, CountOfIds
<1>17. ValidCatalog(maintained, maintained) /\ ValidCatalog(legacy, legacy)
  BY <1>14, <1>15 DEF ValidCatalog, HasFile, NoStrays, InventoryMatches
<1>18. QuarantineHolds(new) /\ RequiredListed(new) /\ LargeEnough(new)
  <2>1. QuarantineHolds(new)
    BY <1>2, <1>8, <1>9, <1>14, <1>15 DEF QuarantineHolds
  <2>2. RequiredListed(new) /\ LargeEnough(new)
    BY <1>2, <1>11 DEF RequiredListed, LargeEnough, SelectionPasses
  <2>3. QED
    BY <2>1, <2>2
<1>19. ValidStatus(new)
  <2>1. Manual(policy) \cap Recorded(kept) = {}
    <3>1. ASSUME NEW s \in Manual(policy), s \in Source
          PROVE  s \notin kept.sick /\ ~(kept.streak[s].fails > 0)
      <4>1. kept.streak[s] = NoStreak
        BY <1>8, <3>1 DEF kept, Forget, policy
      <4>2. QED
        BY <1>3, <1>8, <3>1, <4>1 DEF NoStreak
    <3>2. QED
      BY <3>1 DEF Recorded, Manual
  <2>2. (Manual(policy) \cup automatic) \cap (Ids(maintained) \cup Ids(legacy)) = {}
    BY <1>9, <1>14, <1>15
  <2> DEFINE status == StatusOf(policy, kept, maintained, legacy, automatic)
  <2>3. /\ status.maintained = Cardinality(maintained)
        /\ status.legacyOnly = Cardinality(legacy)
        /\ status.manual = Manual(policy)
        /\ status.automatic = Recorded(kept) \cap automatic
        /\ status.degraded = Recorded(kept) \ automatic
    BY DEF StatusOf
  <2> HIDE DEF status
  <2>4. new.status = status
    BY <1>2 DEF status
  <2>5. QED
    BY <1>2, <1>16, <2>1, <2>2, <2>3, <2>4 DEF ValidStatus
<1>20. Valid(new) <=> PinsPublished(new) /\ PromotedListed(new) /\ LocalsPublished(new)
  BY <1>2, <1>15, <1>17, <1>18, <1>19 DEF Valid, ValidPolicy
<1>21. Fine <=> needed \cap automatic = {}
  BY <1>1, <1>2, <1>3, <1>8, <1>9
<1>22. ASSUME PromotedListed(new), PinsPublished(new) PROVE Fine
  <2>1. policy.promoted \subseteq Ids(maintained)
    BY <1>2, <1>22 DEF PromotedListed
  <2>2. Ids(policy.overrides) \subseteq Ids(maintained)
    BY <1>2, <1>22 DEF PinsPublished, Ids
  <2>3. QED
    BY <1>14, <1>21, <2>1, <2>2
<1>23. ASSUME Fine PROVE PromotedListed(new) /\ LocalsPublished(new) /\ PinsPublished(new)
  <2>1. needed \subseteq Ids(maintained) /\ needed \cap automatic = {}
    BY <1>9, <1>14, <1>21, <1>23
  <2>2. PromotedListed(new)
    BY <1>2, <2>1 DEF PromotedListed
  <2>3. ASSUME NEW c \in probed, c.id \in needed,
               \A d \in candidates : d.id = c.id => Rank[d.repo] <= Rank[c.repo]
        PROVE  PackageOf(c) \in maintained
    BY <1>5, <1>6, <1>7, <2>1, <2>3, SelectionOfUnrivalled
  <2>4. Rank["mirror"] = 1 /\ Rank["active"] = 2 /\ Rank["local"] = 3
    BY DEF Rank
  <2>5. ASSUME NEW p \in policy.locals PROVE p \in maintained
    <3> DEFINE c == From(p, "local")
    <3>1. c.id = p.id /\ c.repo = "local" /\ PackageOf(c) = p /\ c \in candidates
      BY <1>12, <1>13 DEF From, PackageOf, Package
    <3> HIDE DEF c
    <3>2. p.id \in policy.promoted
      BY DEF policy, Ids
    <3>3. c \in probed
      BY <1>9, <1>10, <3>1, <3>2
    <3>4. \A d \in candidates : Rank[d.repo] <= Rank[c.repo]
      BY <1>5, <2>4, <3>1 DEF Ranked
    <3>5. QED
      BY <2>3, <3>1, <3>2, <3>3, <3>4
  <2>6. LocalsPublished(new)
    BY <1>2, <2>5 DEF LocalsPublished, policy
  <2>7. ASSUME NEW p \in policy.overrides
        PROVE  \E q \in maintained : q.id = p.id /\ (q.version > p.version \/ q = p)
    <3>1. PICK c \in candidates :
            /\ c.id = p.id /\ c.repo = "active"
            /\ c.version > p.version \/ PackageOf(c) = p
      BY <1>12
    <3>2. c.id \in needed
      BY <3>1 DEF Ids
    <3>3. c \in probed
      BY <1>9, <1>10, <3>1, <3>2
    <3>4. \A d \in candidates : d.id = c.id => Rank[d.repo] <= Rank[c.repo]
      BY <1>5, <1>12, <2>4, <3>1 DEF Ranked
    <3>5. PackageOf(c) \in maintained
      BY <2>3, <3>2, <3>3, <3>4
    <3>6. PackageOf(c).id = c.id /\ PackageOf(c).version = c.version
      BY DEF PackageOf
    <3>7. QED
      BY <3>1, <3>5, <3>6
  <2>8. PinsPublished(new)
    BY <1>2, <2>7 DEF PinsPublished
  <2>9. QED
    BY <2>2, <2>6, <2>8
<1>24. QED
  BY <1>20, <1>22, <1>23 DEF new, policy

=============================================================================
