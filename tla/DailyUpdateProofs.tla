--------------------------- MODULE DailyUpdateProofs ---------------------------
(***************************************************************************)
(* Proofs about DailyUpdate for all policies, upstream contents, thresholds*)
(* and limits: what a run commits has its type, the bot's pushes implement *)
(* PublishedFeed, and the rollback snapshot is the catalog that the push   *)
(* replaced.                                                               *)
(***************************************************************************)
EXTENDS DailyUpdate, CatalogTreeProofs

IsTree(tree) ==
  tree = [policy |-> tree.policy, listing |-> tree.listing, packages |-> tree.packages,
          legacy |-> tree.legacy, health |-> tree.health, status |-> tree.status,
          rollback |-> tree.rollback]

Trees == IsTree(main) /\ IsTree(base) /\ IsTree(work)

(* The commit of a job that has not rebased yet: its policy is the policy   *)
(* it started from, its snapshot the catalog it started from, and main's    *)
(* snapshot did not change in the meantime.                                 *)
CommitSound ==
  phase = "committed" =>
    /\ work.policy = base.policy
    /\ work.rollback = base.listing
    /\ main.rollback = base.rollback

(* A rebased commit that may still be pushed was validated against the      *)
(* policy of main, and snapshots the catalog it replaces.                   *)
RebaseSound ==
  phase = "rebased" /\ ~moved =>
    /\ work.policy = main.policy
    /\ Valid(work)
    /\ work.listing # main.listing => work.rollback = main.listing

IInv == TypeOK /\ Trees /\ CommitSound /\ RebaseSound

-----------------------------------------------------------------------------
(* What is generated.                                                       *)

LEMMA ExtendType ==
  ASSUME NEW old \in [fails : 0..FailureThreshold, oks : 0..RecoveryThreshold],
         NEW seen \in Health!Seen
  PROVE  Health!Extend(old, seen) \in [fails : 0..FailureThreshold, oks : 0..RecoveryThreshold]
<1>1. \A bound \in Nat : \A n \in 0..bound : Health!Capped(n + 1, bound) \in 0..bound
  BY DEF Health!Capped
<1>2. FailureThreshold \in Nat /\ RecoveryThreshold \in Nat
  BY TreeAssumption
<1>3. CASE seen = "none"
  BY <1>3 DEF Health!Extend
<1>4. CASE seen = "healthy"
  BY <1>1, <1>2, <1>4 DEF Health!Extend
<1>5. CASE seen = "failed"
  BY <1>1, <1>2, <1>5 DEF Health!Extend
<1>6. CASE seen = "protected"
  BY <1>2, <1>6 DEF Health!Extend
<1>7. QED
  BY <1>3, <1>4, <1>5, <1>6 DEF Health!Seen

LEMMA SweptType ==
  ASSUME NEW health \in HealthType, NEW policy, NEW seen \in [Source -> Health!Seen]
  PROVE  Swept(health, policy, seen) \in HealthType
<1> DEFINE new == [s \in Source |-> Health!Extend(health.streak[s], seen[s])]
           judged == Health!Judged(health.sick, new) \ policy.required
           sick == (health.sick \ Heard(seen)) \cup (judged \cap Heard(seen))
           streak == [s \in Source |-> IF s \in sick THEN new[s] ELSE [new[s] EXCEPT !.oks = 0]]
<1>1. \A s \in Source : new[s] \in [fails : 0..FailureThreshold, oks : 0..RecoveryThreshold]
  BY ExtendType DEF HealthType
<1>2. sick \subseteq Source
  BY DEF HealthType, Health!Judged
<1> HIDE DEF new, sick
<1>3. \A s \in Source : [new[s] EXCEPT !.oks = 0]
                          \in [fails : 0..FailureThreshold, oks : 0..RecoveryThreshold]
  BY <1>1, TreeAssumption
<1>4. streak \in [Source -> [fails : 0..FailureThreshold, oks : 0..RecoveryThreshold]]
  BY <1>1, <1>3
<1>5. [streak |-> streak, sick |-> sick, swept |-> TRUE] \in HealthType
  BY <1>2, <1>4 DEF HealthType
<1>6. QED
  BY <1>5 DEF Swept, new, sick

LEMMA ForgetType ==
  ASSUME NEW health \in HealthType, NEW sources
  PROVE  Forget(health, sources) \in HealthType
<1>1. NoStreak \in [fails : 0..FailureThreshold, oks : 0..RecoveryThreshold]
  BY TreeAssumption DEF NoStreak
<1>2. [s \in Source |-> IF s \in sources THEN NoStreak ELSE health.streak[s]]
        \in [Source -> [fails : 0..FailureThreshold, oks : 0..RecoveryThreshold]]
  BY <1>1 DEF HealthType
<1>3. QED
  BY <1>2 DEF Forget, HealthType

(* What a run makes of a checkout.                                          *)
LEMMA GeneratedTree ==
  ASSUME NEW tree, TreeShape(tree), NEW offered \in OfferSets, NEW health \in HealthType
  PROVE  LET new == Generate(tree, offered, health)
         IN  TreeShape(new) /\ IsTree(new) /\ new.policy = tree.policy
             /\ new.rollback = tree.listing
<1> DEFINE new == Generate(tree, offered, health)
           automatic == Automatic(tree, health)
<1>1. automatic \in SUBSET Source
  BY DEF Automatic, HealthType
<1>2. /\ MaintainedOf(tree.policy, offered, automatic) \subseteq Package
      /\ LegacyOf(tree.policy, offered, automatic) \subseteq Package
  BY <1>1, SelectionTypes DEF TreeShape
<1>3. Forget(health, Excluded(tree.policy, "maintained")) \in HealthType
  BY ForgetType
<1>4. /\ new.policy = tree.policy
      /\ new.listing = MaintainedOf(tree.policy, offered, automatic)
      /\ new.packages = MaintainedOf(tree.policy, offered, automatic)
      /\ new.legacy = LegacyOf(tree.policy, offered, automatic)
      /\ new.health = Forget(health, Excluded(tree.policy, "maintained"))
      /\ new.rollback = tree.listing
      /\ IsTree(new)
  BY DEF Generate, Snapshot, IsTree
<1>5. QED
  BY <1>2, <1>3, <1>4 DEF TreeShape

LEMMA SweepType ==
  ASSUME NEW tree, TreeShape(tree), NEW offered, NEW answering,
         NEW health \in HealthsAfter(tree, offered, answering)
  PROVE  health \in HealthType
<1>1. CASE tree.health.swept
  BY <1>1 DEF HealthsAfter, TreeShape
<1>2. CASE ~tree.health.swept
  <2>1. PICK seen \in [Source -> Health!Seen] : health = Swept(tree.health, tree.policy, seen)
    BY <1>2 DEF HealthsAfter, Sweeps
  <2>2. QED
    BY <2>1, SweptType DEF TreeShape
<1>3. QED
  BY <1>1, <1>2

LEMMA EmptyTree == TreeShape(NoCheckout) /\ IsTree(NoCheckout)
<1>1. [s \in Source |-> NoStreak]
        \in [Source -> [fails : 0..FailureThreshold, oks : 0..RecoveryThreshold]]
  BY TreeAssumption DEF NoStreak
<1>2. [streak |-> [s \in Source |-> NoStreak], sick |-> {}, swept |-> FALSE] \in HealthType
  BY <1>1 DEF HealthType
<1>3. QED
  BY <1>2, UpdateAssumption DEF NoCheckout, TreeShape, IsTree

-----------------------------------------------------------------------------
(* The jobs.                                                                *)

LEMMA InitInvariant == Init => IInv
<1> SUFFICES ASSUME Init PROVE IInv
  OBVIOUS
<1>1. TreeShape(NoCheckout) /\ IsTree(NoCheckout)
  BY EmptyTree
<1> DEFINE health == [NoCheckout.health EXCEPT !.swept = TRUE]
           tree == Generate(NoCheckout, offers, health)
<1>2. health \in HealthType
  BY <1>1 DEF TreeShape, HealthType
<1> HIDE DEF health
<1>3. TreeShape(tree) /\ IsTree(tree)
  BY <1>1, <1>2, GeneratedTree DEF Init
<1> HIDE DEF tree
<1>4. main = [tree EXCEPT !.rollback = tree.listing]
  BY DEF Init, FirstTree, tree, health
<1>5. TreeShape(main) /\ IsTree(main)
  BY <1>3, <1>4 DEF TreeShape, IsTree
<1>6. TypeOK
  BY <1>1, <1>5 DEF TypeOK, Init
<1>7. QED
  BY <1>1, <1>5, <1>6 DEF IInv, Trees, CommitSound, RebaseSound, Init

LEMMA CommitUpdateStep == IInv /\ CommitUpdate => IInv'
<1> SUFFICES ASSUME IInv, CommitUpdate PROVE IInv'
  OBVIOUS
<1>1. TreeShape(main) /\ IsTree(main) /\ offers \in OfferSets
  BY DEF IInv, TypeOK, Trees
<1>2. PICK health \in HealthsAfter(main, offers, up) : CommitWith(health)
  BY DEF CommitUpdate
<1>3. health \in HealthType /\ work' = Generate(main, offers, health)
  BY <1>1, <1>2, SweepType DEF CommitWith
<1>4. /\ TreeShape(work') /\ IsTree(work')
      /\ work'.policy = main.policy /\ work'.rollback = main.listing
  BY <1>1, <1>3, GeneratedTree
<1>5. /\ main' = main /\ base' = main /\ phase' = "committed" /\ pending' = FALSE
      /\ author' = author /\ moved' = moved /\ offers' = offers /\ up' = up
  BY <1>2 DEF CommitUpdate, StartsCommit, CommitWith, world
<1>6. TypeOK'
  BY <1>1, <1>4, <1>5 DEF IInv, TypeOK, TreeShape
<1>7. QED
  BY <1>1, <1>4, <1>5, <1>6 DEF IInv, Trees, IsTree, CommitSound, RebaseSound

(* The merged tree field by field.                                          *)
LEMMA MergedTree ==
  ASSUME Trees
  PROVE  /\ IsTree(Merged)
         /\ Merged.policy = IF work.policy = base.policy THEN main.policy ELSE work.policy
         /\ Merged.listing = IF work.listing = base.listing THEN main.listing ELSE work.listing
         /\ Merged.packages = IF work.packages = base.packages THEN main.packages ELSE work.packages
         /\ Merged.legacy = IF work.legacy = base.legacy THEN main.legacy ELSE work.legacy
         /\ Merged.health = IF work.health = base.health THEN main.health ELSE work.health
         /\ Merged.rollback = IF work.rollback = base.rollback THEN main.rollback ELSE work.rollback
<1>1. DOMAIN main = {"policy", "listing", "packages", "legacy", "health", "status", "rollback"}
  BY DEF Trees, IsTree
<1>2. QED
  BY <1>1 DEF Merged, IsTree

LEMMA RebaseStep == IInv /\ Rebase => IInv'
<1> SUFFICES ASSUME IInv, Rebase PROVE IInv'
  OBVIOUS
<1>1. /\ Trees /\ CommitSound
      /\ TreeShape(main) /\ TreeShape(base) /\ TreeShape(work)
  BY DEF IInv, TypeOK
<1>2. /\ work' = Merged /\ main' = main /\ base' = NoCheckout
      /\ phase = "committed" /\ phase' = "rebased" /\ ~moved'
      /\ Valid(Merged)
  BY DEF Rebase, RebasedTreePasses
<1>3. TreeShape(Merged) /\ IsTree(Merged)
  BY <1>1, MergedTree DEF TreeShape
<1>4. TypeOK'
  BY <1>1, <1>2, <1>3, EmptyTree DEF IInv, TypeOK, TreeShape, Rebase, world
<1>5. Trees'
  BY <1>1, <1>2, <1>3, EmptyTree DEF Trees, IsTree
<1>6. Merged.policy = main.policy
  BY <1>1, <1>2, MergedTree DEF CommitSound
<1>7. ASSUME Merged.listing # main.listing
      PROVE  Merged.rollback = main.listing
  <2>1. Merged.listing = work.listing /\ work.listing # base.listing
    BY <1>1, <1>7, MergedTree
  <2>2. "listing" \in DOMAIN main
    BY <1>1 DEF Trees, IsTree
  <2>3. Clean(base.listing, work.listing, main.listing)
    BY <2>2 DEF Rebase, Mergeable
  <2>4. main.listing = base.listing
    BY <1>7, <2>1, <2>3 DEF Clean
  <2>5. work.rollback = main.listing /\ main.rollback = base.rollback
    BY <1>1, <1>2, <2>4 DEF CommitSound
  <2>6. QED
    BY <1>1, <2>5, MergedTree
<1>8. Valid(work')
  BY <1>2
<1>9. RebaseSound'
  BY <1>2, <1>6, <1>7, <1>8 DEF RebaseSound
<1>10. CommitSound'
  BY <1>2 DEF CommitSound
<1>11. QED
  BY <1>4, <1>5, <1>9, <1>10 DEF IInv

LEMMA EndsStep == IInv /\ (Push \/ JobDies \/ GiveUp) => IInv'
<1>1. ASSUME IInv, Push PROVE IInv'
  <2>1. /\ main' = work /\ base' = NoCheckout /\ work' = NoCheckout /\ phase' = "idle"
        /\ author' \in {"bot", "people"}
    BY <1>1 DEF Push, EndJob, IInv, TypeOK
  <2>2. TypeOK'
    BY <1>1, <2>1, EmptyTree DEF IInv, TypeOK, TreeShape, Push, world
  <2>3. Trees'
    BY <1>1, <2>1, EmptyTree DEF IInv, Trees, IsTree
  <2>4. QED
    BY <2>1, <2>2, <2>3 DEF IInv, CommitSound, RebaseSound
<1>2. ASSUME IInv, JobDies PROVE IInv'
  <2>1. /\ main' = main /\ base' = NoCheckout /\ work' = NoCheckout /\ phase' = "idle"
    BY <1>2 DEF JobDies, EndJob
  <2>2. TypeOK'
    BY <1>2, <2>1, EmptyTree DEF IInv, TypeOK, TreeShape, JobDies, world
  <2>3. Trees'
    BY <1>2, <2>1, EmptyTree DEF IInv, Trees, IsTree
  <2>4. QED
    BY <2>1, <2>2, <2>3 DEF IInv, CommitSound, RebaseSound
<1>3. ASSUME IInv, GiveUp PROVE IInv'
  BY <1>3 DEF IInv, TypeOK, TreeShape, Trees, IsTree, CommitSound, RebaseSound, GiveUp, job, world
<1>4. QED
  BY <1>1, <1>2, <1>3

(* People move main away under a job: a rebased one may not push any more.  *)
LEMMA PeopleStep == IInv /\ (Edit \/ Restore) => IInv'
<1>1. ASSUME IInv, NEW tree, Commit(tree), TreeShape(tree), IsTree(tree),
             tree.rollback = main.rollback, pending' \in BOOLEAN
      PROVE  IInv'
  <2>1. /\ main' = tree /\ author' = "people" /\ moved' = (phase = "rebased")
        /\ phase' = phase /\ base' = base /\ work' = work
        /\ offers' = offers /\ up' = up
    BY <1>1 DEF Commit, job, world
  <2>2. TypeOK'
    BY <1>1, <2>1 DEF IInv, TypeOK, TreeShape
  <2>3. Trees'
    BY <1>1, <2>1 DEF IInv, Trees, IsTree
  <2>4. CommitSound'
    BY <1>1, <2>1 DEF IInv, CommitSound
  <2>5. RebaseSound'
    BY <2>1 DEF RebaseSound
  <2>6. QED
    BY <2>2, <2>3, <2>4, <2>5 DEF IInv
<1>2. ASSUME IInv PROVE TreeShape(main) /\ IsTree(main) /\ pending \in BOOLEAN
  BY <1>2 DEF IInv, TypeOK, Trees
<1>3. ASSUME IInv, Edit PROVE IInv'
  <2>1. PICK policy \in Policies : Commit([main EXCEPT !.policy = policy]) /\ pending' = TRUE
    BY <1>3 DEF Edit
  <2> DEFINE tree == [main EXCEPT !.policy = policy]
  <2>2. TreeShape(tree) /\ IsTree(tree) /\ tree.rollback = main.rollback
    BY <1>2, <1>3 DEF TreeShape, IsTree
  <2>3. QED
    BY <1>1, <1>3, <2>1, <2>2
<1>4. ASSUME IInv, Restore PROVE IInv'
  <2> DEFINE tree == [main EXCEPT !.listing = main.rollback, !.packages = main.rollback]
  <2> DEFINE half == [main EXCEPT !.listing = main.rollback]
  <2>1. /\ TreeShape(half) /\ IsTree(half)
        /\ half.rollback = main.rollback /\ half.listing = main.rollback
    BY <1>2, <1>4 DEF TreeShape, IsTree
  <2>2. tree = [half EXCEPT !.packages = main.rollback]
    BY <1>2, <1>4 DEF IsTree
  <2> HIDE DEF tree, half
  <2>3. TreeShape(tree) /\ IsTree(tree) /\ tree.rollback = main.rollback
    BY <2>1, <2>2 DEF TreeShape, IsTree
  <2> USE DEF tree
  <2>4. Commit(tree) /\ pending' \in BOOLEAN
    BY <1>2, <1>4 DEF Restore
  <2>5. QED
    BY <1>1, <1>4, <2>3, <2>4
<1>5. QED
  BY <1>3, <1>4

(* Midnight changes one field of the health state.                          *)
LEMMA YesterdayTree ==
  ASSUME NEW tree, IsTree(tree), TreeShape(tree)
  PROVE  /\ IsTree(Yesterday(tree)) /\ TreeShape(Yesterday(tree))
         /\ Yesterday(tree).policy = tree.policy
         /\ Yesterday(tree).listing = tree.listing
         /\ Yesterday(tree).packages = tree.packages
         /\ Yesterday(tree).legacy = tree.legacy
         /\ Yesterday(tree).rollback = tree.rollback
         /\ Valid(tree) => Valid(Yesterday(tree))
<1> DEFINE health == [tree.health EXCEPT !.swept = FALSE]
<1>1. health \in HealthType /\ health.sick = tree.health.sick /\ health.streak = tree.health.streak
  BY DEF TreeShape, HealthType
<1>2. Recorded(health) = Recorded(tree.health)
  BY <1>1 DEF Recorded
<1>3. Yesterday(tree) = [tree EXCEPT !.health = health]
  BY DEF Yesterday
<1> HIDE DEF health
<1>4. Yesterday(tree) =
        [policy |-> tree.policy, listing |-> tree.listing, packages |-> tree.packages,
         legacy |-> tree.legacy, health |-> health, status |-> tree.status,
         rollback |-> tree.rollback]
  BY <1>3 DEF IsTree
<1>5. IsTree(Yesterday(tree)) /\ TreeShape(Yesterday(tree))
  BY <1>1, <1>4 DEF IsTree, TreeShape
<1> DEFINE y == Yesterday(tree)
<1>6. /\ y.policy = tree.policy /\ y.listing = tree.listing /\ y.packages = tree.packages
      /\ y.legacy = tree.legacy /\ y.status = tree.status /\ Recorded(y.health) = Recorded(tree.health)
  BY <1>2, <1>4
<1> HIDE DEF y
<1>7. Valid(tree) => Valid(y)
  BY <1>6 DEF Valid, ValidPolicy, QuarantineHolds, RequiredListed, PinsPublished,
              PromotedListed, LocalsPublished, LargeEnough, ValidStatus
<1>8. QED
  BY <1>4, <1>5, <1>7 DEF y

LEMMA NewDayStep == IInv /\ NewDay => IInv'
<1> SUFFICES ASSUME IInv, NewDay PROVE IInv'
  OBVIOUS
<1>1. /\ TreeShape(main) /\ TreeShape(base) /\ TreeShape(work)
      /\ IsTree(main) /\ IsTree(base) /\ IsTree(work)
  BY DEF IInv, TypeOK, Trees
<1>2. /\ main' = Yesterday(main) /\ base' = Yesterday(base) /\ work' = Yesterday(work)
      /\ phase' = phase /\ moved' = moved
  BY DEF NewDay
<1>3. TypeOK'
  BY <1>1, <1>2, YesterdayTree DEF IInv, TypeOK, TreeShape, NewDay, world
<1>4. Trees'
  BY <1>1, <1>2, YesterdayTree DEF Trees, IsTree
<1>5. /\ work'.policy = work.policy /\ work'.listing = work.listing /\ work'.rollback = work.rollback
      /\ base'.policy = base.policy /\ base'.listing = base.listing /\ base'.rollback = base.rollback
      /\ main'.policy = main.policy /\ main'.listing = main.listing /\ main'.rollback = main.rollback
      /\ Valid(work) => Valid(work')
  BY <1>1, <1>2, YesterdayTree
<1>6. CommitSound' /\ RebaseSound'
  BY <1>2, <1>5 DEF IInv, CommitSound, RebaseSound
<1>7. QED
  BY <1>3, <1>4, <1>6 DEF IInv

LEMMA WorldStep == IInv /\ (Release \/ SiteChange \/ UNCHANGED vars) => IInv'
<1> SUFFICES ASSUME IInv, Release \/ SiteChange \/ UNCHANGED vars PROVE IInv'
  OBVIOUS
<1>1. /\ main' = main /\ base' = base /\ work' = work /\ phase' = phase /\ moved' = moved
      /\ author' = author /\ pending' = pending
  BY DEF Release, SiteChange, vars, job
<1>2. offers' \in OfferSets
  BY DEF Release, SiteChange, vars, IInv, TypeOK
<1>3. up' \subseteq Source
  BY UpdateAssumption DEF Release, SiteChange, vars, IInv, TypeOK
<1>4. QED
  BY <1>1, <1>2, <1>3 DEF IInv, TypeOK, TreeShape, Trees, IsTree, CommitSound, RebaseSound

(* The inductive invariant: commits that have not rebased keep the policy   *)
(* they started from, and rebased ones fit main until it moves.             *)
THEOREM UpdateInvariant == Spec => []IInv
<1>1. IInv /\ [Next]_vars => IInv'
  BY CommitUpdateStep, RebaseStep, EndsStep, PeopleStep, NewDayStep, WorldStep DEF Next
<1>2. QED
  BY InitInvariant, <1>1, PTL DEF Spec

(* The trees of main, of checkouts and of commits keep their types.         *)
THEOREM TypeCorrect == Spec => []TypeOK
<1>1. IInv => TypeOK
  BY DEF IInv
<1>2. QED
  BY <1>1, UpdateInvariant, PTL

(* A catalog that passes the validation honours its policy.                 *)
LEMMA ValidHonours ==
  ASSUME NEW tree, Valid(tree), TreeShape(tree)
  PROVE  Feed!Honours([listing |-> tree.listing, packages |-> tree.packages,
                       legacy |-> tree.legacy], tree.policy)
<1> DEFINE published == [listing |-> tree.listing, packages |-> tree.packages,
                         legacy |-> tree.legacy]
<1>1. /\ tree.packages = tree.listing
      /\ OneEach(tree.listing) /\ OneEach(tree.legacy)
      /\ Ids(tree.listing) \cap Ids(tree.legacy) = {}
  BY DEF Valid, ValidCatalog, InventoryMatches
<1>2. \A p \in tree.listing \cup tree.legacy : tree.policy.manual[p.id] = {}
  <2>1. Manual(tree.policy) \cap (Ids(tree.listing) \cup Ids(tree.legacy)) = {}
    BY DEF Valid, ValidStatus
  <2>2. \A p \in tree.listing \cup tree.legacy : p.id \in Source
    BY DEF TreeShape, Package
  <2>3. QED
    BY <2>1, <2>2 DEF Manual, Ids
<1>3. /\ tree.policy.required \cup tree.policy.promoted \subseteq Ids(tree.listing)
      /\ tree.policy.locals \subseteq tree.listing
      /\ \A p \in tree.policy.overrides :
           \E q \in tree.listing : q.id = p.id /\ (q.version > p.version \/ q = p)
  BY DEF Valid, ValidPolicy, RequiredListed, PromotedListed, LocalsPublished, PinsPublished
<1>4. /\ published.listing = tree.listing /\ published.packages = tree.packages
      /\ published.legacy = tree.legacy
  OBVIOUS
<1> HIDE DEF published
<1>5. Feed!Honours(published, tree.policy)
  BY <1>1, <1>2, <1>3, <1>4 DEF Feed!Honours, OneEach, Ids
<1>6. QED
  BY <1>5 DEF published

LEMMA PushPublishes ==
  ASSUME IInv, Push
  PROVE  [Feed!FeedNext]_(Feed!fvars)
<1>1. /\ main' = work /\ work.policy = main.policy /\ Valid(work) /\ TreeShape(work)
      /\ author' = IF work = main THEN author ELSE "bot"
  BY DEF Push, IInv, RebaseSound, TypeOK
<1>2. CASE work = main
  BY <1>1, <1>2 DEF Feed!fvars
<1>3. CASE work # main
  BY <1>1, <1>3, ValidHonours DEF Feed!FeedNext, Feed!Publish
<1>4. QED
  BY <1>2, <1>3

(* Whatever is pushed while a run works, the bot never changes the policy   *)
(* and only publishes catalogs that honour it.                              *)
THEOREM UpdateImplementsFeed == Spec => ImplementsFeed
<1>1. Init => Feed!FeedInit
  BY DEF Init, Feed!FeedInit
<1>2. IInv /\ [Next]_vars => [Feed!FeedNext]_(Feed!fvars)
  <2> SUFFICES ASSUME IInv, [Next]_vars PROVE [Feed!FeedNext]_(Feed!fvars)
    OBVIOUS
  <2>1. TreeShape(main) /\ IsTree(main)
    BY DEF IInv, TypeOK, Trees
  <2>2. CASE Push
    BY <2>2, PushPublishes
  <2>3. CASE Edit
    BY <2>1, <2>3 DEF Edit, Commit, IsTree, Feed!FeedNext, Feed!EditPolicy
  <2>4. CASE Restore
    BY <2>1, <2>4 DEF Restore, Commit, IsTree, Feed!FeedNext, Feed!Intervene
  <2>5. CASE NewDay
    BY <2>1, <2>5, YesterdayTree DEF NewDay, Feed!fvars
  <2>6. CASE CommitUpdate \/ GiveUp \/ Rebase \/ JobDies \/ Release \/ SiteChange \/ UNCHANGED vars
    BY <2>6 DEF CommitUpdate, StartsCommit, CommitWith, GiveUp, Rebase, JobDies, Release, SiteChange, vars, Feed!fvars
  <2>7. QED
    BY <2>2, <2>3, <2>4, <2>5, <2>6 DEF Next
<1>3. QED
  BY <1>1, <1>2, UpdateInvariant, PTL DEF Spec, ImplementsFeed, Feed!FeedSpec

(* The snapshot of a push is the catalog it replaced, whatever the run      *)
(* raced.                                                                   *)
THEOREM RollbackIsReplaced == Spec => RollbackRecovers
<1> DEFINE Sound == (author' = "bot" /\ main'.listing # main.listing)
                      => main'.rollback = main.listing
<1>1. IInv /\ Next => Sound
  <2> SUFFICES ASSUME IInv, Next PROVE Sound
    OBVIOUS
  <2>1. CASE Push
    BY <2>1 DEF Push, IInv, RebaseSound
  <2>2. CASE Edit \/ Restore
    BY <2>2 DEF Edit, Restore, Commit
  <2>3. CASE NewDay
    BY <2>3, YesterdayTree DEF NewDay, IInv, TypeOK, Trees
  <2>4. CASE CommitUpdate \/ GiveUp \/ Rebase \/ JobDies \/ Release \/ SiteChange
    BY <2>4 DEF CommitUpdate, StartsCommit, CommitWith, GiveUp, Rebase, JobDies, Release, SiteChange
  <2>5. QED
    BY <2>1, <2>2, <2>3, <2>4 DEF Next
<1>2. QED
  BY <1>1, UpdateInvariant, PTL DEF Spec, RollbackRecovers

-----------------------------------------------------------------------------
(* The generator, the validator and the quarantine.                         *)

LEMMA WantedAreCandidates ==
  Wanted \subseteq Ids(HealthCandidates(main.policy, offers))
BY DEF Wanted, Ids

(* Whatever main is, the validation rejects what a run generates only for   *)
(* a quarantined source that the policy pins or promotes.                   *)
THEOREM ValidatorAgrees == Spec => []RejectedOnlyForSick
<1>1. IInv => RejectedOnlyForSick
  <2> SUFFICES ASSUME IInv, CanBeFollowed, NEW health \in HealthsAfter(main, offers, up),
                      RunPasses(main, offers, Generate(main, offers, health))
               PROVE  LET new == Generate(main, offers, health)
                      IN  Valid(new) <=> new.health.sick \cap Needed(main.policy)
                                           \subseteq main.policy.required
    BY DEF RejectedOnlyForSick
  <2>1. TreeShape(main) /\ main.policy \in Policies /\ offers \in OfferSets
    BY DEF IInv, TypeOK, TreeShape
  <2>2. health.sick \subseteq Source
    BY <2>1, SweepType DEF HealthType
  <2>3. /\ OverridesFound(main.policy, Offered(main.policy, offers))
        /\ Ids(main.policy.overrides) \cap Ids(main.policy.locals) = {}
        /\ \A s \in Source : main.policy.manual[s] \in {{}, Scope}
        /\ Ids(main.policy.locals) \subseteq main.policy.promoted
        /\ Needed(main.policy) \subseteq Ids(HealthCandidates(main.policy, offers))
    BY WantedAreCandidates DEF CanBeFollowed, Needed
  <2>4. LET new == Generate(main, offers, health)
        IN  Valid(new) <=> new.health.sick \cap (main.policy.promoted \cup Ids(main.policy.overrides))
                             \subseteq main.policy.required
    BY <2>1, <2>2, <2>3, GeneratedValid DEF Needed
  <2>5. QED
    BY <2>4 DEF Needed
<1>2. QED
  BY <1>1, UpdateInvariant, PTL

(* A source that is out of reach of one sweep stays in quarantine, and the  *)
(* catalog generated without it is rejected.                                *)
LEMMA StuckRunFails ==
  ASSUME IInv, NEW s \in Source, Stuck(s), NEW health \in HealthsAfter(main, offers, up)
  PROVE  ~Valid(Generate(main, offers, health))
<1> DEFINE new == Generate(main, offers, health)
<1>1. /\ s \in main.health.sick /\ s \notin main.policy.required /\ s \in Needed(main.policy)
      /\ main.health.streak[s].oks \in Nat /\ RecoveryThreshold \in Nat
      /\ main.health.streak[s].oks + 1 < RecoveryThreshold
  BY TreeAssumption DEF IInv, TypeOK, TreeShape, HealthType, Stuck
<1>2. ASSUME NEW seen \in [Source -> Health!Seen]
      PROVE  s \in Swept(main.health, main.policy, seen).sick
  <2> DEFINE next == [r \in Source |-> Health!Extend(main.health.streak[r], seen[r])]
             judged == Health!Judged(main.health.sick, next) \ main.policy.required
             sick == (main.health.sick \ Heard(seen)) \cup (judged \cap Heard(seen))
  <2>1. next[s] = Health!Extend(main.health.streak[s], seen[s]) /\ seen[s] \in Health!Seen
    OBVIOUS
  <2>2. Swept(main.health, main.policy, seen).sick = sick
    BY DEF Swept
  <2> HIDE DEF next
  <2>3. next[s].oks < RecoveryThreshold
    BY <1>1, <2>1, TreeAssumption DEF Health!Extend, Health!Capped, Health!Seen
  <2>4. s \in Health!Judged(main.health.sick, next)
    BY <1>1, <2>3 DEF Health!Judged
  <2>5. QED
    BY <1>1, <2>2, <2>4
<1>3. s \in health.sick
  <2>1. CASE main.health.swept
    BY <1>1, <2>1 DEF HealthsAfter
  <2>2. CASE ~main.health.swept
    <3>1. PICK seen \in [Source -> Health!Seen] : health = Swept(main.health, main.policy, seen)
      BY <2>2 DEF HealthsAfter, Sweeps
    <3>2. QED
      BY <1>2, <3>1
  <2>3. QED
    BY <2>1, <2>2
<1>4. s \in Automatic(main, health)
  BY <1>1, <1>3 DEF Automatic
<1>5. \A p \in new.listing : p.id # s
  BY <1>4 DEF Generate, MaintainedOf, Selected, Best, PackageOf
<1>6. new.policy = main.policy
  BY DEF Generate
<1> HIDE DEF new
<1>7. ~(PromotedListed(new) /\ PinsPublished(new))
  BY <1>1, <1>5, <1>6 DEF PromotedListed, PinsPublished, Needed, Ids
<1>8. QED
  BY <1>7 DEF Valid, ValidPolicy, new

(* The stall ends only with an edit of the policy.                          *)
THEOREM StallsAreForGood == Spec => StuckUntilEdited
<1> DEFINE Stays == \A s \in Source :
                      phase = "idle" /\ Stuck(s) /\ main'.policy = main.policy
                        => phase' = "idle" /\ Stuck(s)'
<1>1. IInv /\ Next => Stays
  <2> SUFFICES ASSUME IInv, Next, NEW s \in Source,
                      phase = "idle", Stuck(s), main'.policy = main.policy
               PROVE  phase' = "idle" /\ Stuck(s)'
    OBVIOUS
  <2>1. ASSUME main'.health.sick = main.health.sick, main'.health.streak = main.health.streak
        PROVE  Stuck(s)'
    BY <2>1 DEF Stuck
  <2>2. TreeShape(main) /\ IsTree(main)
    BY DEF IInv, TypeOK, Trees
  <2>3. CASE CommitUpdate
    BY <2>3, StuckRunFails DEF CommitUpdate, CommitWith
  <2>4. CASE Edit
    BY <2>2, <2>4 DEF Edit, Commit, IsTree
  <2>5. CASE Restore
    <3>1. main'.health = main.health /\ phase' = phase
      BY <2>2, <2>5 DEF Restore, Commit, IsTree, job
    <3>2. QED
      BY <2>1, <3>1
  <2>6. CASE NewDay
    <3>1. main'.health.sick = main.health.sick /\ main'.health.streak = main.health.streak
      BY <2>2, <2>6 DEF NewDay, Yesterday, IsTree, TreeShape, HealthType
    <3>2. QED
      BY <2>1, <2>6, <3>1 DEF NewDay
  <2>7. CASE GiveUp \/ Release \/ SiteChange
    BY <2>1, <2>7 DEF GiveUp, Release, SiteChange, job
  <2>8. CASE Rebase \/ Push \/ JobDies
    BY <2>8 DEF Rebase, Push, JobDies
  <2>9. QED
    BY <2>3, <2>4, <2>5, <2>6, <2>7, <2>8 DEF Next
<1>2. QED
  BY <1>1, UpdateInvariant, PTL DEF Spec, StuckUntilEdited

-----------------------------------------------------------------------------
(* The safety gate.                                                         *)

Gated(before, after) ==
  Cardinality(Ids(before) \ Ids(after)) <= AllowedRemovals(Ids(before))

(* A commit passed the gate against its checkout, a rebased one passes it   *)
(* against main until main moves.                                           *)
GateSound ==
  /\ phase = "committed" => Gated(base.listing, work.listing)
  /\ phase = "rebased" /\ ~moved => Gated(main.listing, work.listing)

LEMMA SomeRemovals ==
  ASSUME NEW before, IsFiniteSet(before)
  PROVE  0 <= AllowedRemovals(before)
<1>1. Cardinality(before) * RemovalPercent \in Int
  BY FS_CardinalityType, TreeAssumption
<1>2. (Cardinality(before) * RemovalPercent) \div 100 \in Int
  BY <1>1
<1>3. QED
  BY <1>2, TreeAssumption DEF AllowedRemovals

LEMMA SameIsGated ==
  ASSUME NEW tree, TreeShape(tree)
  PROVE  Gated(tree.listing, tree.listing)
<1>1. Ids(tree.listing) \subseteq Source
  BY DEF TreeShape, Package, Ids
<1>2. IsFiniteSet(Ids(tree.listing))
  BY <1>1, FS_Subset, TreeAssumption
<1>3. Ids(tree.listing) \ Ids(tree.listing) = {}
  OBVIOUS
<1>4. Cardinality(Ids(tree.listing) \ Ids(tree.listing)) = 0
  BY <1>3, FS_EmptySet
<1>5. QED
  BY <1>2, <1>4, SomeRemovals DEF Gated

LEMMA GateStep ==
  ASSUME IInv, GateSound, [Next]_vars
  PROVE  GateSound'
<1>1. CASE CommitUpdate
  <2>1. base' = main /\ phase' = "committed"
        /\ SelectionPasses(Ids(main.listing), Ids(work'.listing), MinimumMaintained,
                           main.policy.required)
    BY <1>1 DEF CommitUpdate, StartsCommit, CommitWith, RunPasses
  <2>2. QED
    BY <2>1 DEF SelectionPasses, GateSound, Gated
<1>2. CASE Rebase
  <2>1. /\ Trees /\ TreeShape(main)
        /\ phase = "committed" /\ phase' = "rebased" /\ main' = main /\ work' = Merged
    BY <1>2 DEF Rebase, IInv, TypeOK
  <2>2. CASE work.listing = base.listing
    BY <2>1, <2>2, MergedTree, SameIsGated DEF GateSound
  <2>3. CASE work.listing # base.listing
    <3>1. Merged.listing = work.listing
      BY <2>1, <2>3, MergedTree
    <3>2. "listing" \in DOMAIN main
      BY <2>1 DEF Trees, IsTree
    <3>3. main.listing = base.listing \/ main.listing = work.listing
      BY <1>2, <2>3, <3>2 DEF Rebase, Mergeable, Clean
    <3>4. Gated(base.listing, work.listing)
      BY <2>1 DEF GateSound
    <3>5. Gated(main.listing, main.listing)
      BY <2>1, SameIsGated
    <3>6. Gated(main.listing, Merged.listing)
      BY <3>1, <3>3, <3>4, <3>5
    <3>7. QED
      BY <2>1, <3>6 DEF GateSound
  <2>4. QED
    BY <2>2, <2>3
<1>3. CASE Push \/ JobDies
  BY <1>3 DEF Push, JobDies, EndJob, GateSound
<1>4. CASE Edit \/ Restore
  BY <1>4 DEF Edit, Restore, Commit, job, GateSound
<1>5. CASE NewDay
  <2>1. /\ main'.listing = main.listing /\ base'.listing = base.listing
        /\ work'.listing = work.listing /\ phase' = phase /\ moved' = moved
    BY <1>5, YesterdayTree DEF NewDay, IInv, TypeOK, Trees
  <2>2. QED
    BY <2>1 DEF GateSound
<1>6. CASE GiveUp \/ Release \/ SiteChange \/ UNCHANGED vars
  BY <1>6 DEF GiveUp, Release, SiteChange, vars, job, GateSound
<1>7. QED
  BY <1>1, <1>2, <1>3, <1>4, <1>5, <1>6 DEF Next

(* However a run is rebased, its push removes no more sources than the gate *)
(* allows of the catalog that it replaces.                                  *)
THEOREM GateHolds == Spec => RemovalsGated
<1> DEFINE Keeps == author' = "bot" => Gated(main.listing, main'.listing)
<1>1. IInv /\ GateSound /\ [Next]_vars => Keeps \/ UNCHANGED vars
  <2> SUFFICES ASSUME IInv, GateSound, Next PROVE Keeps
    OBVIOUS
  <2>1. TreeShape(main)
    BY DEF IInv, TypeOK
  <2>2. CASE main'.listing = main.listing
    BY <2>1, <2>2, SameIsGated
  <2>3. CASE Push
    BY <2>3 DEF Push, GateSound
  <2>4. CASE Edit \/ Restore
    BY <2>4 DEF Edit, Restore, Commit
  <2>5. CASE NewDay
    BY <2>2, <2>5, YesterdayTree DEF NewDay, IInv, TypeOK, Trees
  <2>6. CASE CommitUpdate \/ GiveUp \/ Rebase \/ JobDies \/ Release \/ SiteChange
    BY <2>2, <2>6 DEF CommitUpdate, StartsCommit, CommitWith, GiveUp, Rebase, JobDies, Release, SiteChange
  <2>7. QED
    BY <2>3, <2>4, <2>5, <2>6 DEF Next
<1>2. Init => GateSound
  BY DEF Init, GateSound
<1>3. IInv /\ GateSound /\ [Next]_vars => GateSound'
  BY GateStep
<1> HIDE DEF Keeps
<1>4. Spec => [][Keeps]_vars
  BY <1>1, <1>2, <1>3, UpdateInvariant, PTL DEF Spec
<1>5. QED
  BY <1>4 DEF RemovalsGated, Keeps, Gated

-----------------------------------------------------------------------------
(* The days of the health state.                                            *)

(* From old to new, at most one day was counted, and none if old was of     *)
(* today.                                                                   *)
OneDay(old, new) ==
  \A s \in Source :
    /\ new.streak[s].fails <= old.streak[s].fails + 1
    /\ old.swept => new.streak[s] \in {old.streak[s], NoStreak}

(* Nobody but the bot touches the health state, and its runs are serial.    *)
HealthSound ==
  /\ phase = "committed" => main.health = base.health
  /\ phase # "idle" => OneDay(main.health, work.health)

LEMMA SameDay ==
  ASSUME NEW health \in HealthType
  PROVE  OneDay(health, health)
<1>1. \A s \in Source : health.streak[s].fails \in Nat
  BY TreeAssumption DEF HealthType
<1>2. QED
  BY <1>1 DEF OneDay

LEMMA ForgottenDay ==
  ASSUME NEW old \in HealthType, NEW new \in HealthType, OneDay(old, new), NEW sources
  PROVE  OneDay(old, Forget(new, sources))
<1>1. \A s \in Source : Forget(new, sources).streak[s] \in {new.streak[s], NoStreak}
  BY DEF Forget, HealthType
<1>2. \A s \in Source : old.streak[s].fails \in Nat
  BY TreeAssumption DEF HealthType
<1>3. NoStreak.fails = 0
  BY DEF NoStreak
<1>4. QED
  BY <1>1, <1>2, <1>3 DEF OneDay

LEMMA SweptDay ==
  ASSUME NEW health \in HealthType, ~health.swept, NEW policy, NEW seen \in [Source -> Health!Seen]
  PROVE  OneDay(health, Swept(health, policy, seen))
<1> DEFINE new == [s \in Source |-> Health!Extend(health.streak[s], seen[s])]
           judged == Health!Judged(health.sick, new) \ policy.required
           sick == (health.sick \ Heard(seen)) \cup (judged \cap Heard(seen))
           streak == [s \in Source |-> IF s \in sick THEN new[s] ELSE [new[s] EXCEPT !.oks = 0]]
<1>1. ASSUME NEW s \in Source
      PROVE  new[s].fails <= health.streak[s].fails + 1
  <2>1. /\ health.streak[s].fails \in 0..FailureThreshold /\ FailureThreshold \in Nat
        /\ seen[s] \in Health!Seen
    BY TreeAssumption DEF HealthType
  <2>2. Health!Capped(health.streak[s].fails + 1, FailureThreshold) <= health.streak[s].fails + 1
    BY <2>1 DEF Health!Capped
  <2>3. QED
    BY <2>1, <2>2 DEF Health!Extend, Health!Seen
<1>2. ASSUME NEW s \in Source
      PROVE  new[s] \in [fails : 0..FailureThreshold, oks : 0..RecoveryThreshold]
  BY ExtendType DEF HealthType
<1>3. Swept(health, policy, seen).streak = streak
  BY DEF Swept
<1> HIDE DEF new, sick
<1>4. \A s \in Source : streak[s].fails = new[s].fails
  BY <1>2
<1>5. QED
  BY <1>1, <1>3, <1>4 DEF OneDay

LEMMA HealthStep ==
  ASSUME IInv, HealthSound, [Next]_vars
  PROVE  HealthSound'
<1>1. TreeShape(main) /\ TreeShape(base) /\ TreeShape(work) /\ Trees /\ offers \in OfferSets
  BY DEF IInv, TypeOK
<1>2. CASE CommitUpdate
  <2>1. PICK health \in HealthsAfter(main, offers, up) : CommitWith(health)
    BY <1>2 DEF CommitUpdate
  <2>2. main.health \in HealthType /\ health \in HealthType
    BY <1>1, <2>1, SweepType DEF TreeShape
  <2>3. OneDay(main.health, health)
    <3>1. CASE main.health.swept
      BY <2>2, <3>1, SameDay DEF HealthsAfter
    <3>2. CASE ~main.health.swept
      <4>1. PICK seen \in [Source -> Health!Seen] : health = Swept(main.health, main.policy, seen)
        BY <3>2 DEF HealthsAfter, Sweeps
      <4>2. QED
        BY <2>2, <3>2, <4>1, SweptDay
    <3>3. QED
      BY <3>1, <3>2
  <2>4. /\ main' = main /\ base' = main /\ phase' = "committed"
        /\ work'.health = Forget(health, Excluded(main.policy, "maintained"))
    BY <1>2, <2>1 DEF CommitUpdate, StartsCommit, CommitWith, Generate
  <2>5. OneDay(main.health, work'.health)
    BY <2>2, <2>3, <2>4, ForgottenDay
  <2>6. QED
    BY <2>4, <2>5 DEF HealthSound, OneDay
<1>3. CASE Rebase
  <2>1. /\ main' = main /\ work' = Merged /\ phase = "committed" /\ phase' = "rebased"
    BY <1>3 DEF Rebase
  <2>2. Merged.health = work.health
    BY <1>1, <2>1, MergedTree DEF HealthSound
  <2>3. QED
    BY <2>1, <2>2 DEF HealthSound, OneDay
<1>4. CASE Push \/ JobDies
  BY <1>4 DEF Push, JobDies, EndJob, HealthSound
<1>5. CASE Edit \/ Restore
  <2>1. main'.health = main.health /\ UNCHANGED job
    BY <1>1, <1>5 DEF Edit, Restore, Commit, Trees, IsTree
  <2>2. QED
    BY <2>1 DEF job, HealthSound, OneDay
<1>6. CASE NewDay
  <2>1. ASSUME NEW tree, TreeShape(tree), IsTree(tree)
        PROVE  /\ Yesterday(tree).health = [tree.health EXCEPT !.swept = FALSE]
               /\ Yesterday(tree).health.streak = tree.health.streak
               /\ ~Yesterday(tree).health.swept
    BY <2>1 DEF Yesterday, IsTree, TreeShape, HealthType
  <2>2. /\ main' = Yesterday(main) /\ base' = Yesterday(base) /\ work' = Yesterday(work)
        /\ phase' = phase
    BY <1>6 DEF NewDay
  <2>3. /\ main'.health = [main.health EXCEPT !.swept = FALSE]
        /\ base'.health = [base.health EXCEPT !.swept = FALSE]
        /\ main'.health.streak = main.health.streak
        /\ work'.health.streak = work.health.streak
        /\ ~main'.health.swept
    BY <1>1, <2>1, <2>2 DEF Trees
  <2>4. QED
    BY <2>2, <2>3 DEF HealthSound, OneDay
<1>7. CASE GiveUp \/ Release \/ SiteChange \/ UNCHANGED vars
  BY <1>7 DEF GiveUp, Release, SiteChange, vars, job, HealthSound, OneDay
<1>8. QED
  BY <1>2, <1>3, <1>4, <1>5, <1>6, <1>7 DEF Next

(* A sweep date counts once, whatever runs are repeated, rebased or die.    *)
THEOREM DaysCountOnce == Spec => DayCountsOnce
<1> DEFINE Counts == OneDay(main.health, main'.health)
<1>1. IInv /\ HealthSound /\ [Next]_vars => Counts
  <2> SUFFICES ASSUME IInv, HealthSound, [Next]_vars PROVE Counts
    OBVIOUS
  <2>1. TreeShape(main) /\ IsTree(main) /\ main.health \in HealthType
    BY DEF IInv, TypeOK, Trees, TreeShape
  <2>2. ASSUME main'.health.streak = main.health.streak
        PROVE  Counts
    <3>1. OneDay(main.health, main.health)
      BY <2>1, SameDay
    <3>2. QED
      BY <2>2, <3>1 DEF OneDay
  <2>3. CASE Push
    BY <2>3 DEF Push, HealthSound
  <2>4. CASE Edit \/ Restore
    BY <2>1, <2>2, <2>4 DEF Edit, Restore, Commit, IsTree
  <2>5. CASE NewDay
    <3>1. main'.health.streak = main.health.streak
      BY <2>1, <2>5 DEF NewDay, Yesterday, IsTree, HealthType
    <3>2. QED
      BY <2>2, <3>1
  <2>6. CASE CommitUpdate \/ GiveUp \/ Rebase \/ JobDies \/ Release \/ SiteChange \/ UNCHANGED vars
    BY <2>2, <2>6 DEF CommitUpdate, StartsCommit, CommitWith, GiveUp, Rebase, JobDies, Release, SiteChange, vars
  <2>7. QED
    BY <2>3, <2>4, <2>5, <2>6 DEF Next
<1>2. Init => HealthSound
  BY DEF Init, HealthSound
<1>3. IInv /\ HealthSound /\ [Next]_vars => HealthSound'
  BY HealthStep
<1> HIDE DEF Counts
<1>4. Spec => [][Counts]_vars
  BY <1>1, <1>2, <1>3, UpdateInvariant, PTL DEF Spec
<1>5. QED
  BY <1>4 DEF DayCountsOnce, Counts, OneDay

-----------------------------------------------------------------------------
(* The shut gate.                                                           *)

(* In quarantine, or one failed day away from it.                           *)
Doomed(health, s) == s \in health.sick \/ health.streak[s].fails + 1 >= FailureThreshold

(* A sweep of a dead website confirms the quarantine or leaves the record.  *)
LEMMA SweptKeepsDoomed ==
  ASSUME NEW health \in HealthType, NEW policy, NEW probed,
         NEW seen \in Sweeps(probed, up),
         NEW s \in Source, s \notin up, s \notin policy.required, Doomed(health, s)
  PROVE  Doomed(Swept(health, policy, seen), s)
<1> DEFINE new == [r \in Source |-> Health!Extend(health.streak[r], seen[r])]
           judged == Health!Judged(health.sick, new) \ policy.required
           sick == (health.sick \ Heard(seen)) \cup (judged \cap Heard(seen))
           streak == [r \in Source |-> IF r \in sick THEN new[r] ELSE [new[r] EXCEPT !.oks = 0]]
<1>1. /\ seen \in [Source -> Health!Seen]
      /\ seen[s] # "none" => seen[s] = "failed"
  BY DEF Sweeps, Heard, Answers
<1>2. /\ health.streak[s] \in [fails : 0..FailureThreshold, oks : 0..RecoveryThreshold]
      /\ FailureThreshold \in Nat /\ RecoveryThreshold \in Nat /\ RecoveryThreshold >= 2
  BY TreeAssumption DEF HealthType
<1>3. /\ Swept(health, policy, seen).sick = sick
      /\ Swept(health, policy, seen).streak = streak
  BY DEF Swept
<1>4. new[s] = Health!Extend(health.streak[s], seen[s])
  OBVIOUS
<1> HIDE DEF new
<1>5. CASE seen[s] = "none"
  <2>1. new[s] = health.streak[s]
    BY <1>4, <1>5 DEF Health!Extend
  <2>2. s \in sick <=> s \in health.sick
    BY <1>5 DEF Heard
  <2> HIDE DEF sick
  <2>3. streak[s].fails = health.streak[s].fails
    BY <1>2, <2>1
  <2>4. QED
    BY <1>3, <2>2, <2>3 DEF Doomed
<1>6. CASE seen[s] = "failed"
  <2>1. new[s] = [fails |-> Health!Capped(health.streak[s].fails + 1, FailureThreshold), oks |-> 0]
    BY <1>4, <1>6 DEF Health!Extend
  <2>2. s \in health.sick \/ new[s].fails = FailureThreshold
    BY <1>2, <2>1 DEF Doomed, Health!Capped
  <2>3. s \in judged
    BY <1>2, <2>1, <2>2 DEF Health!Judged
  <2>4. s \in sick
    BY <1>6, <2>3 DEF Heard
  <2>5. QED
    BY <1>3, <2>4 DEF Doomed
<1>7. QED
  BY <1>1, <1>5, <1>6

(* So does a run that commits.                                              *)
LEMMA CommitKeepsDoomed ==
  ASSUME IInv, CommitUpdate,
         NEW s \in Probed(main.policy, offers), s \in Source, s \notin up,
         s \notin main.policy.required, Doomed(main.health, s)
  PROVE  Doomed(work'.health, s)
<1>1. PICK health \in HealthsAfter(main, offers, up) : CommitWith(health)
  BY DEF CommitUpdate
<1>2. main.health \in HealthType
  BY DEF IInv, TypeOK, TreeShape
<1>3. Doomed(health, s)
  <2>1. CASE main.health.swept
    BY <2>1 DEF HealthsAfter
  <2>2. CASE ~main.health.swept
    <3>1. PICK seen \in Sweeps(Probed(main.policy, offers), up) :
            health = Swept(main.health, main.policy, seen)
      BY <2>2 DEF HealthsAfter
    <3>2. QED
      BY <1>2, <3>1, SweptKeepsDoomed
  <2>3. QED
    BY <2>1, <2>2
<1>4. work'.health = Forget(health, Excluded(main.policy, "maintained"))
  BY <1>1 DEF CommitWith, Generate
<1>5. s \notin Excluded(main.policy, "maintained")
  BY DEF Probed, HealthCandidates, Ids
<1>6. /\ s \in work'.health.sick <=> s \in health.sick
      /\ work'.health.streak[s] = health.streak[s]
  <2>1. health \in HealthType
    BY SweepType DEF IInv, TypeOK
  <2>2. QED
    BY <1>4, <1>5, <2>1 DEF Forget, HealthType
<1>7. QED
  BY <1>3, <1>6 DEF Doomed

(* No step makes a health state in force that spares a condemned source.    *)
LEMMA CondemnedStay ==
  ASSUME IInv, HealthSound, [Next]_vars, UNCHANGED <<world, main.policy, main.listing>>
  PROVE  Condemned \subseteq Condemned'
<1>1. TreeShape(main) /\ TreeShape(work) /\ Trees
  BY DEF IInv, TypeOK
<1>2. SUFFICES ASSUME NEW s \in Condemned, s \in Probed(main.policy, offers),
                      NEW health \in HealthsInForce'
               PROVE  Doomed(health, s)
  BY DEF Condemned, Doomed, world
<1>3. /\ s \in Source /\ s \notin up /\ s \notin main.policy.required
      /\ \A old \in HealthsInForce : Doomed(old, s)
  BY <1>1, <1>2 DEF Condemned, Doomed, TreeShape, Package, Ids
<1>4. CASE HealthsInForce' \subseteq HealthsInForce
  BY <1>3, <1>4
<1>5. CASE CommitUpdate
  <2>1. HealthsInForce = {main.health} /\ HealthsInForce' = {main.health, work'.health}
    BY <1>5 DEF CommitUpdate, StartsCommit, CommitWith, HealthsInForce
  <2>2. QED
    BY <1>2, <1>3, <1>5, <2>1, CommitKeepsDoomed
<1>6. CASE Rebase
  <2>1. main' = main /\ work' = Merged /\ phase = "committed" /\ phase' = "rebased"
    BY <1>6 DEF Rebase
  <2>2. Merged.health = work.health
    BY <1>1, <2>1, MergedTree DEF HealthSound
  <2>3. QED
    BY <1>4, <2>1, <2>2 DEF HealthsInForce
<1>7. CASE Push \/ JobDies
  BY <1>4, <1>7 DEF Push, JobDies, EndJob, HealthsInForce
<1>8. CASE Edit \/ Restore
  <2>1. main'.health = main.health /\ UNCHANGED job
    BY <1>1, <1>8 DEF Edit, Restore, Commit, Trees, IsTree
  <2>2. QED
    BY <1>4, <2>1 DEF job, HealthsInForce
<1>9. CASE NewDay
  <2>1. ASSUME NEW tree, TreeShape(tree), IsTree(tree)
        PROVE  /\ Yesterday(tree).health.sick = tree.health.sick
               /\ Yesterday(tree).health.streak = tree.health.streak
    BY <2>1 DEF Yesterday, IsTree, TreeShape, HealthType
  <2>2. \E old \in HealthsInForce : health.sick = old.sick /\ health.streak = old.streak
    BY <1>1, <1>2, <1>9, <2>1 DEF NewDay, Trees, HealthsInForce
  <2>3. QED
    BY <1>3, <2>2 DEF Doomed
<1>10. CASE GiveUp \/ Release \/ SiteChange \/ UNCHANGED vars
  BY <1>4, <1>10 DEF GiveUp, Release, SiteChange, vars, job, HealthsInForce
<1>11. QED
  BY <1>5, <1>6, <1>7, <1>8, <1>9, <1>10 DEF Next

(* Whatever sweeps hear, however runs pass or fail, the gate stays shut for *)
(* every sweep that hears from the condemned sources, until a website,      *)
(* upstream, the policy or the catalog changes.                             *)
THEOREM ShutGateStays == Spec => GateStaysShut
<1> DEFINE Stays == GateShut /\ UNCHANGED <<world, main.policy, main.listing>> => GateShut'
<1>1. IInv /\ HealthSound /\ [Next]_vars => Stays
  <2> SUFFICES ASSUME IInv, HealthSound, [Next]_vars, GateShut,
                      UNCHANGED <<world, main.policy, main.listing>>
               PROVE  GateShut'
    OBVIOUS
  <2>1. Ids(main.listing) \subseteq Source
    BY DEF IInv, TypeOK, TreeShape, Package, Ids
  <2>2. IsFiniteSet(Condemned') /\ IsFiniteSet(Ids(main.listing))
    <3>1. Condemned' \subseteq Ids(main.listing)
      BY DEF Condemned
    <3>2. QED
      BY <2>1, <3>1, FS_Subset, TreeAssumption
  <2>3. Condemned \subseteq Condemned'
    BY CondemnedStay
  <2>4. /\ Cardinality(Condemned) <= Cardinality(Condemned')
        /\ Cardinality(Condemned) \in Nat /\ Cardinality(Condemned') \in Nat
    BY <2>2, <2>3, FS_Subset, FS_CardinalityType
  <2>5. AllowedRemovals(Ids(main.listing)) \in Int
    <3>1. Cardinality(Ids(main.listing)) * RemovalPercent \in Int
      BY <2>2, FS_CardinalityType, TreeAssumption
    <3>2. (Cardinality(Ids(main.listing)) * RemovalPercent) \div 100 \in Int
      BY <3>1
    <3>3. QED
      BY <3>2, TreeAssumption DEF AllowedRemovals
  <2>6. AllowedRemovals(Ids(main.listing))' = AllowedRemovals(Ids(main.listing))
    BY DEF Ids, AllowedRemovals
  <2>7. QED
    BY <2>4, <2>5, <2>6 DEF GateShut
<1>2. Init => HealthSound
  BY DEF Init, HealthSound
<1>3. IInv /\ HealthSound /\ [Next]_vars => HealthSound'
  BY HealthStep
<1> HIDE DEF Stays
<1>4. Spec => [][Stays]_vars
  BY <1>1, <1>2, <1>3, UpdateInvariant, PTL DEF Spec
<1>5. QED
  BY <1>4 DEF GateStaysShut, Stays

=============================================================================
