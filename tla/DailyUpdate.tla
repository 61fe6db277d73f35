------------------------------ MODULE DailyUpdate ------------------------------
(***************************************************************************)
(* The daily-update workflow on the shared branch: a run checks main out,  *)
(* generates and validates the catalogs, commits, rebases on what main has *)
(* become, validates again and pushes, while people push edits of the      *)
(* policy and restored catalogs, upstream releases, websites go down and   *)
(* come back, and days pass. Runs are serial; a run that fails anywhere    *)
(* leaves main alone. CatalogTree says what a run computes.                *)
(*                                                                         *)
(* Abstractions.                                                           *)
(*   - git merges field by field of the tree: a field changed on both      *)
(*     sides in different ways is a conflict and fails the run.            *)
(*   - A checkout with everything up to the commit is one step (nothing    *)
(*     outside the runner sees it), and so is fetch with rebase and the    *)
(*     second validation; between commit, rebase and push anything may     *)
(*     happen.                                                             *)
(*   - The sweep date is whether it is today's; at midnight it is not, in  *)
(*     every copy of the file.                                             *)
(***************************************************************************)
EXTENDS CatalogTree

CONSTANTS
  InitialPolicy,  \* the policy of the first commit
  Unstable        \* sources whose website goes down and comes back

ASSUME UpdateAssumption ==
  /\ InitialPolicy \in Policies
  /\ Unstable \subseteq Source

VARIABLES
  main,     \* the tree of the branch
  author,   \* who made its latest commit
  phase,    \* of the running job: "idle", "committed" or "rebased"
  base,     \* the tree the job started from, until it rebases
  work,     \* the tree of the job's commit
  moved,    \* main moved since the job fetched it
  pending,  \* a run is queued in the concurrency group
  offers,   \* what the upstream indexes hold
  up        \* sources whose website answers

vars == <<main, author, phase, base, work, moved, pending, offers, up>>
job == <<phase, base, work>>
world == <<offers, up>>

-----------------------------------------------------------------------------
(* The runner without a checkout.                                          *)
NoCheckout ==
  [policy |-> InitialPolicy, listing |-> {}, packages |-> {}, legacy |-> {},
   health |-> [streak |-> [s \in Source |-> NoStreak], sick |-> {}, swept |-> FALSE],
   status |-> StatusOf(InitialPolicy, [streak |-> [s \in Source |-> NoStreak], sick |-> {},
                                       swept |-> FALSE], {}, {}, {}),
   rollback |-> {}]

EndJob == phase' = "idle" /\ base' = NoCheckout /\ work' = NoCheckout

(* Mutant: "git rebase -X theirs", which takes the commit's side.           *)
Clean_Always(old, ours, theirs) == TRUE

(* Three-way merge of a file.                                              *)
Clean(old, ours, theirs) == ours # old => theirs \in {old, ours}

Mergeable == \A f \in DOMAIN main : Clean(base[f], work[f], main[f])

(* Mutant: "git push --force" instead of a rebase.                          *)
Merged_Forced == work

(* git rebase origin/main.                                                 *)
Merged == [f \in DOMAIN main |-> IF work[f] = base[f] THEN main[f] ELSE work[f]]

-----------------------------------------------------------------------------
(* The workflow.                                                           *)

(* The queued run starts, and gets as far as its commit.                    *)
StartsCommit ==
  /\ phase = "idle" /\ pending
  /\ phase' = "committed"
  /\ pending' = FALSE

(* Checkout, update_sources.py with a sweep that leaves health,             *)
(* validate_catalog.py, commit.                                             *)
CommitWith(health) ==
  /\ base' = main
  /\ work' = Generate(main, offers, health)
  /\ RunPasses(main, offers, work')
  /\ work' # main /\ Valid(work')
  /\ UNCHANGED <<main, author, moved, world>>

CommitUpdate ==
  StartsCommit /\ \E health \in HealthsAfter(main, offers, up) : CommitWith(health)

(* The sweep of the run, if it is the first of the day, hears from all.     *)
ClearUpdate ==
  StartsCommit /\ \E health \in {HealthAfterClear(main, offers, up)} : CommitWith(health)

(* The run ends without a commit: nothing changed, or a test, a download, a *)
(* safety check or the validation failed.                                   *)
GiveUp ==
  /\ phase = "idle" /\ pending
  /\ pending' = FALSE
  /\ UNCHANGED <<main, author, job, moved, world>>

(* Mutant: the rebased tree is pushed without a second validation.          *)
RebasedTreePasses_Unchecked(tree) == TRUE

(* The second validate_catalog.py.                                          *)
RebasedTreePasses(tree) == Valid(tree)

Rebase ==
  /\ phase = "committed"
  /\ Mergeable
  /\ work' = Merged
  /\ RebasedTreePasses(work')
  /\ phase' = "rebased"
  /\ base' = NoCheckout
  /\ moved' = FALSE
  /\ UNCHANGED <<main, author, pending, world>>

(* git push without --force: rejected if main moved. A rebase that left     *)
(* nothing to commit pushes nothing.                                        *)
Push ==
  /\ phase = "rebased" /\ ~moved
  /\ main' = work
  /\ author' = IF work = main THEN author ELSE "bot"
  /\ EndJob
  /\ UNCHANGED <<moved, pending, world>>

(* The job ends before its push: a conflict, a failed validation, a         *)
(* rejected push, the timeout, or a runner that is lost.                    *)
JobDies ==
  /\ phase # "idle"
  /\ EndJob
  /\ UNCHANGED <<main, author, moved, pending, world>>

-----------------------------------------------------------------------------
(* People and the world.                                                   *)

Commit(tree) ==
  /\ main' = tree
  /\ author' = "people"
  /\ moved' = (phase = "rebased")
  /\ UNCHANGED <<job, world>>

(* A push that touches the policy starts a run.                             *)
Edit ==
  \E policy \in Policies :
    /\ policy # main.policy
    /\ Commit([main EXCEPT !.policy = policy])
    /\ pending' = TRUE

(* The catalog of the rollback snapshot is put back, its packages from git  *)
(* history; no run starts.                                                  *)
Restore ==
  /\ main.rollback # main.listing
  /\ Commit([main EXCEPT !.listing = main.rollback, !.packages = main.rollback])
  /\ UNCHANGED pending

Yesterday(tree) == [tree EXCEPT !.health = [tree.health EXCEPT !.swept = FALSE]]

(* Midnight, and the schedule of the day.                                   *)
NewDay ==
  /\ main' = Yesterday(main) /\ base' = Yesterday(base) /\ work' = Yesterday(work)
  /\ pending' = TRUE
  /\ UNCHANGED <<author, phase, moved, world>>

Release ==
  /\ offers' \in OfferSets \ {offers}
  /\ UNCHANGED <<main, author, job, moved, pending, up>>

SiteChange ==
  /\ \E s \in Unstable : up' = IF s \in up THEN up \ {s} ELSE up \cup {s}
  /\ UNCHANGED <<main, author, job, moved, pending, offers>>

-----------------------------------------------------------------------------
(* The first commit: catalogs generated from the initial policy.            *)
FirstTree(initial) ==
  LET tree == Generate(NoCheckout, initial, [NoCheckout.health EXCEPT !.swept = TRUE])
  IN  [tree EXCEPT !.rollback = tree.listing]

Init ==
  /\ offers \in OfferSets
  /\ up = Source
  /\ main = FirstTree(offers)
  /\ Valid(main)
  /\ author = "people"
  /\ phase = "idle" /\ base = NoCheckout /\ work = NoCheckout
  /\ moved = FALSE /\ pending = FALSE

Next ==
  \/ CommitUpdate \/ GiveUp \/ Rebase \/ Push \/ JobDies
  \/ Edit \/ Restore
  \/ NewDay \/ Release \/ SiteChange

(* The schedule never stops, a job ends by its timeout at the latest        *)
(* (timeout-minutes), and not every run meets a failure or a sweep that     *)
(* does not hear from all.                                                  *)
Fairness ==
  /\ WF_vars(NewDay)
  /\ WF_vars(JobDies)
  /\ SF_vars(ClearUpdate) /\ SF_vars(Rebase) /\ SF_vars(Push)

Spec == Init /\ [][Next]_vars
FairSpec == Spec /\ Fairness

-----------------------------------------------------------------------------
HealthType ==
  [streak : [Source -> [fails : 0..FailureThreshold, oks : 0..RecoveryThreshold]],
   sick : SUBSET Source, swept : BOOLEAN]

TreeShape(tree) ==
  /\ tree.policy \in Policies
  /\ tree.listing \subseteq Package /\ tree.packages \subseteq Package
  /\ tree.legacy \subseteq Package
  /\ tree.health \in HealthType
  /\ tree.rollback \subseteq Package

TypeOK ==
  /\ \A tree \in {main, base, work} : TreeShape(tree)
  /\ author \in {"bot", "people"}
  /\ phase \in {"idle", "committed", "rebased"}
  /\ moved \in BOOLEAN /\ pending \in BOOLEAN
  /\ offers \in OfferSets
  /\ up \subseteq Source

(* The feed as its readers and the editors of the policy see it.            *)
Feed == INSTANCE PublishedFeed
  WITH policy <- main.policy,
       feed <- [listing |-> main.listing, packages |-> main.packages, legacy |-> main.legacy],
       author <- author

(* Whatever people push between checkout, rebase and push, no edit of the   *)
(* policy is lost and the bot never publishes a catalog that breaks the     *)
(* policy in force when it is pushed (daily-update.yml: rebase, validate    *)
(* again, push without force).                                              *)
ImplementsFeed == Feed!FeedSpec

(* When the bot replaces the maintained catalog, the rollback snapshot of   *)
(* the same push is the catalog it replaces, also if a run was queued,      *)
(* died or raced a restored catalog in between (write_rollback_snapshot).   *)
RollbackRecovers ==
  [][ (author' = "bot" /\ main'.listing # main.listing)
        => main'.rollback = main.listing ]_vars

(* No push of the bot takes more sources out of the maintained catalog than *)
(* the safety gate allows of the catalog it replaces, although the gate     *)
(* compared with the catalog of the checkout (validate_catalog_selection).  *)
RemovalsGated ==
  [][ author' = "bot"
        => Cardinality(Ids(main.listing) \ Ids(main'.listing))
             <= AllowedRemovals(Ids(main.listing)) ]_vars

(* The health states that are in force or in the commit of the running job. *)
HealthsInForce == {main.health} \cup (IF phase = "idle" THEN {} ELSE {work.health})

(* Listed sources that every sweep that hears from them withdraws: they are *)
(* not candidates any more, or their website is down and one failed day     *)
(* more, or none, quarantines them.                                         *)
Condemned ==
  {s \in Ids(main.listing) \ main.policy.required :
     s \in Probed(main.policy, offers)
       => /\ s \notin up
          /\ \A health \in HealthsInForce :
               s \in health.sick \/ health.streak[s].fails + 1 >= FailureThreshold}

GateShut == Cardinality(Condemned) > AllowedRemovals(Ids(main.listing))

(* If more sources must leave than the safety gate allows, a run that hears *)
(* from them fails and saves nothing, while one whose sweep is rejected or  *)
(* misses some of them may pass and be published. Neither forgets any of    *)
(* them: the gate stays shut, through commits, rebases, pushes and new      *)
(* days, until a website, upstream, the policy or the catalog changes       *)
(* (validate_catalog_selection, source_health.transition).                  *)
GateStaysShut ==
  [][ GateShut /\ UNCHANGED <<world, main.policy, main.listing>> => GateShut' ]_vars

(* However often a day's runs are repeated, die, are rebased or pass        *)
(* midnight, a source is charged with one failed day a sweep date at most,  *)
(* and the state of a day that was swept only changes for the sources that  *)
(* are now quarantined by hand.                                             *)
DayCountsOnce ==
  [][ \A s \in Source :
        LET old == main.health.streak[s]
            new == main'.health.streak[s]
        IN  /\ new.fails <= old.fails + 1
            /\ main.health.swept => new \in {old, NoStreak} ]_vars

-----------------------------------------------------------------------------
(* What the policy, upstream and the websites ask for.                      *)
Wanted ==
  {c.id : c \in {d \in HealthCandidates(main.policy, offers) :
                   d.id \in up \cup main.policy.required}}

(* A policy the updater can follow while up and offers are as they are: its *)
(* pins are offered, no source is pinned in both ways or quarantined from   *)
(* one catalog only, and what it needs is there.                            *)
CanBeFollowed ==
  LET policy == main.policy
  IN  /\ OverridesFound(policy, Offered(policy, offers))
      /\ Ids(policy.overrides) \cap Ids(policy.locals) = {}
      /\ \A s \in Source : policy.manual[s] \in {{}, Scope}
      /\ Ids(policy.locals) \subseteq policy.promoted
      /\ policy.required \cup policy.promoted \cup Ids(policy.overrides) \subseteq Wanted
      /\ Cardinality(Wanted) >= MinimumMaintained

(* Sources the validation wants in the catalog although the updater drops   *)
(* them while they are in quarantine.                                       *)
Needed(policy) == policy.promoted \cup Ids(policy.overrides)

NeedsNoSick == main.health.sick \cap Needed(main.policy) = {}

(* The validator agrees with the generator: of a policy that can be         *)
(* followed, a run that passes its own gates produces a tree that           *)
(* validate_repository rejects exactly when a pinned or promoted source is  *)
(* in quarantine, whatever catalog it started from and whatever its sweep   *)
(* heard.                                                                   *)
RejectedOnlyForSick ==
  \A new \in {Generate(main, offers, health) : health \in HealthsAfter(main, offers, up)} :
    CanBeFollowed /\ RunPasses(main, offers, new)
      => (Valid(new) <=> new.health.sick \cap Needed(main.policy) \subseteq main.policy.required)

(* A quarantined source that the policy needs and the next sweep cannot     *)
(* release.                                                                 *)
Stuck(s) ==
  /\ s \in Needed(main.policy) \ main.policy.required
  /\ s \in main.health.sick
  /\ main.health.streak[s].oks + 1 < RecoveryThreshold

(* The stall that TwoSuccessesRelease meets has no other end: whatever      *)
(* websites and upstream do and sweeps hear, no run commits, and the        *)
(* quarantine stays, until the policy is edited.                            *)
StuckUntilEdited ==
  [][ \A s \in Source :
        phase = "idle" /\ Stuck(s) /\ main'.policy = main.policy
          => phase' = "idle" /\ Stuck(s)' ]_vars

PeopleAct == Edit \/ Restore

(* From some time on people, upstream and websites stay as they are and     *)
(* sweeps hear from all sources.                                            *)
Calm == <>[][~PeopleAct /\ (StartsCommit => ClearUpdate) /\ UNCHANGED world]_vars

(* The safety gate lets through what the sweep makes of the wanted sources. *)
GateOpens ==
  Cardinality(Ids(main.listing) \ (Wanted \ main.health.sick))
    <= AllowedRemovals(Ids(main.listing))

(* Once it is calm, main ends up valid and lists exactly what is wanted:    *)
(* dead sites are withdrawn, recovered ones come back, edits take effect,   *)
(* restored catalogs are regenerated, whatever runs die in between -        *)
(* provided no source the policy pins or promotes is in quarantine and the  *)
(* safety gate is open.                                                     *)
FeedFollows ==
  (Calm /\ <>[](CanBeFollowed /\ NeedsNoSick /\ GateOpens))
    => <>[](Valid(main) /\ Ids(main.listing) = Wanted)

(* "Two consecutive successful checks release it" (docs/reliability.md:29): *)
(* a website that stays up gets its source out of quarantine.               *)
TwoSuccessesRelease ==
  (Calm /\ <>[]CanBeFollowed)
    => \A s \in Source : <>[](s \in up => s \notin main.health.sick)

=============================================================================
