# A TLA+ model of Nixzle's Aidoku source catalogue

The repository keeps a catalogue of Aidoku source packages up to date without
anybody watching: a workflow runs `scripts/update_sources.py` once a day, other
workflows check what was published, and three repaired sources (Rust, compiled to
WASM) and a small web reader live beside it. These modules model the parts whose
correctness depends on the order of events over days, runs, requests and failures.

## 1. Inventory

| Component | State it keeps | Operations | Talks to |
|---|---|---|---|
| Health sweep (`scripts/source_health.py`) | `config/source_health.json`: a record per source, the date of the last sweep | `probe`, `sweep_quality`, `transition` | the updater, every source's website, two control sites |
| Catalog updater (`scripts/update_sources.py`) | the published catalogs `./` and `legacy/` (index, inventory, packages), which are also its package cache; status; rollback snapshot | `main` and everything it calls | upstream indexes and package hosts, policy, health state |
| Client revisions (`scripts/publication.py`) | publication fields of the maintained inventory | `apply`, `repack_version`, `validate_record` | called by the updater |
| Comix source (`source-fixes/en.comix`) | one chapter checkpoint in the source's settings; a hidden web view with its mode and pacing; a 5 s verification result | `get_manga_update`, notifications, image and page requests | comix API, host application |
| Comix WS source (`source-fixes/en.comixws`) | web view | the same without checkpoint | comix.ws |
| Asura source (`source-fixes/en.asurascans`) | access and refresh token | login, refresh, parsing | asura API |
| Sanctum Reader (`reader/`) | the library in IndexedDB and in every open tab; CBZ viewer; offline cache | import, export, merge, progress, open file | browser storage |
| Public acceptance (`scripts/verify_public.py`, `public_acceptance.py`) | none | compare what Pages serves with a commit, manifests read twice | GitHub Pages |
| Smoke tests (`functional_smoke.py`, `critical_smoke.py`, `runtime-smoke/`) | none | run the package WASM, classify results | websites |
| Incidents (`scripts/report_automation.py`) | open GitHub issues | open, update, close | GitHub API, concurrent workflow runs |
| Validator (`scripts/validate_catalog.py`) | none | consistency of index, inventory, files | the workflows |
| Reader package builder (`scripts/package_reader_fixes.py`) | candidate packages | build, reuse an immutable candidate | CI |
| Workflows (`.github/workflows`) | the main branch | update, validate, commit, rebase, push | people's pushes |

How they interact: the updater asks the sweep for a verdict and withdraws
quarantined sources; it hands candidates of opted-in sources to `publication.apply`,
which compares them with the published inventory; the published catalogs are the
cache of the next run. The Comix source depends only on the website and on its
settings. Everything meets in files committed to `main`.

What is hard to test here, and what makes each part correct:

* **Sweep**: evidence accumulates one date at a time over weeks, with
  inconclusive probes, rejected sweeps, second runs of a day and a migration in
  between. Correct when the counters are exactly the evidence, quarantine and
  release happen on a full streak only, and required sources stay.
* **Updater and revisions**: any download or index may fail on any day while
  upstream releases, rebuilds and rolls back, and the cache forgets what leaves the
  catalogs. Correct when an outage costs nobody a website, listed bytes never change
  behind their version, quarantine covers both catalogs, and clients can detect every
  change of a republished source.
* **Checkpoint**: a list is assembled over several interrupted refreshes while the
  website edits it and the clock moves. Correct when the list handed over is whole,
  has a current head, and is exact if the website did not change.
* **Reader**: storage opens while the user already acts, tabs share one record, and
  timestamps come from other devices. Correct when a reload shows what was saved, no
  import undoes progress, and a late page reaches neither the screen nor a wrong book.
* **Daily workflow**: people push the policy, or an emergency restore, between the
  checkout, the rebase and the push of a run, and the run may die at any of them. Correct
  when no edit is lost, the bot never publishes what breaks the policy in force, the
  rollback snapshot is what a push replaced, and a calm world ends with the right feed.
* **Watching workflows**: a deployment in the middle of a check, checks that conclude
  nothing, runs that are superseded, reports that look before another one creates or closes.
  Correct when a receipt is of one deployment, incidents are neither doubled nor lost, and
  only proof closes them.
* **Web view, verification**: late results, clocks set back (not modelled, section 6).

The hazards, each at its line, are in `PROJECT.json`.

## 2. Modules

| Module | Models | Abstract state |
|---|---|---|
| `SourceHealth` | `source_health.py`, `refresh_health_state` | `records`: status, counters, "is it today's"; `evidence` is history |
| `SourceHealthProofs` | theorems about it | |
| `Quarantine` | abstract: what the sweep promises | `streak` of failed and healthy days, `counted`, `quarantined` |
| `ChapterResume` | `get_manga_update` (chapters), `chapter_checkpoint.rs`, `settings.rs` | `server` lists, `slot`, the running refresh; `times`, `clean`, `announced` are history |
| `MCChapterResume` | its instances | |
| `ChapterResumeProofs` | theorems about it | |
| `CatalogUpdate` | `update_sources.main` and `publication.apply` | `upstream` offers, `maintained` and `legacy` entries, `quarantined`, `sampled`; `last` is history |
| `MCCatalogUpdate` | its instances | |
| `CatalogUpdateProofs` | theorems about it | |
| `ReaderLibrary` | the shelf in `reader/app.mjs`, `reader/core.mjs` | `entries` and `phase` of every tab, the stored `database`, waiting `requests`, `clock`, `backup`; `mirror`, `shelved` are history |
| `MCReaderLibrary` | its instances | |
| `ReaderLibraryProofs` | theorems about it | |
| `CbzViewer` | the viewer in `reader/app.mjs` | files being opened, the `cbz*` variables, pages being decoded, the image `shown`, books; `known`, `wanted` are history |
| `MCCbzViewer` | its instance | |
| `CbzViewerProofs` | theorems about it | |
| `CatalogTree` | `update_sources.main` and `validate_catalog.py` as operators on the files | a record of the files of `main` |
| `CatalogTreeProofs` | lemmas about those operators: what is selected, and that what is generated is valid | |
| `PublishedFeed` | abstract: what readers and editors of the policy rely on | `policy`, `feed`, `author` of the last commit |
| `DailyUpdate` | `daily-update.yml` beside the pushes of people | `main`, the job's `phase`, `base` and `work` trees, `moved`, `pending`, the world |
| `MCDailyUpdate` | its instance | |
| `DailyUpdateProofs` | theorems about it | |
| `SmokeResults` | the classifications of `functional_smoke.py`, `critical_smoke.py` | operators |
| `FeedAcceptance` | `verify_public.py`, `public_acceptance.py` while Pages deploys | `head`, commit `served` at each path, the running `check` |
| `Incidents` | `report_automation.py` | `open` issues, the `report` of each slot; `alarm` is history |
| `Delivery` | composes the last three under the workflows that run them | `job` of each concurrency group, `kind`, `calm` |
| `MCDelivery` | its instance | |
| `DeliveryProofs` | theorems about it | |

```
SourceHealth --implements--> Quarantine <--operators-- CatalogTree <-- DailyUpdate --implements--> PublishedFeed
CatalogUpdate (one run in detail: cache, outages, rivals, revisions)
Delivery = SmokeResults + FeedAcceptance + Incidents
```

### SourceHealth

One action, `DailySweep`, is a run of `refresh_health_state` whose result is saved;
`NewDay` changes the UTC date. A sweep chooses what each probe concluded (or that the
source was not probed) and whether a control site answered; `SweepAccepted` is
`sweep_quality`, `Transition` the loop body of `transition` with its two `continue`
guards in `Counts`. A date is compared with today only, so it is a BOOLEAN.
Classifications are the classes the code branches on. `AlreadySampled` includes the
rule for version 1 files, and `Init` is any version 1 file. A sweep of a run that later fails is
not saved and is a stuttering step.

### ChapterResume

A page of at most 100 chapters is one opaque block; `IdsOf` gives its chapter ids,
so that a block can change without its ids changing. `StartRefresh`, `ResumeSaved`,
`FetchFirst`, `FetchNext`, `Bail` and `Interrupt` are the loop of `get_manga_update`,
one action per response with all it does: checks, advance, save, return or next page.
The clock and the website move between any two responses. The limits of an encoded checkpoint
(8000 items, 1 MiB) are one bound on its pages. `resume`'s checks against a
malformed setting are left out because the only writer is `encode`.

### CatalogUpdate

`Run` is a whole successful run of `main`: the cache is the two catalogs (`Cache`),
`Candidate` is `candidate_from_entry` with its exact-version hit, live download and
fallback, `Recovered` an unreachable mirror index, `Republish` the three outcomes of
`publication.apply`, `Select` is `select_candidates` by id and by website, `Verdict` what `SourceHealth` may decide,
`GatePasses` is `validate_catalog_selection`. Bytes are (build, version in the manifest,
manifest rewritten?), so `repack_version` is modelled by what it does. A run that
raises anywhere saves nothing: the workflow commits only afterwards. `Init` is any
pair of catalogs published from some upstream before republishing was introduced.
The active repository's index cannot be in `down`, since `main` raises without it.

`Verdict` is the interface to `SourceHealth`: it may change the quarantine of probed
sources that are not required, once a day. That required sources are never quarantined
is `RequiredNeverQuarantined`, proved there.

### ReaderLibrary

A tab goes through `OpenTab`, `DatabaseOpened` and the answer to its one read; from
then on it only writes, always its whole library (`Persist`). Transactions of the one
object store run in the order they were created, over all tabs, so they are one queue;
`RequestFails` is a failed read, a failed write or an aborted transaction.
Every handler that changes the library is an action: add, update, remove, the two
imports; each ends in `Apply`, which is `mergeEntries` and `persist`. `FromAidoku` keeps
what decides a merge: where a record's stamp and its place come from. `Patient` and
`StorageFails` say what the user and the browser may do in a run. A record without a
valid stamp, which gets the present time, does not occur in an exported file and is left out.

### CbzViewer

Opening a file takes up to three steps (scan, add its book, open) and a page two (ask,
decode), each separated by an `await`, so they interleave with each other and with the
buttons. `cbzLoadId` is the code's. What the library does with a page is left to `ReaderLibrary`.

### Quarantine

`SourceHealth!Abstract` maps each record to a streak: a record in quarantine has the
healthy days it counts, any other one the failed days. `ImplementsQuarantine` says that
every sweep is then one `Observe`: of each source at most one observation a day counts,
and the verdict follows from the streaks alone. `DailyUpdate` uses the same
`Extend` and `Judged` for the health file it commits.

### CatalogTree and DailyUpdate

A tree is the record of the files both programs touch: policy, the index with inventory
and checksums (`listing`), the files of `sources/` (`packages`), the legacy catalog,
health, status, rollback. `Generate` is `main`: candidates with pinned overrides and
local packages, the sweep, selection, snapshot, catalogs, status. `RunPasses` collects
what makes it raise. `Valid` is `validate_repository`, one operator per check. `HealthsAfter` are the health states
`refresh_health_state` may leave: unchanged if the day was swept already, otherwise one for each outcome in `Sweeps`. A sweep
that is accepted hears from at least `MinimumConclusive` percent of the probed sources (healthy, failed or protected), a
rejected one counts as having heard from none; either way the day is swept, and who was not heard from keeps the record.
`ClearSweep` is the outcome in which every source answers, without a challenge. The detail
of a run that `CatalogUpdate` has (cache, outages, rivals, revisions) is left out here, and
the detail that matters here (policy, pins, what is written) is left out there.

`CommitUpdate` is everything up to `git commit`, since nobody sees the runner before;
`Rebase` is fetch, rebase and second validation; `Push` is rejected if main moved. `GiveUp`
and `JobDies` are all the ways to fail. `Edit`, `Restore`, `Release`, `SiteChange`
happen between any two of them. git merges field by field; fields changed differently on
both sides conflict. This is coarser than lines and so conflicts more often; what it lets
through, git lets through.

`ImplementsFeed` is the refinement to `PublishedFeed`: a step of main by the bot keeps
the policy and leaves a feed that honours it. Without the second validation it
fails: the run starts under one policy, an edit is rebased under it, and the catalog
of the old policy is pushed.

### Delivery

A behaviour follows the runs of one workflow (`kind`), since each kind has incidents of
its own. A slot is a concurrency group. A job collects the results its report is given:
the smoke checks choose what they saw and classify it with the operators of `SmokeResults`;
the acceptance is the step-by-step reading of `FeedAcceptance`, one path per step, while
`Propagate` brings a newer commit to the paths in any order. The report is `Incidents`:
list, then one request per step. `proved` and `steady` are history: whether what was seen
establishes the results. `calm` says that nothing outside interferes; it may change
at any time.

## 3. Runs

| Run | Question | Result |
|---|---|---|
| `source_health` | Are counters, quarantine and release exactly the evidence, do dead sites leave and healthy ones return, do the records implement the streaks? | holds (the second under fairness) |
| `chapter_resume` | Is an assembled list exact, whole and current at its head, is no saved page lost or requested again, and does an often interrupted refresh come to an end? | holds (the last under fairness) |
| `chapter_recency` | Is "only recent metadata" reused? | violated, see findings |
| `catalog_rivals` | Two sources and two repositories for one website, under promotion and manual quarantine: are bytes immutable, the sick withdrawn, sites kept? | holds |
| `catalog_revision` | Are the versions of a republished source detectable and earned, and does a rebuild reach clients? | holds (the last under fairness) |
| `catalog_immutable` | Is a published version immutable for ever? | violated, see findings |
| `reader_library` | Does the store follow the tab; is merging symmetric; is every saved title kept, at no older record, while tabs are alone? | holds |
| `reader_tabs` | Do saved titles survive a second tab? | violated, see findings |
| `cbz_viewer` | Do late or failed pages reach the screen or a book? | holds |
| `daily_update` | Does the bot keep policy, feed and snapshot consistent whatever is pushed beside it, does a day count once, do generator and validator agree, does the removal gate hold for what is pushed, which stalls and shut gates last, and does the feed follow the world? | holds (the last under fairness) |
| `daily_stuck` | Do two successes release a source? | violated, see findings |
| `delivery` | Is a receipt of one deployment; are incidents no more than reports, kept, closed by proof only, and closed in the end? | holds (the last under fairness) |

Bounds, and why they are enough:

* `SourceHealth`: an ordinary and a required source (records never look at each
  other; two are needed for the acceptance ratio and the shield), thresholds 3 and 2 as
  in `source_policy.json`, all classifications. Nothing else is bounded.
* `ChapterResume`: one manga with up to eight lists and one with two, which differ by each kind
  of edit that matters (head retitled or replaced, tail edited, deletion, empty page, one page more than fits
  the slot, one more than the limit); resume window 2, completed window 1, clock to 3
  or 4, so every comparison of ages goes both ways. `EventuallyListed` asks that only one list is refreshed from
  some time on, because two that interrupt each other may starve each other of the single slot.
* `CatalogUpdate`: upstream versions up to 2 and two builds give release, rebuild
  and rollback; `VersionLimit`, the first version `read_package` refuses (1,000,001), is 3 to 6 so that it is reached: a revised package is read again
  before it is published (publication.py:96), so the client's own limit of 2^31 a few lines above it is never met. The removal floor (5) is 1, so the
  gate rejects some runs. Two repositories suffice: a mirror differs from another by priority only.

* `ReaderLibrary`: two titles (a limit of one title makes imports fail), two tabs, a store that already holds a title, a file stamped ahead of the clock;
  two transactions may wait, so that a write overtakes nothing but follows a read or another write.
  Most behaviours of the instance soon stop being `alone`; those that do not have tabs that are closed in the middle of
  their writes and follow one another.
* `CbzViewer`: two files of two pages and one, typed pages up to 2, so beyond the end of
  the shorter file; three loads or closings, enough for a load of one file to end after the
  next file opened.
* `DailyUpdate`: an ordinary source, one that only a mirror offers and a local package;
  three policies (plain; a pin and a promotion; a manual quarantine of two sources and another local
  version), so that each kind of entry appears and disappears; two upstream versions, one
  beside and one above the pin; thresholds 2, the least the code allows; `MinimumConclusive` 50, as in `source_policy.json`, so that of two or three sources
  one may be missed or the sweep rejected. `RemovalFloor` is 1
  (5 in the code): the quarantine of both sources shuts the gate where both are listed and passes where only one is, before or
  after a rebase; so does a dead website in the days after a promotion was taken back. In `daily_stuck` it is 3, so that the gate is not the reason.
* `Delivery`: three commits, with a manifest that changes in each, one that never does, a
  policy that returns to an earlier content and a package that changes once; two sources,
  one behind a WebView, one with `allowProtected`; two attempts (6 and 12 in the code);
  four issue numbers, of which two overlapping reports never need more.

Fairness. `WF(NewDay)` and `WF(DailySweep)`: time passes, the workflow is scheduled
daily; the liveness antecedents ask for accepted sweeps. In `ChapterResume` a refresh
may be interrupted any number of times, but strong fairness of the three fetching actions says
not always before its first new page. In `CatalogUpdate`,
`SF(CleanRun)`: not every run meets an outage. `RebuildDelivered` also assumes that the versions below
`VersionLimit` are not exhausted. In `DailyUpdate`, `WF(NewDay)` (cron), `WF(JobDies)` (`timeout-minutes`: a job
does not hang) and `SF` of `ClearUpdate`, `Rebase` and `Push`: not every run meets a failure or a sweep that misses
a source; `FeedFollows` further assumes that people and the world rest and that sweeps hear from every source (`Calm`:
a website that is up but answers every sweep with a challenge is never released, as the code means it), a policy
that can be followed (`CanBeFollowed`), and neither a stall (`NeedsNoSick`) nor a shut gate (`GateOpens`). In `Delivery`, `WF(Work(slot))`: runs are started again (daily
cron; a changed `status.json` and with it a Pages build) and jobs go on;
`WF(ReadFeed)` and `WF(Propagate)`: requests end and Pages deploys. `RecoveredClosed` assumes
`calm` from some time on.

## 4. Findings

* **Recent pages** (`chapter_recency`). `chapter_checkpoint.rs` opens with "Only
  validated, recent metadata is reused", but `advance` renews the only timestamp, so
  `resume` measures the age of the last page alone. A refresh interrupted at intervals
  shorter than an hour reuses pages of any age; the head is fetched again each time, so
  only changes below an unchanged head (which `ExactWhenStable` excludes) go unseen.
* **Immutable versions** (`catalog_immutable`). "Treat a published (repository, ID,
  version) as immutable" holds while the source stays listed (`ImmutableWhileListed`,
  proved). The cache behind it is rebuilt from the catalogs, so a source that was
  quarantined, or missing from its index for a day, returns with whatever bytes the
  same version has then, at the same URL; clients that installed it before see no update.

* **Saved titles lost** (`reader_tabs`). The browser test asserts that saved titles
  survive a reload. A tab writes its whole library from the copy it read at its start, so
  the write of one tab drops what another saved. While tabs are alone no saved title is lost
  (`AloneSurvives`, proved); what ends that is a second tab, a user who acts before the library is shown (`Patient = FALSE`: `db` is set
  before the first read is answered), or a first read that fails (`StorageFails = TRUE`: the tab
  goes on with an empty library and the database); all three lose titles in the same way.

* **Stuck in quarantine** (`daily_stuck`). "Two consecutive successful checks release
  it", says `docs/reliability.md`. But a source that is in automatic quarantine when an
  edit pins it (`localPackageOverrides`) or promotes it is withdrawn by every run
  (update_sources.py:1619 spares required ones only) and then demanded by the validation of
  the same run. The run fails before its commit, so its healthy day is not saved and the next
  run starts from the same state. `StuckUntilEdited` (proved) says that, unless
  the very next healthy day would release the source, this has no other end: whatever websites and upstream do, no run commits until a person edits the policy (or the health file,
  which nobody does in the model). `RejectedOnlyForSick` (proved) says that this is the only way in which a run that
  passes its gates is rejected, of a policy that can be followed. `FeedFollows` holds because it excludes this state (`NeedsNoSick`).

Facts seen while modelling that no run is spent on:

* The functional smoke has two concurrency groups (`functional-smoke-main` after a Pages
  build, `functional-smoke-refs/heads/main` when dispatched), so two of its reports can overlap: both
  may open an incident, and one may write its complaint into an issue the other is closing, which leaves
  none open. `OneIncidentPerGroup` therefore allows this kind two incidents, though never a third, and
  `NotSilenced` is stated for the other two kinds; that all incidents of all kinds are closed in the end (`RecoveredClosed`) holds.
* `verify_public` reads four manifests again, so a deployment that changes only the policy
  or a page goes unnoticed by the second pass; packages and manifests still agree.
* A manual quarantine of one catalog alone is accepted by `load_policy` and
  `validate_policy`, but `validate_status` rejects every tree in which the source stays in the other catalog.
* An override of a source that is excluded from both catalogs, or that upstream no longer
  offers, raises and stops every run.
* If more sources must leave than the removal gate allows, every run that hears from them fails and saves
  nothing (`validate_catalog_selection`). A day with a rejected or partial sweep keeps counters and
  quarantine (docs/reliability.md), so its run may pass and be published, though without withdrawing them. `GateStaysShut`
  (proved) says that neither makes the gate forget: while website, upstream, policy and catalog stay, the sources that any
  sweep which hears from them withdraws (`Condemned`) remain more than it allows.
* A quarantined source that upstream drops is not probed any more and keeps its record.
* "degraded" of the critical smoke ends with 0, so its report counts as success.

Two more concern the reader. A manual update of progress passes
through `mergeEntries`, which ignores it while the book's stamp, imported from another
device, is ahead of this device's clock; the message says "Progress saved locally." And a
record of an Aidoku backup without history carries no progress but is stamped with the
backup's date (`FromAidoku`), so it replaces progress recorded before; the message says
"Existing newer progress was retained."

A fact worth knowing that is not a finding: `RevisionsDetectable` needs the republished
source to be required and not promoted. `publication.apply` reads the previous version from
the maintained inventory, so a source that could leave it would start again at
the minimum. The policy satisfies this today; `validate_policy` does not demand it.

## 5. Proofs

All for arbitrary constants within the named assumptions.

* `SourceHealthProofs`: `IInv` adds to the types and the counters the shape each
  status implies (`StatusShape`: a quarantined record holds a full failure count) and that
  a record's date agrees with the history's (`DatesAgree`); without the latter a second
  observation of a day could not be excluded. From it: `TypeCorrect`,
  `CountersAreEvidence`, `RequiredNeverQuarantined`, `VerdictsAreEarned`
  (`VerdictsEarned`), and `HealthImplementsQuarantine`: initial states map to initial states and a
  sweep to an `Observe`, a new day to `Midnight`. Assumption: both thresholds are at least 2 (`transition` raises otherwise).
* `ChapterResumeProofs`: every checkpoint, saved or local, is `Sound`: as many pages as
  it claims, the head it was keyed by, and if clean, a prefix of the website's list with
  the same number of pages. From it: `TypeCorrect`, `ListsAreExact`, `HeadsAreCurrent`, `ListsAreWhole`.
  `PagesAreKept` (while the list stays, no refresh loses a recent saved page or requests one again) needs
  in addition that the slot holds the checkpoint of the running refresh whenever that fits (`SavedIsCurrent`,
  `SavedFits`): then a resumed refresh starts after the saved pages, and what it saves over them extends them.
* `CatalogUpdateProofs`: `RecordsConsistent` (an entry's version is its package's, a
  revised package is its origin rewritten) and `RequiredPresent`. The work is in what
  a run can produce: `DownloadedShape`, `RepublishShape`, `SelectShape`, `RunShape`. From them:
  `TypeCorrect`, `QuarantinedNotListed`, `ListedPackagesImmutable`,
  `RevisionsAreDetectable`, `RevisionsAreEarned`. `OutagesKeepSites` (an outage costs nobody a website)
  follows the entry of a site through one run: the cache gives it a candidate whatever is down,
  the candidates of a site have a best one, which selection keeps for its source, and the website's
  choice keeps one of the sources. A best one exists because repositories are finitely many, versions are bounded and
  sources are totally ordered by name; each step is the least element of a set of numbers, not an induction.
  Assumptions: finitely many mirrors, priorities and names that are totally ordered.

* `ReaderLibraryProofs`: besides the types, `OneRead` (a tab has one read in the queue,
  without which a second answer could replace a library in use) and `MirrorReady`. The lemmas
  follow the queue: `PersistStep` appends, `ReadLeaves` and `ServePutInv` take away. From them:
  `TypeCorrect`, `StoreMirrorsTab`, `MergesAgree`. Assumption: the titles are finitely many.
  `AloneSaves` (no saved title is lost) and `AloneAdvances` (no record in the store goes back) speak of a device
  that is `alone` so far: no two tabs were open at once, none wrote before its library was shown, no request failed.
  Their invariant `AloneInv` orders the queue over all tabs that followed one another (`InTurn`: writes of earlier
  tabs, their reads, the read of the tab that is loading; and nothing but its own writes once it is in use). The store, then each
  waiting library, advances over the one before it, and the last has all the titles saved.
* `CbzViewerProofs`: `LiveLoad` (at most one load counts, and it belongs to the open file)
  and `OpenFile`. From them: `TypeCorrect`, `PlacesAreKnown`, `ClosedShowsNothing`, `LastRequestStays`.
* `CatalogTreeProofs`: lemmas about the programs themselves, for any policy and upstream.
  `CandidatesUnrivalled` and `SelectionOfUnrivalled`: a repository has one candidate of a source, and selection
  keeps of each source that is not withdrawn exactly the one of the best repository.
  `GeneratedValid` goes through the checks of `validate_repository` one by one for a generated tree.
* `DailyUpdateProofs`: `CommitSound` (a commit that has not been rebased has the policy of its
  base and snapshots the base's catalog, and the base's own snapshot is still main's) and
  `RebaseSound` (while main has not moved since the rebase, the commit was validated, its policy is main's,
  and its snapshot is main's catalog if it replaces it). The second follows from the first by the
  three-way merge: a run leaves the policy alone, so the merge takes main's; a listing or a
  snapshot that changed on both sides is a conflict. From them: `TypeCorrect`, `UpdateImplementsFeed` (with
  `ValidHonours`: what the validator accepts honours the policy), `RollbackIsReplaced`. Further:
  `ValidatorAgrees`, from `GeneratedValid`; `StallsAreForGood`, since a stuck source makes that same
  validation fail in every later run; `GateHolds`, from `GateSound` (a commit passed the gate against its checkout, and a merge
  takes main's catalog or found it unchanged); `DaysCountOnce`, from `HealthSound` (the health of a commit is one sweep away from that of the main it will replace);
  `ShutGateStays`, also from `HealthSound`: a condemned source is in quarantine or one failed day away from it in every health state in
  force or about to be pushed (`Doomed`), and a sweep of a dead website either confirms that or leaves the record alone
  (`SweptKeepsDoomed`), as does a run (`CommitKeepsDoomed`), so `Condemned` only grows (`CondemnedStay`).
  Assumptions: finitely many sources, thresholds at least 2, policies that pin a source once (pins are the keys of
  an object), and of upstream, which the updater does not check, that an index lists a source once.
* `DeliveryProofs`: for the feed (`AcceptSound`), that each manifest read so far was served as
  the commit has it, and that if one no longer matched while a package was read, some manifest
  still to be read again has been replaced: a second read that finds them all unchanged excludes it. For the incidents, `Counted`:
  the open ones and the reports that found none and will post (`EmptyHanded`) are together no more than the slots;
  looking adds such a report only when none is open, and posting turns one into the other. Further, that an acting report of an
  exclusive kind has found all open ones and a healthy one has no alarm (`FoundSound`), and that a run
  without a bad result saw what its checks prove (`JobSound`, `PairSound`, `ReportSound`). From
  them: `DeliveryTypes`, `FeedAcceptedTogether`, `IncidentsDoNotDouble`, `IncidentsStay`,
  `RecoveryIsProved`. Assumption (`FeedAssumption`): a manifest never returns to an earlier content.
  The status and the inventory carry the time of the run that changed them; for the
  index files it leaves out that a change of the catalog is undone within the minutes one check takes.

Every safety invariant and action property of a passing run is proved. So is every type invariant; the runs
check those (`TypeOK`) that hold a bound of the code: of versions, of titles, of a book's pages. Only model-checked are the liveness
properties (fairness and ENABLED are out of the prover's reach): `DeadSiteQuarantined`, `HealthySiteReleased`,
`EventuallyListed`, `RebuildDelivered`, `FeedFollows`, `RecoveredClosed`.

## 6. Not modelled

* Probes' sockets (their outcomes are inputs), the parsing of HTML, JSON, plist and ZIP, the checks
  of archives, URLs and icons: each is a function of one input without state.
* The web views of the Comix sources, their verification cache and page extraction,
  and Asura's login: they run in a host application that the repository only calls, so most of
  their behaviour would be invented. A refresh token that the server rotates while the answer is lost ends
  the login of Asura (`auth.rs`); whether the server rotates it is not in the repository.
* `runtime-smoke`: what it reports is an input of `SmokeResults`.
* `package_reader_fixes.py`: sequential, run on its own; it refuses to overwrite a
  candidate with other bytes. It stops at the first such source and leaves packages it wrote
  before without an entry until the next run.
* `validate.yml` and `reader-fixes.yml`: tests and builds of a change, without state.
* The reader's offline cache (`sw.js`).
* In `DailyUpdate`: outages and rebuilt packages (in `CatalogUpdate`), the index page and its
  scripts, `refreshCachedSources` and smoke definitions of the policy.
* In `CatalogUpdate`: of the sources that are checked live in spite of a cache hit (update_sources.py:1583) only the republished
  ones (`CheckedLive`); pins are `CatalogTree`'s, and the policy has no `refreshCachedSources`.
* In `Delivery`: people who close or edit incidents; the functional run of a pull request.

What would extend the model most: a description of the host's web view, with which
`ComixWebView` (mode fallback, pacing, late results) and `Verification` could be stated, and
one composition of `CatalogUpdate` with `DailyUpdate`, whose state space is beyond these runs today.
