------------------------------ MODULE SourceHealth ------------------------------
(***************************************************************************)
(* The daily website sweep of the updater and the health records it keeps  *)
(* in config/source_health.json: scripts/source_health.py (sweep_quality,  *)
(* transition) driven by update_sources.refresh_health_state.              *)
(*                                                                         *)
(* Abstractions.                                                           *)
(*   - A date is only ever compared with today, so a stored date is the    *)
(*     BOOLEAN "is it today's"; NewDay turns every one of them FALSE.      *)
(*   - A classification is the class the code branches on: "ok",           *)
(*     "protected" (401/403/429/451/challenge), "error" (HTTP 5xx and      *)
(*     other HTTP failures: the host answered), "down" (DNS, timeout, TLS, *)
(*     connection: it did not), "unknown" (every inconclusive kind).       *)
(*   - A sweep whose run later fails is never saved (see CatalogUpdate);   *)
(*     here that is a stuttering step, and the next run of that day probes *)
(*     again.                                                              *)
(***************************************************************************)
EXTENDS Integers, FiniteSets

CONSTANTS
  Source,             \* identifiers probed by the sweep
  Required,           \* policy.requiredMaintainedSources
  FailureThreshold,   \* policy.automaticHealth.failureThreshold
  RecoveryThreshold,  \* policy.automaticHealth.recoveryThreshold
  MinimumConclusive   \* minimumConclusiveRatio, in percent

ASSUME PolicyAssumption ==
  /\ Required \subseteq Source
  /\ FailureThreshold \in Nat /\ FailureThreshold >= 2
  /\ RecoveryThreshold \in Nat /\ RecoveryThreshold >= 2
  /\ MinimumConclusive \in 0..100

VARIABLES
  version,   \* "version" of the state file: 1 until the first sweep migrates it
  sampled,   \* lastHealthSweepDate (or lastSweepDate) is today
  records,   \* "sources": one record per source, NoRecord when absent
  probe,     \* "probes": classification seen by the latest sweep, "none" if not probed
  accepted,  \* "lastSweep".accepted
  evidence   \* history, read by no action: the conclusive days observed so far

vars == <<version, sampled, records, probe, accepted, evidence>>

-----------------------------------------------------------------------------
(* Observations.                                                           *)

Failure == {"error", "down"}
Conclusive == Failure \cup {"ok", "protected"}
Reachable == {"ok", "protected", "error"}
Kind == Conclusive \cup {"unknown"}

Attempted(obs) == {s \in Source : obs[s] # "none"}
Decided(obs) == {s \in Source : obs[s] \in Conclusive}

(* sweep_quality: enough of the probes are conclusive, and something -- a  *)
(* source or a control site -- answered, so the runner had a network.      *)
SweepAccepted(obs, controlReachable) ==
  /\ Attempted(obs) # {}
  /\ 100 * Cardinality(Decided(obs)) >= MinimumConclusive * Cardinality(Attempted(obs))
  /\ controlReachable \/ \E s \in Source : obs[s] \in Reachable

-----------------------------------------------------------------------------
(* Health records and what one conclusive observation does to them.        *)

Record(status, failures, successes) ==
  [status |-> status, failures |-> failures, successes |-> successes, today |-> TRUE]

NoRecord == [status |-> "none", failures |-> 0, successes |-> 0, today |-> FALSE]

RecordType ==
  [status : {"none", "failing", "protected", "quarantined"},
   failures : 0..FailureThreshold,
   successes : 0..(RecoveryThreshold - 1),
   today : BOOLEAN]

AtMost(n, bound) == IF n > bound THEN bound ELSE n

(* Mutants: a release takes one healthy day too many; the recovery streak   *)
(* is stored without being advanced.                                        *)
AfterOk_Late(rec) ==
  IF rec.status # "quarantined" \/ rec.successes + 1 > RecoveryThreshold
    THEN NoRecord
    ELSE Record("quarantined", rec.failures, rec.successes + 1)

AfterOk_NoIncrement(rec) ==
  IF rec.status # "quarantined" \/ rec.successes + 1 >= RecoveryThreshold
    THEN NoRecord
    ELSE Record("quarantined", rec.failures, rec.successes)

(* "Two consecutive successful checks release it": until then a quarantined *)
(* source only advances its recovery streak.                                *)
AfterOk(rec) ==
  IF rec.status # "quarantined" \/ rec.successes + 1 >= RecoveryThreshold
    THEN NoRecord
    ELSE Record("quarantined", rec.failures, rec.successes + 1)

(* Mutant: the capped counter is compared with >.                           *)
AfterFailure_OffByOne(rec) ==
  LET failures == AtMost(rec.failures + 1, FailureThreshold)
  IN  Record(IF failures > FailureThreshold THEN "quarantined" ELSE "failing", failures, 0)

(* "Reset the recovery streak on EVERY intervening failure."                *)
AfterFailure(rec) ==
  LET failures == AtMost(rec.failures + 1, FailureThreshold)
  IN  Record(IF failures >= FailureThreshold THEN "quarantined" ELSE "failing", failures, 0)

(* Mutant: a protected day does not interrupt the failure streak.           *)
AfterProtection_KeepsFailures(rec) ==
  IF rec.status = "quarantined"
    THEN Record("quarantined", rec.failures, 0)
    ELSE Record("protected", rec.failures, 0)

(* A protected site is reachable but proves no recovery.                   *)
AfterProtection(rec) ==
  IF rec.status = "quarantined"
    THEN Record("quarantined", rec.failures, 0)
    ELSE Record("protected", 0, 0)

AfterKind(rec, kind) ==
  CASE kind = "ok" -> AfterOk(rec)
    [] kind \in Failure -> AfterFailure(rec)
    [] OTHER -> AfterProtection(rec)

(* Mutant: required sources are treated as ordinary ones.                   *)
KeepInstalled_Ordinary(rec, isRequired) == rec

(* A required source stays installed: its quarantine is recorded as failing. *)
KeepInstalled(rec, isRequired) ==
  IF isRequired /\ rec.status = "quarantined" THEN [rec EXCEPT !.status = "failing"] ELSE rec

(* Mutant: an inconclusive probe is taken as evidence.                      *)
Counts_Inconclusive(s, obs, ok) == ok /\ obs[s] # "none" /\ ~records[s].today

(* The "continue" guards of transition.                                    *)
Counts(s, obs, ok) == ok /\ obs[s] \in Conclusive /\ ~records[s].today

Transition(s, obs, ok) ==
  IF Counts(s, obs, ok)
    THEN KeepInstalled(AfterKind(records[s], obs[s]), s \in Required)
    ELSE records[s]

-----------------------------------------------------------------------------
(* The evidence a reader of the daily reports would count: for each source *)
(* the current run of failed days and of healthy days, one per UTC date,   *)
(* over accepted sweeps and conclusive probes only.                        *)

NoEvidence == [fails |-> 0, oks |-> 0, counted |-> FALSE]

EvidenceType ==
  [fails : 0..FailureThreshold, oks : 0..RecoveryThreshold, counted : BOOLEAN]

Evidence(s, obs, ok) ==
  LET e == evidence[s]
  IN  IF ~ok \/ obs[s] \notin Conclusive \/ e.counted
        THEN e
        ELSE [fails |-> IF obs[s] \in Failure
                          THEN AtMost(e.fails + 1, FailureThreshold) ELSE 0,
              oks |-> IF obs[s] = "ok"
                        THEN AtMost(e.oks + 1, RecoveryThreshold) ELSE 0,
              counted |-> TRUE]

-----------------------------------------------------------------------------
(* Version 1 files only hold failing and quarantined records; they carry    *)
(* no sweep date, only a date per record.                                   *)
VersionOneRecord ==
  {NoRecord}
    \cup {[status |-> "failing", failures |-> f, successes |-> 0, today |-> t] :
            f \in 1..(FailureThreshold - 1), t \in BOOLEAN}
    \cup {[status |-> "quarantined", failures |-> FailureThreshold, successes |-> n, today |-> t] :
            n \in 0..(RecoveryThreshold - 1), t \in BOOLEAN}

Init ==
  /\ version = 1
  /\ sampled = FALSE
  /\ records \in [Source -> VersionOneRecord]
  /\ \A s \in Required : records[s].status # "quarantined"
  /\ probe = [s \in Source |-> "none"]
  /\ accepted = FALSE
  /\ evidence = [s \in Source |->
       [fails |-> IF records[s].successes > 0 THEN 0 ELSE records[s].failures,
        oks |-> records[s].successes,
        counted |-> records[s].today]]

(* already_sampled of refresh_health_state.                                *)
AlreadySampled ==
  sampled \/ (version = 1 /\ \E s \in Source : records[s].today)

(* One run of refresh_health_state whose result is saved. obs is what the  *)
(* probes of this run concluded, "none" for a source that is not a health  *)
(* candidate of this run.                                                  *)
Sweep(obs, controlReachable) ==
  LET ok == SweepAccepted(obs, controlReachable)
  IN  /\ ~AlreadySampled
      /\ records' = [s \in Source |-> Transition(s, obs, ok)]
      /\ probe' = obs
      /\ accepted' = ok
      /\ version' = 2
      /\ sampled' = TRUE
      /\ evidence' = [s \in Source |-> Evidence(s, obs, ok)]

DailySweep ==
  \E obs \in [Source -> Kind \cup {"none"}], controlReachable \in BOOLEAN :
    Sweep(obs, controlReachable)

(* The UTC date changes.                                                   *)
NewDay ==
  /\ sampled' = FALSE
  /\ records' = [s \in Source |-> [records[s] EXCEPT !.today = FALSE]]
  /\ evidence' = [s \in Source |-> [evidence[s] EXCEPT !.counted = FALSE]]
  /\ UNCHANGED <<version, probe, accepted>>

Next == DailySweep \/ NewDay

(* The date always advances; daily-update.yml starts a run every day.      *)
Fairness == WF_vars(NewDay) /\ WF_vars(DailySweep)

Spec == Init /\ [][Next]_vars
FairSpec == Spec /\ Fairness

-----------------------------------------------------------------------------
Quarantined == {s \in Source : records[s].status = "quarantined"}

TypeOK ==
  /\ version \in {1, 2}
  /\ sampled \in BOOLEAN
  /\ records \in [Source -> RecordType]
  /\ probe \in [Source -> Kind \cup {"none"}]
  /\ accepted \in BOOLEAN
  /\ evidence \in [Source -> EvidenceType]

(* The abstract specification: a streak of days per source, nothing else.   *)
Abstract == INSTANCE Quarantine
  WITH streak <- [s \in Source |-> [fails |-> evidence[s].fails, oks |-> evidence[s].oks]],
       counted <- {s \in Source : evidence[s].counted},
       quarantined <- Quarantined

(* Records, dates, sweep quality, migration and repeated runs of a day      *)
(* implement the promise: whatever a sweep saves is one step of Quarantine, *)
(* and a source is quarantined exactly when its streaks say so              *)
(* (source_health.transition, update_sources.refresh_health_state).         *)
ImplementsQuarantine == Abstract!QuarantineSpec

(* The persisted counters are exactly the evidence: an installed source's   *)
(* failure count is its current run of failed days, a quarantined source's  *)
(* success count its current run of healthy days. No inconclusive probe,    *)
(* rejected sweep, second run of a day or migration adds to or loses any    *)
(* (source_health.transition).                                              *)
CountersMatchEvidence ==
  \A s \in Source :
    /\ s \notin Quarantined => records[s].failures = evidence[s].fails
    /\ s \in Quarantined => records[s].successes = evidence[s].oks

(* Only FailureThreshold failed dates in a row, with neither a healthy nor  *)
(* a protected date between them, quarantine a source; and only             *)
(* RecoveryThreshold healthy dates in a row release it: a failure or a      *)
(* protection challenge in between starts that streak again                 *)
(* (source_health.transition).                                              *)
VerdictsEarned ==
  [][\A s \in Source :
       /\ s \in Quarantined' \ Quarantined => evidence'[s].fails = FailureThreshold
       /\ s \in Quarantined \ Quarantined' => evidence'[s].oks = RecoveryThreshold]_vars

(* However many days it fails, a required source is never quarantined by a  *)
(* website probe (update_sources.main: "never auto-quarantined").           *)
RequiredStayInstalled == Required \cap Quarantined = {}

(* An ordinary site that fails every accepted sweep from some day on ends   *)
(* up quarantined for good.                                                 *)
DeadSiteQuarantined ==
  \A s \in Source \ Required :
    <>[](accepted /\ probe[s] \in Failure) => <>[](s \in Quarantined)

(* A site that is healthy in every accepted sweep from some day on ends up  *)
(* with no health record: quarantine is not for ever.                       *)
HealthySiteReleased ==
  \A s \in Source :
    <>[](accepted /\ probe[s] = "ok") => <>[](records[s] = NoRecord)

=============================================================================
