--------------------------- MODULE SourceHealthProofs ---------------------------
(***************************************************************************)
(* Proofs about SourceHealth for every set of sources, every set of        *)
(* required ones and every pair of thresholds of at least two.             *)
(***************************************************************************)
EXTENDS SourceHealth, TLAPS

(* What a sweep relies on besides TypeOK.                                   *)
(*   - StatusShape: an installed ordinary source is below the threshold and *)
(*     has no recovery streak; a quarantined one is at the threshold.       *)
(*   - DatesAgree: evidence counted today is covered by the sweep date or,  *)
(*     in a version 1 file, by the record's own date, and a record dated    *)
(*     today has been counted.                                              *)
StatusShape ==
  \A s \in Source :
    /\ records[s].status = "quarantined" =>
         /\ s \notin Required
         /\ records[s].failures = FailureThreshold
    /\ records[s].status # "quarantined" =>
         /\ records[s].successes = 0
         /\ s \notin Required => records[s].failures < FailureThreshold

DatesAgree ==
  \A s \in Source :
    /\ evidence[s].counted => AlreadySampled
    /\ records[s].today => evidence[s].counted

IInv == TypeOK /\ CountersMatchEvidence /\ StatusShape /\ DatesAgree

-----------------------------------------------------------------------------
(* The record operators stay within RecordType.                             *)
LEMMA AfterKindType ==
  ASSUME NEW rec \in RecordType, NEW kind \in Conclusive
  PROVE  AfterKind(rec, kind) \in RecordType
<1> USE PolicyAssumption
<1>1. AfterOk(rec) \in RecordType
  BY DEF AfterOk, RecordType, Record, NoRecord
<1>2. AfterFailure(rec) \in RecordType
  BY DEF AfterFailure, AtMost, RecordType, Record
<1>3. AfterProtection(rec) \in RecordType
  BY DEF AfterProtection, RecordType, Record
<1>4. QED
  BY <1>1, <1>2, <1>3 DEF AfterKind

LEMMA TransitionType ==
  ASSUME TypeOK, NEW s \in Source, NEW obs \in [Source -> Kind \cup {"none"}],
         NEW ok \in BOOLEAN
  PROVE  Transition(s, obs, ok) \in RecordType
<1>1. records[s] \in RecordType
  BY DEF TypeOK
<1>2. ASSUME NEW rec \in RecordType
      PROVE  KeepInstalled(rec, s \in Required) \in RecordType
  BY <1>2 DEF KeepInstalled, RecordType
<1>3. QED
  BY <1>1, <1>2, AfterKindType DEF Transition, Counts

LEMMA EvidenceStaysTyped ==
  ASSUME TypeOK, NEW s \in Source, NEW obs \in [Source -> Kind \cup {"none"}],
         NEW ok \in BOOLEAN
  PROVE  Evidence(s, obs, ok) \in EvidenceType
<1>1. evidence[s] \in EvidenceType
  BY DEF TypeOK
<1>2. /\ AtMost(evidence[s].fails + 1, FailureThreshold) \in 0..FailureThreshold
      /\ AtMost(evidence[s].oks + 1, RecoveryThreshold) \in 0..RecoveryThreshold
  BY <1>1, PolicyAssumption DEF EvidenceType, AtMost
<1>3. QED
  BY <1>1, <1>2, PolicyAssumption DEF Evidence, EvidenceType

(* The tests that guard a sweep are truth values.                           *)
LEMMA SweepAcceptedIsBoolean ==
  ASSUME NEW obs, NEW controlReachable \in BOOLEAN
  PROVE  SweepAccepted(obs, controlReachable) \in BOOLEAN
  BY DEF SweepAccepted

-----------------------------------------------------------------------------
(* One source through one sweep: the counters keep matching the evidence,   *)
(* and a change of quarantine status has the evidence it needs.             *)
LEMMA SourceThroughSweep ==
  ASSUME IInv, ~AlreadySampled, NEW s \in Source,
         NEW obs \in [Source -> Kind \cup {"none"}], NEW ok \in BOOLEAN
  PROVE  LET new == Transition(s, obs, ok)
             seen == Evidence(s, obs, ok)
         IN  /\ new.status # "quarantined" => new.failures = seen.fails
             /\ new.status = "quarantined" => new.successes = seen.oks
             /\ new.status = "quarantined" =>
                  /\ s \notin Required
                  /\ new.failures = FailureThreshold
             /\ new.status # "quarantined" =>
                  /\ new.successes = 0
                  /\ s \notin Required => new.failures < FailureThreshold
             /\ new.today => seen.counted
             /\ records[s].status # "quarantined" /\ new.status = "quarantined"
                  => seen.fails = FailureThreshold
             /\ records[s].status = "quarantined" /\ new.status # "quarantined"
                  => seen.oks = RecoveryThreshold
<1> DEFINE rec == records[s]
           e == evidence[s]
<1>1. /\ rec \in RecordType
      /\ e \in EvidenceType
      /\ rec.status # "quarantined" => rec.failures = e.fails
      /\ rec.status = "quarantined" => rec.successes = e.oks
      /\ rec.status = "quarantined" => s \notin Required /\ rec.failures = FailureThreshold
      /\ rec.status # "quarantined" =>
           rec.successes = 0 /\ (s \notin Required => rec.failures < FailureThreshold)
      /\ ~e.counted
      /\ ~rec.today
  BY DEF IInv, TypeOK, CountersMatchEvidence, StatusShape, DatesAgree, Quarantined
<1>2. CASE ~ok \/ obs[s] \notin Conclusive
  BY <1>1, <1>2 DEF Transition, Counts, Evidence
<1>3. CASE ok /\ obs[s] \in Conclusive
  <2> DEFINE new == KeepInstalled(AfterKind(rec, obs[s]), s \in Required)
  <2>1. Transition(s, obs, ok) = new
    BY <1>1, <1>3 DEF Transition, Counts
  <2>2. Evidence(s, obs, ok) =
          [fails |-> IF obs[s] \in Failure THEN AtMost(e.fails + 1, FailureThreshold) ELSE 0,
           oks |-> IF obs[s] = "ok" THEN AtMost(e.oks + 1, RecoveryThreshold) ELSE 0,
           counted |-> TRUE]
    BY <1>1, <1>3 DEF Evidence
  <2>3. CASE obs[s] = "ok"
    BY <1>1, <2>1, <2>2, <2>3, PolicyAssumption
       DEF AfterKind, AfterOk, KeepInstalled, Record, NoRecord, RecordType, EvidenceType,
           AtMost, Failure
  <2>4. CASE obs[s] \in Failure
    BY <1>1, <2>1, <2>2, <2>4, PolicyAssumption
       DEF AfterKind, AfterFailure, KeepInstalled, Record, RecordType, EvidenceType,
           AtMost, Failure
  <2>5. CASE obs[s] = "protected"
    BY <1>1, <2>1, <2>2, <2>5, PolicyAssumption
       DEF AfterKind, AfterProtection, KeepInstalled, Record, RecordType, EvidenceType,
           AtMost, Failure
  <2>6. QED
    BY <1>3, <2>3, <2>4, <2>5 DEF Conclusive
<1>4. QED
  BY <1>2, <1>3

-----------------------------------------------------------------------------
LEMMA InitEstablishesIInv == Init => IInv
<1> SUFFICES ASSUME Init PROVE IInv
  OBVIOUS
<1>1. \A s \in Source : records[s] \in VersionOneRecord
  BY DEF Init
<1>2. VersionOneRecord \subseteq RecordType
  <2>1. NoRecord \in RecordType
    BY PolicyAssumption DEF RecordType, NoRecord
  <2>2. ASSUME NEW f \in 1..(FailureThreshold - 1), NEW t \in BOOLEAN
        PROVE  [status |-> "failing", failures |-> f, successes |-> 0, today |-> t] \in RecordType
    BY PolicyAssumption DEF RecordType
  <2>3. ASSUME NEW n \in 0..(RecoveryThreshold - 1), NEW t \in BOOLEAN
        PROVE  [status |-> "quarantined", failures |-> FailureThreshold, successes |-> n,
                today |-> t] \in RecordType
    BY PolicyAssumption DEF RecordType
  <2>4. QED
    BY <2>1, <2>2, <2>3 DEF VersionOneRecord
<1>3. records \in [Source -> RecordType]
  BY <1>2 DEF Init
<1>4. evidence \in [Source -> EvidenceType]
  BY <1>3, PolicyAssumption DEF Init, EvidenceType, RecordType
<1>5. TypeOK
  BY <1>3, <1>4 DEF Init, TypeOK
<1>6. ASSUME NEW s \in Source
      PROVE  /\ records[s].status # "quarantined" =>
                  /\ records[s].successes = 0
                  /\ records[s].failures < FailureThreshold
             /\ records[s].status = "quarantined" => records[s].failures = FailureThreshold
             /\ evidence[s].oks = records[s].successes
             /\ evidence[s].counted = records[s].today
             /\ records[s].status # "quarantined" => evidence[s].fails = records[s].failures
  BY <1>1, PolicyAssumption DEF Init, VersionOneRecord, NoRecord
<1>7. CountersMatchEvidence
  BY <1>6 DEF CountersMatchEvidence, Quarantined
<1>8. StatusShape
  BY <1>6 DEF StatusShape, Init
<1>9. DatesAgree
  BY <1>6 DEF DatesAgree, AlreadySampled, Init
<1>10. QED
  BY <1>5, <1>7, <1>8, <1>9 DEF IInv

LEMMA SweepPreservesIInv ==
  ASSUME IInv, NEW obs \in [Source -> Kind \cup {"none"}],
         NEW controlReachable \in BOOLEAN, Sweep(obs, controlReachable)
  PROVE  IInv'
<1> DEFINE ok == SweepAccepted(obs, controlReachable)
<1>1. /\ ok \in BOOLEAN
      /\ ~AlreadySampled
      /\ records' = [s \in Source |-> Transition(s, obs, ok)]
      /\ evidence' = [s \in Source |-> Evidence(s, obs, ok)]
      /\ probe' = obs /\ accepted' = ok /\ version' = 2 /\ sampled' = TRUE
  BY SweepAcceptedIsBoolean DEF Sweep
<1> HIDE DEF ok
<1>2. TypeOK'
  BY <1>1, TransitionType, EvidenceStaysTyped DEF IInv, TypeOK
<1>3. CountersMatchEvidence'
  BY <1>1, SourceThroughSweep DEF CountersMatchEvidence, Quarantined
<1>4. StatusShape'
  BY <1>1, SourceThroughSweep DEF StatusShape
<1>5. DatesAgree'
  BY <1>1, SourceThroughSweep DEF DatesAgree, AlreadySampled
<1>6. QED
  BY <1>2, <1>3, <1>4, <1>5 DEF IInv

LEMMA NewDayPreservesIInv == IInv /\ NewDay => IInv'
<1> SUFFICES ASSUME IInv, NewDay PROVE IInv'
  OBVIOUS
<1>1. \A s \in Source : records[s] \in RecordType /\ evidence[s] \in EvidenceType
  BY DEF IInv, TypeOK
<1>2. \A s \in Source :
        /\ records'[s] = [records[s] EXCEPT !.today = FALSE]
        /\ evidence'[s] = [evidence[s] EXCEPT !.counted = FALSE]
  BY DEF NewDay
<1>3. \A s \in Source :
        /\ records'[s].status = records[s].status
        /\ records'[s].failures = records[s].failures
        /\ records'[s].successes = records[s].successes
        /\ records'[s].today = FALSE
        /\ evidence'[s].fails = evidence[s].fails
        /\ evidence'[s].oks = evidence[s].oks
        /\ evidence'[s].counted = FALSE
  BY <1>1, <1>2 DEF RecordType, EvidenceType
<1>4. TypeOK'
  BY <1>1 DEF IInv, TypeOK, NewDay, RecordType, EvidenceType
<1>5. CountersMatchEvidence' /\ StatusShape' /\ DatesAgree'
  BY <1>3 DEF IInv, CountersMatchEvidence, StatusShape, DatesAgree, Quarantined
<1>6. QED
  BY <1>4, <1>5 DEF IInv

(* The strengthened invariant of the daily sweep is inductive.              *)
THEOREM HealthInvariant == Spec => []IInv
<1>1. Init => IInv
  BY InitEstablishesIInv
<1>2. IInv /\ [Next]_vars => IInv'
  <2> SUFFICES ASSUME IInv, [Next]_vars PROVE IInv'
    OBVIOUS
  <2>1. CASE DailySweep
    BY <2>1, SweepPreservesIInv DEF DailySweep
  <2>2. CASE NewDay
    BY <2>2, NewDayPreservesIInv
  <2>3. CASE UNCHANGED vars
    BY <2>3 DEF vars, IInv, TypeOK, CountersMatchEvidence, StatusShape, DatesAgree,
                Quarantined, AlreadySampled
  <2>4. QED
    BY <2>1, <2>2, <2>3 DEF Next
<1>3. QED
  BY <1>1, <1>2, PTL DEF Spec

(* The health state keeps its types.                                       *)
THEOREM TypeCorrect == Spec => []TypeOK
<1>1. IInv => TypeOK
  BY DEF IInv
<1> QED
  BY <1>1, HealthInvariant, PTL

(* For every number of sources and every pair of thresholds, the persisted  *)
(* counters are the evidence (source_health.transition).                    *)
THEOREM CountersAreEvidence == Spec => []CountersMatchEvidence
<1>1. IInv => CountersMatchEvidence
  BY DEF IInv
<1>2. QED
  BY <1>1, HealthInvariant, PTL

(* A required source is never quarantined by the sweep, whatever it fails.  *)
THEOREM RequiredNeverQuarantined == Spec => []RequiredStayInstalled
<1>1. IInv => RequiredStayInstalled
  BY DEF IInv, StatusShape, RequiredStayInstalled, Quarantined
<1>2. QED
  BY <1>1, HealthInvariant, PTL

-----------------------------------------------------------------------------
(* A step that changes a source's quarantine is a sweep with the evidence.  *)
LEMMA QuarantineChange ==
  ASSUME IInv, [Next]_vars, NEW s \in Source
  PROVE  /\ s \notin Quarantined /\ s \in Quarantined' => evidence'[s].fails = FailureThreshold
         /\ s \in Quarantined /\ s \notin Quarantined' => evidence'[s].oks = RecoveryThreshold
<1>1. CASE DailySweep
  <2>1. PICK obs \in [Source -> Kind \cup {"none"}], controlReachable \in BOOLEAN :
          Sweep(obs, controlReachable)
    BY <1>1 DEF DailySweep
  <2> DEFINE ok == SweepAccepted(obs, controlReachable)
  <2>2. /\ ok \in BOOLEAN
        /\ ~AlreadySampled
        /\ records'[s] = Transition(s, obs, ok)
        /\ evidence'[s] = Evidence(s, obs, ok)
    BY <2>1, SweepAcceptedIsBoolean DEF Sweep
  <2> HIDE DEF ok
  <2>3. QED
    BY <2>2, SourceThroughSweep DEF Quarantined
<1>2. CASE NewDay
  <2>1. records'[s].status = records[s].status
    BY <1>2 DEF NewDay, IInv, TypeOK, RecordType
  <2>2. QED
    BY <2>1 DEF Quarantined
<1>3. CASE UNCHANGED vars
  BY <1>3 DEF vars, Quarantined
<1>4. QED
  BY <1>1, <1>2, <1>3 DEF Next

(* Quarantine takes FailureThreshold consecutive failed dates and release   *)
(* RecoveryThreshold consecutive healthy ones, for every value of the       *)
(* constants.                                                               *)
THEOREM VerdictsAreEarned == Spec => VerdictsEarned
<1>1. IInv /\ [Next]_vars =>
        [\A s \in Source :
           /\ s \in Quarantined' \ Quarantined => evidence'[s].fails = FailureThreshold
           /\ s \in Quarantined \ Quarantined' => evidence'[s].oks = RecoveryThreshold]_vars
  BY QuarantineChange
<1>2. QED
  BY <1>1, HealthInvariant, PTL DEF Spec, VerdictsEarned

-----------------------------------------------------------------------------
(* The records implement the promise of Quarantine.                         *)

(* What one sweep shows of a source to the abstract specification.          *)
Shown(s, obs, ok) ==
  IF ~ok \/ obs[s] \notin Conclusive \/ evidence[s].counted THEN "none"
  ELSE IF obs[s] \in Failure THEN "failed"
  ELSE IF obs[s] = "ok" THEN "healthy"
  ELSE "protected"

Streak(s) == [fails |-> evidence[s].fails, oks |-> evidence[s].oks]

(* One source through one sweep, seen from the abstract specification.      *)
LEMMA SweepExtendsStreak ==
  ASSUME IInv, ~AlreadySampled, NEW s \in Source,
         NEW obs \in [Source -> Kind \cup {"none"}], NEW ok \in BOOLEAN,
         NEW new, new = Evidence(s, obs, ok), NEW shown, shown = Shown(s, obs, ok)
  PROVE  /\ shown \in Abstract!Seen
         /\ evidence[s].counted => shown = "none"
         /\ Abstract!Extend(Streak(s), shown) = [fails |-> new.fails, oks |-> new.oks]
         /\ new.counted <=> evidence[s].counted \/ shown # "none"
<1>1. evidence[s] \in EvidenceType
  BY DEF IInv, TypeOK
<1>2. /\ Abstract!Capped(evidence[s].fails + 1, FailureThreshold)
           = AtMost(evidence[s].fails + 1, FailureThreshold)
      /\ Abstract!Capped(evidence[s].oks + 1, RecoveryThreshold)
           = AtMost(evidence[s].oks + 1, RecoveryThreshold)
  BY <1>1, PolicyAssumption DEF Abstract!Capped, AtMost, EvidenceType
<1>3. CASE shown = "none"
  BY <1>1, <1>3 DEF Shown, Evidence, Streak, EvidenceType, Abstract!Extend, Abstract!Seen,
                    Conclusive, Failure
<1>4. CASE ok /\ obs[s] \in Conclusive /\ ~evidence[s].counted
  <2>1. new =
          [fails |-> IF obs[s] \in Failure
                       THEN AtMost(evidence[s].fails + 1, FailureThreshold) ELSE 0,
           oks |-> IF obs[s] = "ok" THEN AtMost(evidence[s].oks + 1, RecoveryThreshold) ELSE 0,
           counted |-> TRUE]
    BY <1>4 DEF Evidence
  <2> DEFINE f == AtMost(evidence[s].fails + 1, FailureThreshold)
             o == AtMost(evidence[s].oks + 1, RecoveryThreshold)
  <2>2. CASE obs[s] \in Failure
    <3>1. shown = "failed"
      BY <1>4, <2>2 DEF Shown
    <3>2. new = [fails |-> f, oks |-> 0, counted |-> TRUE]
      BY <2>1, <2>2 DEF Failure
    <3>3. Abstract!Extend(Streak(s), "failed") = [fails |-> f, oks |-> 0]
      BY <1>2 DEF Abstract!Extend, Streak
    <3>4. shown \in Abstract!Seen /\ shown # "none"
      BY <3>1 DEF Abstract!Seen
    <3>5. Abstract!Extend(Streak(s), shown) = [fails |-> new.fails, oks |-> new.oks]
      BY <3>1, <3>2, <3>3
    <3>6. new.counted
      BY <3>2
    <3>7. QED
      BY <1>4, <3>4, <3>5, <3>6
  <2>3. CASE obs[s] = "ok"
    <3>1. shown = "healthy"
      BY <1>4, <2>3 DEF Shown, Failure
    <3>2. new = [fails |-> 0, oks |-> o, counted |-> TRUE]
      BY <2>1, <2>3 DEF Failure
    <3>3. Abstract!Extend(Streak(s), "healthy") = [fails |-> 0, oks |-> o]
      BY <1>2 DEF Abstract!Extend, Streak
    <3>4. shown \in Abstract!Seen /\ shown # "none"
      BY <3>1 DEF Abstract!Seen
    <3>5. Abstract!Extend(Streak(s), shown) = [fails |-> new.fails, oks |-> new.oks]
      BY <3>1, <3>2, <3>3
    <3>6. new.counted
      BY <3>2
    <3>7. QED
      BY <1>4, <3>4, <3>5, <3>6
  <2>4. CASE obs[s] \notin Failure /\ obs[s] # "ok"
    <3>1. shown = "protected"
      BY <1>4, <2>4 DEF Shown
    <3>2. new = [fails |-> 0, oks |-> 0, counted |-> TRUE]
      BY <2>1, <2>4
    <3>3. Abstract!Extend(Streak(s), "protected") = [fails |-> 0, oks |-> 0]
      BY DEF Abstract!Extend
    <3>4. shown \in Abstract!Seen /\ shown # "none"
      BY <3>1 DEF Abstract!Seen
    <3>5. Abstract!Extend(Streak(s), shown) = [fails |-> new.fails, oks |-> new.oks]
      BY <3>1, <3>2, <3>3
    <3>6. new.counted
      BY <3>2
    <3>7. QED
      BY <1>4, <3>4, <3>5, <3>6
  <2>5. QED
    BY <2>2, <2>3, <2>4
<1>5. QED
  BY <1>3, <1>4 DEF Shown

(* The records' verdict is the streaks' verdict.                            *)
LEMMA RecordsJudge ==
  ASSUME IInv, IInv', NEW s \in Source,
         evidence'[s].fails \in Nat, evidence'[s].oks \in Nat,
         s \notin Quarantined /\ s \in Quarantined' => evidence'[s].fails = FailureThreshold,
         s \in Quarantined /\ s \notin Quarantined' => evidence'[s].oks = RecoveryThreshold
  PROVE  s \in Quarantined' <=>
           IF s \in Quarantined
             THEN evidence'[s].oks < RecoveryThreshold
             ELSE evidence'[s].fails = FailureThreshold /\ s \notin Required
<1>1. records'[s] \in RecordType
  BY DEF IInv, TypeOK
<1>2. s \in Quarantined' =>
        /\ s \notin Required
        /\ evidence'[s].oks = records'[s].successes
        /\ records'[s].successes < RecoveryThreshold
  BY <1>1, PolicyAssumption DEF IInv, StatusShape, CountersMatchEvidence, Quarantined, RecordType
<1>3. s \notin Quarantined' =>
        /\ evidence'[s].fails = records'[s].failures
        /\ s \notin Required => records'[s].failures < FailureThreshold
  BY <1>1 DEF IInv, StatusShape, CountersMatchEvidence, Quarantined
<1>4. QED
  BY <1>2, <1>3, PolicyAssumption

LEMMA InitIsAbstract == Init /\ IInv => Abstract!QuarantineInit
<1> SUFFICES ASSUME IInv PROVE Abstract!QuarantineInit
  OBVIOUS
<1>1. \A s \in Source : evidence[s] \in EvidenceType
  BY DEF IInv, TypeOK
<1>2. Quarantined \subseteq Source \ Required
  BY DEF IInv, StatusShape, Quarantined
<1>3. QED
  BY <1>1, <1>2 DEF Abstract!QuarantineInit, EvidenceType

LEMMA SweepIsObserve ==
  ASSUME IInv, IInv', DailySweep
  PROVE  Abstract!Observe
<1>1. PICK obs \in [Source -> Kind \cup {"none"}], controlReachable \in BOOLEAN :
        Sweep(obs, controlReachable)
  BY DEF DailySweep
<1> DEFINE ok == SweepAccepted(obs, controlReachable)
           shown == [s \in Source |-> Shown(s, obs, ok)]
<1>2. ok \in BOOLEAN /\ ~AlreadySampled
  BY <1>1, SweepAcceptedIsBoolean DEF Sweep
<1>3. evidence' = [s \in Source |-> Evidence(s, obs, ok)]
  BY <1>1 DEF Sweep
<1> HIDE DEF ok
<1>4. \A s \in Source :
        /\ shown[s] \in Abstract!Seen
        /\ evidence[s].counted => shown[s] = "none"
        /\ Abstract!Extend(Streak(s), shown[s])
             = [fails |-> evidence'[s].fails, oks |-> evidence'[s].oks]
        /\ evidence'[s].counted <=> evidence[s].counted \/ shown[s] # "none"
  BY <1>2, <1>3, SweepExtendsStreak
<1>5. \A s \in Source : evidence'[s].fails \in Nat /\ evidence'[s].oks \in Nat
  BY PolicyAssumption DEF IInv, TypeOK, EvidenceType
<1>6. [Next]_vars
  BY DEF Next
<1>7. \A s \in Source :
        s \in Quarantined' <=>
          IF s \in Quarantined
            THEN evidence'[s].oks < RecoveryThreshold
            ELSE evidence'[s].fails = FailureThreshold /\ s \notin Required
  BY <1>5, <1>6, QuarantineChange, RecordsJudge
<1>8. Quarantined' =
        Abstract!Judged(Quarantined,
          [s \in Source |-> [fails |-> evidence'[s].fails, oks |-> evidence'[s].oks]])
  BY <1>7 DEF Abstract!Judged, Quarantined
<1>9. shown \in [Source -> Abstract!Seen]
  BY <1>4
<1>10. QED
  BY <1>4, <1>8, <1>9 DEF Abstract!Observe, Streak

LEMMA NewDayIsMidnight ==
  ASSUME IInv, NewDay
  PROVE  Abstract!Midnight
<1>1. \A s \in Source : records[s] \in RecordType /\ evidence[s] \in EvidenceType
  BY DEF IInv, TypeOK
<1>2. \A s \in Source :
        /\ records'[s].status = records[s].status
        /\ evidence'[s].fails = evidence[s].fails
        /\ evidence'[s].oks = evidence[s].oks
        /\ ~evidence'[s].counted
  BY <1>1 DEF NewDay, RecordType, EvidenceType
<1>3. QED
  BY <1>2 DEF Abstract!Midnight, Quarantined

(* The daily sweep with its records, dates, sweep quality and migration     *)
(* implements Quarantine, for every set of sources and all thresholds.      *)
THEOREM HealthImplementsQuarantine == Spec => ImplementsQuarantine
<1>1. Init /\ IInv => Abstract!QuarantineInit
  BY InitIsAbstract
<1>2. IInv /\ IInv' /\ [Next]_vars => [Abstract!QuarantineNext]_(Abstract!qvars)
  <2> SUFFICES ASSUME IInv, IInv', [Next]_vars
               PROVE  [Abstract!QuarantineNext]_(Abstract!qvars)
    OBVIOUS
  <2>1. CASE DailySweep
    BY <2>1, SweepIsObserve DEF Abstract!QuarantineNext
  <2>2. CASE NewDay
    BY <2>2, NewDayIsMidnight DEF Abstract!QuarantineNext
  <2>3. CASE UNCHANGED vars
    BY <2>3 DEF vars, Abstract!qvars, Quarantined
  <2>4. QED
    BY <2>1, <2>2, <2>3 DEF Next
<1>3. QED
  BY <1>1, <1>2, HealthInvariant, PTL DEF Spec, ImplementsQuarantine, Abstract!QuarantineSpec

=============================================================================
