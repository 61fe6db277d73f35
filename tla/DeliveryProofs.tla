----------------------------- MODULE DeliveryProofs -----------------------------
(***************************************************************************)
(* Proofs about Delivery for all commits, files, sources and issues: an    *)
(* acceptance of the public feed vouches for one commit, the daily and the *)
(* public workflow keep one incident and never lose it while something is  *)
(* wrong, and what closes an incident saw its checks succeed.              *)
(***************************************************************************)
EXTENDS Delivery, FiniteSetTheorems, TLAPS

(* A manifest was served as the commit of the check has it, at some time;   *)
(* and since then in another way.                                           *)
Served(m) == \E c \in Commits :
  c <= served[m] /\ Content[c][m] = Content[check.commit][m]
Replaced(m) == \E c, d \in Commits :
  /\ c <= d /\ d <= served[m]
  /\ Content[c][m] = Content[check.commit][m] /\ Content[d][m] # Content[check.commit][m]

Checking == check # NoCheck /\ check.program = "verify_public"

(* The first pass saw every manifest; a change since then waits at a        *)
(* manifest that is still to be read again.                                 *)
AcceptSound ==
  Checking =>
    /\ check.stage = "manifests" => check.steady
    /\ check.stage = "manifests" /\ ~check.stale => \A m \in Reread \cap check.read : Served(m)
    /\ check.stage \in {"packages", "again"} => \A m \in Reread : Served(m)
    /\ check.stage = "packages" /\ ~check.steady => \E m \in Reread : Replaced(m)
    /\ check.stage = "again" /\ ~check.steady => \E m \in Reread \ check.read : Replaced(m)
    /\ check.stage = "passed" => check.steady

(* Which program checks the feed depends on the workflow.                   *)
ProgramSound == check # NoCheck => (check.program = "verify_public" <=> kind = "public")

(* Only the functional workflow has a second slot.                          *)
OneSlot ==
  kind # "functional" =>
    job["refs/heads/main"] = NoJob /\ report["refs/heads/main"] = I!NoReport

(* The reports that will post an incident of their own, and the incidents   *)
(* that may come of it.                                                     *)
EmptyHanded ==
  {slot \in Slots : /\ report[slot] # I!NoReport /\ report[slot].phase = "act"
                    /\ ~report[slot].healthy /\ report[slot].found = {}}

Counted ==
  /\ IsFiniteSet(open)
  /\ Cardinality(open) + Cardinality(EmptyHanded) <= Cardinality(Slots)

(* Nobody but the report itself changes what it found.                      *)
FoundSound ==
  kind # "functional" /\ report["main"] # I!NoReport /\ report["main"].phase = "act" =>
    /\ report["main"].found = open
    /\ report["main"].healthy => ~alarm

(* A run without a bad result has seen what its good results say; the two   *)
(* results of the functional workflow come together.                        *)
JobSound == \A slot \in Slot :
  job[slot] # NoJob /\ (\A c \in Checks : job[slot].results[c] \in {"pending", "success"})
    => job[slot].proved
PairSound == \A slot \in Slot :
  job[slot] # NoJob /\ kind = "functional" /\ job[slot].results["job"] = "pending"
    => job[slot].results["acceptance"] = "pending"
ReportSound == \A slot \in Slot :
  report[slot] # I!NoReport /\ report[slot].healthy => report[slot].proved

-----------------------------------------------------------------------------
(* The feed.                                                                *)

LEMMA FeedTypes ==
  ASSUME FeedTypeOK, Deploy \/ Propagate \/ \E arrives \in BOOLEAN : Read(arrives)
  PROVE  FeedTypeOK'
<1>1. CASE Deploy
  BY <1>1, FeedAssumption DEF Deploy, FeedTypeOK, Commits, CheckType
<1>2. CASE Propagate
  <2>0. PICK p \in Path : \E c \in (served[p] + 1)..head :
          served' = [served EXCEPT ![p] = c] /\ UNCHANGED <<head, check>>
    BY <1>2 DEF Propagate
  <2>1. PICK c \in (served[p] + 1)..head :
          served' = [served EXCEPT ![p] = c] /\ UNCHANGED <<head, check>>
    BY <2>0
  <2>2. c \in Commits /\ c <= head
    BY <2>1, FeedAssumption DEF FeedTypeOK, Commits
  <2>3. QED
    BY <2>1, <2>2 DEF FeedTypeOK, CheckType
<1>3. CASE \E arrives \in BOOLEAN : Read(arrives)
  <2>1. PICK arrives \in BOOLEAN, p \in Path :
          ReadManifest(p, arrives) \/ ReadPackage(p, arrives) \/ ReadAgain(p, arrives)
    BY <1>3 DEF Read
  <2>2. check \in CheckType /\ check.commit <= head /\ UNCHANGED <<head, served>>
    BY <2>1 DEF ReadManifest, ReadPackage, ReadAgain, FeedTypeOK, NoCheck
  <2>3. ASSUME NEW c \in CheckType, c.commit = check.commit
        PROVE  /\ Failed(c) \in CheckType /\ Failed(c).commit = check.commit
               /\ Again(c) \in CheckType /\ Again(c).commit = check.commit
               /\ \A s \in {"packages", "again", "passed"} :
                    NextStage(c, s) \in CheckType /\ NextStage(c, s).commit = check.commit
    <3>1. Failed(c) \in CheckType /\ Failed(c).commit = check.commit
      BY <2>3 DEF Failed, CheckType
    <3>2. \A s \in {"packages", "again", "passed"} :
            NextStage(c, s) \in CheckType /\ NextStage(c, s).commit = check.commit
      BY <2>3 DEF NextStage, CheckType
    <3>3. c.attempt + 1 \in Nat
      BY <2>3 DEF CheckType
    <3>4. [c EXCEPT !.stage = "manifests", !.attempt = @ + 1, !.read = {}, !.stale = FALSE,
                    !.steady = TRUE] \in CheckType
      BY <2>3, <3>3 DEF CheckType
    <3>5. [c EXCEPT !.stage = "manifests", !.attempt = @ + 1, !.read = {}, !.stale = FALSE,
                    !.steady = TRUE].commit = check.commit
      BY <2>3 DEF CheckType
    <3>6. Again(c) \in CheckType /\ Again(c).commit = check.commit
      BY <3>1, <3>4, <3>5 DEF Again
    <3>7. QED
      BY <3>1, <3>2, <3>6
  <2>4. check' \in CheckType /\ check'.commit = check.commit
    <3>1. CASE ReadManifest(p, arrives)
      <4> DEFINE c == [check EXCEPT !.read = @ \cup {p}, !.stale = @ \/ ~arrives \/ ~Matches(p)]
      <4>1. c \in CheckType /\ c.commit = check.commit
        BY <2>2 DEF CheckType
      <4>2. check' = AfterManifests(c)
        BY <3>1 DEF ReadManifest
      <4>3. QED
        BY <4>1, <4>2, <2>3 DEF AfterManifests
    <3>2. CASE ReadPackage(p, arrives)
      <4> DEFINE c == [check EXCEPT !.read = @ \cup {p},
                                    !.steady = @ /\ \A m \in Reread : Matches(m)]
      <4>1. c \in CheckType /\ c.commit = check.commit
        BY <2>2 DEF CheckType
      <4>2. check' = AfterPackages(c) \/ check' = Failed(c) \/ check' = Again(c)
        BY <3>2 DEF ReadPackage
      <4> HIDE DEF c
      <4>3. AfterPackages(c) \in CheckType /\ AfterPackages(c).commit = check.commit
        BY <4>1, <2>3 DEF AfterPackages
      <4>4. QED
        BY <4>1, <4>2, <4>3, <2>3
    <3>3. CASE ReadAgain(p, arrives)
      <4> DEFINE c == [check EXCEPT !.read = @ \cup {p}]
      <4>1. c \in CheckType /\ c.commit = check.commit
        BY <2>2 DEF CheckType
      <4>2. check' = Failed(c) \/ check' = NextStage(c, "passed") \/ check' = c
        BY <3>3 DEF ReadAgain
      <4> HIDE DEF c
      <4>3. QED
        BY <4>1, <4>2, <2>3
    <3>4. QED
      BY <2>1, <3>1, <3>2, <3>3
  <2>5. QED
    BY <2>2, <2>4 DEF FeedTypeOK
<1>4. QED
  BY <1>1, <1>2, <1>3

(* What was replaced does not come back.                                    *)
LEMMA ReplacedForGood ==
  ASSUME FeedTypeOK, check \in CheckType, NEW m \in Reread
  PROVE  /\ Matches(m) => Served(m)
         /\ Replaced(m) => ~Matches(m)
         /\ Served(m) /\ ~Matches(m) => Replaced(m)
<1>1. served[m] \in Commits /\ check.commit \in Commits
  BY DEF FeedTypeOK, CheckType, Path
<1>2. \A c, d \in Commits : c \in Int /\ d \in Int
  BY FeedAssumption DEF Commits
<1>3. Matches(m) => Served(m)
  BY <1>1, <1>2 DEF Matches, Served
<1>4. ASSUME Replaced(m), Matches(m)
      PROVE  FALSE
  <2>1. PICK c, d \in Commits :
          /\ c <= d /\ d <= served[m]
          /\ Content[c][m] = Content[check.commit][m] /\ Content[d][m] # Content[check.commit][m]
    BY <1>4 DEF Replaced
  <2>2. Content[c][m] = Content[served[m]][m]
    BY <2>1, <1>4 DEF Matches
  <2>3. Content[d][m] = Content[c][m]
    BY <1>1, <2>1, <2>2, FeedAssumption
  <2>4. QED
    BY <2>1, <2>3
<1>5. Served(m) /\ ~Matches(m) => Replaced(m)
  BY <1>1, <1>2 DEF Matches, Served, Replaced
<1>6. QED
  BY <1>3, <1>4, <1>5

LEMMA PagesKeepSeen ==
  ASSUME FeedTypeOK, check \in CheckType, Deploy \/ Propagate, NEW m \in Reread
  PROVE  (Served(m) => Served(m)') /\ (Replaced(m) => Replaced(m)')
<1>1. check' = check /\ served'[m] \in Int /\ served[m] \in Int /\ served[m] <= served'[m]
  <2>1. CASE Deploy
    BY <2>1, FeedAssumption DEF Deploy, FeedTypeOK, Commits, Path
  <2>2. CASE Propagate
    <3>1. PICK p \in Path : \E c \in (served[p] + 1)..head :
            served' = [served EXCEPT ![p] = c] /\ UNCHANGED <<head, check>>
      BY <2>2 DEF Propagate
    <3>2. PICK c \in (served[p] + 1)..head :
            served' = [served EXCEPT ![p] = c] /\ UNCHANGED <<head, check>>
      BY <3>1
    <3>3. served[m] \in Commits /\ served[p] \in Commits /\ head \in Commits
      BY DEF FeedTypeOK, Path
    <3>4. served'[m] = (IF m = p THEN c ELSE served[m])
      BY <3>2 DEF FeedTypeOK, Path
    <3>5. QED
      BY <3>2, <3>3, <3>4, FeedAssumption DEF Commits
  <2>3. QED
    BY <2>1, <2>2
<1>2. \A c \in Commits : c \in Int
  BY FeedAssumption DEF Commits
<1>3. Served(m) => Served(m)'
  BY <1>1, <1>2 DEF Served
<1>4. Replaced(m) => Replaced(m)'
  BY <1>1, <1>2 DEF Replaced
<1>5. QED
  BY <1>3, <1>4

(* A check keeps what it compares with.                                     *)
LEMMA ReadKeepsAim ==
  ASSUME check \in CheckType, NEW arrives \in BOOLEAN, NEW p \in Path,
         ReadManifest(p, arrives) \/ ReadPackage(p, arrives) \/ ReadAgain(p, arrives)
  PROVE  check'.commit = check.commit /\ check'.program = check.program
<1>1. ASSUME NEW c \in CheckType
      PROVE  /\ Failed(c).commit = c.commit /\ Failed(c).program = c.program
             /\ Again(c).commit = c.commit /\ Again(c).program = c.program
             /\ \A s : NextStage(c, s).commit = c.commit /\ NextStage(c, s).program = c.program
  BY DEF Failed, Again, NextStage, CheckType
<1>2. CASE ReadManifest(p, arrives)
  <2> DEFINE c == [check EXCEPT !.read = @ \cup {p}, !.stale = @ \/ ~arrives \/ ~Matches(p)]
  <2>1. c \in CheckType /\ c.commit = check.commit /\ c.program = check.program
    BY DEF CheckType
  <2>2. check' = AfterManifests(c)
    BY <1>2 DEF ReadManifest
  <2> HIDE DEF c
  <2>3. QED
    BY <2>1, <2>2, <1>1 DEF AfterManifests
<1>3. CASE ReadPackage(p, arrives)
  <2> DEFINE c == [check EXCEPT !.read = @ \cup {p},
                                !.steady = @ /\ \A m \in Reread : Matches(m)]
  <2>1. c \in CheckType /\ c.commit = check.commit /\ c.program = check.program
    BY DEF CheckType
  <2>2. check' = AfterPackages(c) \/ check' = Failed(c) \/ check' = Again(c)
    BY <1>3 DEF ReadPackage
  <2> HIDE DEF c
  <2>3. QED
    BY <2>1, <2>2, <1>1 DEF AfterPackages
<1>4. CASE ReadAgain(p, arrives)
  <2> DEFINE c == [check EXCEPT !.read = @ \cup {p}]
  <2>1. c \in CheckType /\ c.commit = check.commit /\ c.program = check.program
    BY DEF CheckType
  <2>2. check' = Failed(c) \/ check' = NextStage(c, "passed") \/ check' = c
    BY <1>4 DEF ReadAgain
  <2> HIDE DEF c
  <2>3. QED
    BY <2>1, <2>2, <1>1
<1>5. QED
  BY <1>2, <1>3, <1>4

LEMMA AcceptKept ==
  ASSUME FeedTypeOK, AcceptSound,
         Deploy \/ Propagate \/ \E arrives \in BOOLEAN : Read(arrives)
  PROVE  AcceptSound'
<1> SUFFICES ASSUME Checking'
             PROVE  AcceptSound'
  BY DEF AcceptSound
<1>1. CASE Deploy \/ Propagate
  <2>1. check' = check /\ Checking
    BY <1>1 DEF Deploy, Propagate, Checking
  <2>2. check \in CheckType
    BY <2>1 DEF Checking, FeedTypeOK
  <2>3. \A m \in Reread : (Served(m) => Served(m)') /\ (Replaced(m) => Replaced(m)')
    BY <1>1, <2>2, PagesKeepSeen
  <2>4. QED
    BY <2>1, <2>3 DEF AcceptSound, Checking
<1>2. CASE \E arrives \in BOOLEAN : Read(arrives)
  <2>1. PICK arrives \in BOOLEAN, p \in Path :
          ReadManifest(p, arrives) \/ ReadPackage(p, arrives) \/ ReadAgain(p, arrives)
    BY <1>2 DEF Read
  <2>2. check \in CheckType /\ UNCHANGED <<head, served>>
    BY <2>1 DEF ReadManifest, ReadPackage, ReadAgain, FeedTypeOK, NoCheck
  <2>3. \A m \in Reread : /\ Matches(m) => Served(m)
                          /\ Replaced(m) => ~Matches(m)
                          /\ Served(m) /\ ~Matches(m) => Replaced(m)
    BY <2>2, ReplacedForGood
  <2>4. check'.commit = check.commit /\ check'.program = check.program
    BY <2>1, <2>2, ReadKeepsAim
  <2>5. Checking
    BY <2>2, <2>4 DEF Checking, CheckType, NoCheck
  <2>6. \A m \in Reread : (Served(m) <=> Served(m)') /\ (Replaced(m) <=> Replaced(m)')
    BY <2>2, <2>4 DEF Served, Replaced
  <2>7. ASSUME NEW c \in CheckType
        PROVE  /\ Failed(c).stage = "failed"
               /\ \/ Again(c).stage = "failed"
                  \/ /\ Again(c).stage = "manifests" /\ Again(c).read = {}
                     /\ Again(c).steady
    BY DEF Failed, Again, CheckType
  <2>8. CASE ReadManifest(p, arrives)
    <3> DEFINE c == [check EXCEPT !.read = @ \cup {p}, !.stale = @ \/ ~arrives \/ ~Matches(p)]
    <3>1. /\ c \in CheckType /\ c.stage = "manifests" /\ c.steady
          /\ c.read = check.read \cup {p}
          /\ ~c.stale => ~check.stale /\ Matches(p)
          /\ check.program = "verify_public" /\ c.program = "verify_public"
      BY <2>2, <2>5, <2>8 DEF ReadManifest, CheckType, AcceptSound, Checking
    <3>2. check' = AfterManifests(c)
      BY <2>8 DEF ReadManifest
    <3>3. ~c.stale => \A m \in Reread \cap c.read : Served(m)
      BY <3>1, <2>3, <2>5, <2>8 DEF ReadManifest, AcceptSound
    <3> HIDE DEF c
    <3>4. CASE c.read # Manifests(c.program)
      BY <3>1, <3>2, <3>3, <3>4, <2>6 DEF AfterManifests, AcceptSound
    <3>5. CASE c.read = Manifests(c.program) /\ c.stale
      BY <3>1, <3>2, <3>5, <2>7 DEF AfterManifests, AcceptSound
    <3>6. CASE c.read = Manifests(c.program) /\ ~c.stale
      <4>1. \A m \in Reread : Served(m)
        BY <3>1, <3>3, <3>6 DEF Manifests
      <4>2. check' = NextStage(c, "packages")
        BY <3>2, <3>6 DEF AfterManifests
      <4>3. check'.stage = "packages" /\ check'.steady
        BY <4>2, <3>1 DEF NextStage, CheckType
      <4>4. QED
        BY <4>1, <4>3, <2>6 DEF AcceptSound
    <3>7. QED
      BY <3>4, <3>5, <3>6
  <2>9. CASE ReadPackage(p, arrives)
    <3> DEFINE c == [check EXCEPT !.read = @ \cup {p},
                                  !.steady = @ /\ \A m \in Reread : Matches(m)]
    <3>1. /\ c \in CheckType /\ c.stage = "packages" /\ c.program = "verify_public"
          /\ c.steady <=> check.steady /\ \A m \in Reread : Matches(m)
      BY <2>2, <2>5, <2>9 DEF ReadPackage, CheckType, Checking
    <3>2. check' = AfterPackages(c) \/ check' = Failed(c) \/ check' = Again(c)
      BY <2>9 DEF ReadPackage
    <3>3. /\ \A m \in Reread : Served(m)
          /\ ~check.steady => \E m \in Reread : Replaced(m)
      BY <2>5, <2>9 DEF ReadPackage, AcceptSound
    <3>4. ~c.steady => \E m \in Reread : Replaced(m)
      BY <3>1, <3>3, <2>3
    <3> HIDE DEF c
    <3>5. CASE check' = Failed(c) \/ check' = Again(c)
      BY <3>1, <3>5, <2>7 DEF AcceptSound
    <3>6. CASE check' = AfterPackages(c) /\ c.read # Packages(c.program)
      <4>1. check' = c
        BY <3>6 DEF AfterPackages
      <4>2. QED
        BY <4>1, <3>1, <3>3, <3>4, <2>6 DEF AcceptSound
    <3>7. CASE check' = AfterPackages(c) /\ c.read = Packages(c.program)
      <4>1. check' = NextStage(c, "again")
        BY <3>7, <3>1 DEF AfterPackages
      <4>2. check'.stage = "again" /\ check'.read = {} /\ check'.steady = c.steady
        BY <4>1, <3>1 DEF NextStage, CheckType
      <4>3. QED
        BY <4>2, <3>3, <3>4, <2>6 DEF AcceptSound
    <3>8. QED
      BY <3>2, <3>5, <3>6, <3>7
  <2>10. CASE ReadAgain(p, arrives)
    <3> DEFINE c == [check EXCEPT !.read = @ \cup {p}]
    <3>1. /\ c \in CheckType /\ c.stage = "again" /\ c.steady = check.steady
          /\ c.read = check.read \cup {p}
      BY <2>2, <2>10 DEF ReadAgain, CheckType
    <3>2. /\ \A m \in Reread : Served(m)
          /\ ~check.steady => \E m \in Reread \ check.read : Replaced(m)
      BY <2>5, <2>10 DEF ReadAgain, AcceptSound
    <3>3. \/ check' = Failed(c)
          \/ Matches(p) /\ check' = (IF c.read = Reread THEN NextStage(c, "passed") ELSE c)
      BY <2>10 DEF ReadAgain
    <3> HIDE DEF c
    <3>4. CASE check' = Failed(c)
      BY <3>1, <3>4, <2>7 DEF AcceptSound
    <3>5. CASE Matches(p) /\ check' = (IF c.read = Reread THEN NextStage(c, "passed") ELSE c)
      <4>1. ~c.steady => \E m \in Reread \ c.read : Replaced(m)
        BY <3>1, <3>2, <3>5, <2>3
      <4>2. CASE c.read = Reread
        <5>1. check'.stage = "passed" /\ check'.steady
          BY <4>1, <4>2, <3>1, <3>5 DEF NextStage, CheckType
        <5>2. QED
          BY <5>1 DEF AcceptSound
      <4>3. CASE c.read # Reread
        BY <4>1, <4>3, <3>1, <3>2, <3>5, <2>6 DEF AcceptSound
      <4>4. QED
        BY <4>2, <4>3
    <3>6. QED
      BY <3>3, <3>4, <3>5
  <2>11. QED
    BY <2>1, <2>8, <2>9, <2>10
<1>3. QED
  BY <1>1, <1>2

-----------------------------------------------------------------------------
(* What the checks say.                                                     *)

(* "passed" is the status of cases that were all run to their end.          *)
LEMMA PassedIsUsable ==
  ASSUME NEW seen \in [CriticalSource -> CaseSeen],
         OverallStatus({CaseStatus(s, seen[s]) : s \in CriticalSource}) = "passed"
  PROVE  \A s \in CriticalSource :
           seen[s].end = "report" /\ seen[s].clean /\ seen[s].complete
<1> DEFINE statuses == {CaseStatus(s, seen[s]) : s \in CriticalSource}
<1>1. statuses = {"passed"}
  BY DEF OverallStatus
<1>2. SUFFICES ASSUME NEW s \in CriticalSource
               PROVE  seen[s].end = "report" /\ seen[s].clean /\ seen[s].complete
  OBVIOUS
<1>3. CaseStatus(s, seen[s]) = "passed"
  BY <1>1
<1>4. seen[s] \in CaseSeen
  OBVIOUS
<1>5. QED
  BY <1>3, <1>4 DEF CaseStatus, Incomplete, CaseSeen, Ended

(* The status of a case, of all cases, and of the smoke job.                *)
LEMMA StatusTypes ==
  ASSUME NEW seen \in [CriticalSource -> CaseSeen]
  PROVE  LET overall == OverallStatus({CaseStatus(s, seen[s]) : s \in CriticalSource})
         IN  /\ FunctionalJob(overall) \in Results \ {"pending"}
             /\ Acceptance(overall) \in Results \ {"pending"}
<1>1. \A statuses : OverallStatus(statuses) \in {"failed", "passed", "inconclusive", "blocked"}
  BY DEF OverallStatus
<1>2. QED
  BY <1>1 DEF FunctionalJob, Acceptance, Results

(* A successful chapter smoke saw no endpoint fail.                         *)
LEMMA SmokeSawNoFailure ==
  ASSUME NEW seen \in [CriticalSource -> EndpointSeen],
         CriticalJob({EndpointResult(seen[s], s \in MayProtect) : s \in CriticalSource}) = "success"
  PROVE  \A s \in CriticalSource : \/ seen[s] \in {"page", "timeout", "network error"}
                                   \/ seen[s] = "protected" /\ s \in MayProtect
<1>1. SUFFICES ASSUME NEW s \in CriticalSource
               PROVE  \/ seen[s] \in {"page", "timeout", "network error"}
                      \/ seen[s] = "protected" /\ s \in MayProtect
  OBVIOUS
<1>2. "fail" \notin {EndpointResult(seen[t], t \in MayProtect) : t \in CriticalSource}
  BY DEF CriticalJob
<1>3. EndpointResult(seen[s], s \in MayProtect) # "fail"
  BY <1>2
<1>4. QED
  BY <1>3 DEF EndpointResult

-----------------------------------------------------------------------------
(* The step of a job that records results.                                  *)
LEMMA DoneKeeps ==
  ASSUME TypeOK, JobSound, PairSound, NEW slot \in Slot, job[slot] # NoJob, UNCHANGED kind,
         NEW results, NEW proved \in BOOLEAN, DOMAIN results \subseteq Checks,
         kind = "functional" => DOMAIN results = Checks,
         \A c \in DOMAIN results : results[c] \in Results \ {"pending"},
         (\A c \in DOMAIN results : results[c] = "success") => proved,
         \/ \E c \in DOMAIN results : results[c] # "success"
         \/ \A c \in DOMAIN results : job[slot].results[c] = "pending",
         Done(slot, results, proved)
  PROVE  job' \in [Slot -> JobType]' /\ JobSound' /\ PairSound'
<1> DEFINE new == [c \in Checks |-> IF c \in DOMAIN results THEN results[c]
                                    ELSE job[slot].results[c]]
<1>1. job[slot] \in [phase : {"running"}, results : [Checks -> Results], proved : BOOLEAN]
  BY DEF TypeOK, JobType
<1>2. new \in [Checks -> Results]
  BY <1>1
<1>3. job' = [job EXCEPT ![slot] = [job[slot] EXCEPT !.results = new,
                                                     !.proved = job[slot].proved /\ proved]]
  BY DEF Done
<1> HIDE DEF new
<1>4. job'[slot] = [phase |-> "running", results |-> new, proved |-> job[slot].proved /\ proved]
  BY <1>1, <1>3 DEF TypeOK
<1>5. Checks' = Checks
  BY DEF Checks
<1>6. job' \in [Slot -> JobType]'
  <2>1. job'[slot] \in JobType
    BY <1>2, <1>4, <1>1 DEF JobType
  <2>2. JobType' = JobType
    BY <1>5 DEF JobType
  <2>3. QED
    BY <1>3, <1>4, <2>1, <2>2 DEF TypeOK
<1>7. ASSUME \A c \in Checks : new[c] \in {"pending", "success"}
      PROVE  job[slot].proved /\ proved
  <2>1. \A c \in Checks : job[slot].results[c] \in {"pending", "success"}
    BY <1>7 DEF new
  <2>2. \A c \in DOMAIN results : results[c] = "success"
    BY <1>7 DEF new
  <2>3. QED
    BY <2>1, <2>2 DEF JobSound
<1>8. JobSound'
  <2>1. ASSUME NEW t \in Slot, job'[t] # NoJob,
               \A c \in Checks : job'[t].results[c] \in {"pending", "success"}
        PROVE  job'[t].proved
    <3>1. CASE t = slot
      BY <1>4, <1>7, <2>1, <3>1
    <3>2. CASE t # slot
      BY <1>3, <2>1, <3>2 DEF TypeOK, JobSound
    <3>3. QED
      BY <3>1, <3>2
  <2>2. QED
    BY <1>5, <2>1 DEF JobSound
<1>9. PairSound'
  <2>1. kind = "functional" => Checks = {"job", "acceptance"}
    BY DEF Checks
  <2>2. kind = "functional" => job'[slot].results["job"] # "pending"
    BY <1>4, <2>1 DEF new
  <2>3. \A t \in Slot \ {slot} : job'[t] = job[t]
    BY <1>3 DEF TypeOK
  <2>4. QED
    BY <2>2, <2>3 DEF PairSound
<1>10. QED
  BY <1>6, <1>8, <1>9

-----------------------------------------------------------------------------
(* The invariant, by the part of the state it is about.                     *)

IInv ==
  /\ TypeOK
  /\ AcceptSound /\ ProgramSound
  /\ OneSlot /\ FoundSound
  /\ JobSound /\ PairSound /\ ReportSound
  /\ Counted /\ NotSilenced

LEMMA SlotsAreFew ==
  /\ IsFiniteSet(Slots) /\ IsFiniteSet(EmptyHanded)
  /\ Cardinality(Slots) \in Nat /\ Cardinality(EmptyHanded) \in Nat
  /\ Cardinality(EmptyHanded) <= Cardinality(Slots)
<1>1. IsFiniteSet(Slots)
  <2>1. IsFiniteSet({"main"})
    BY FS_Singleton
  <2>2. IsFiniteSet({"main"} \cup {"refs/heads/main"})
    BY <2>1, FS_AddElement
  <2>3. {"main"} \cup {"refs/heads/main"} = Slot
    BY DEF Slot
  <2>4. IsFiniteSet(Slot)
    BY <2>2, <2>3
  <2>5. QED
    BY <2>1, <2>4 DEF Slots
<1>2. EmptyHanded \subseteq Slots
  BY DEF EmptyHanded
<1>3. QED
  BY <1>1, <1>2, FS_Subset, FS_CardinalityType

(* No incident is added, and no report comes back without one.              *)
LEMMA FewerCounted ==
  ASSUME Counted, kind' = kind, open' \subseteq open, EmptyHanded' \subseteq EmptyHanded
  PROVE  Counted'
<1>1. Slots' = Slots
  BY DEF Slots
<1>2. /\ IsFiniteSet(open') /\ Cardinality(open') <= Cardinality(open)
      /\ Cardinality(open') \in Nat /\ Cardinality(open) \in Nat
  BY FS_Subset, FS_CardinalityType DEF Counted
<1>3. /\ Cardinality(EmptyHanded') <= Cardinality(EmptyHanded)
      /\ Cardinality(EmptyHanded') \in Nat
  BY SlotsAreFew, FS_Subset, FS_CardinalityType
<1>4. QED
  BY <1>1, <1>2, <1>3, SlotsAreFew DEF Counted

(* A report looks: it comes back without an incident only if there is none. *)
LEMMA LookCounted ==
  ASSUME Counted, kind' = kind, open' = open, open = {} \/ EmptyHanded' \subseteq EmptyHanded
  PROVE  Counted'
<1>1. CASE open = {}
  <2>1. EmptyHanded' \subseteq Slots /\ Slots' = Slots
    BY DEF EmptyHanded, Slots
  <2>2. Cardinality(EmptyHanded') <= Cardinality(Slots) /\ Cardinality(EmptyHanded') \in Nat
    BY <2>1, SlotsAreFew, FS_Subset, FS_CardinalityType
  <2>3. QED
    BY <1>1, <2>1, <2>2, FS_EmptySet DEF Counted
<1>2. QED
  BY <1>1, FewerCounted

(* A report without an incident posts one and ends.                         *)
LEMMA PostCounted ==
  ASSUME Counted, kind' = kind, NEW slot \in EmptyHanded, NEW i, open' = open \cup {i},
         EmptyHanded' \subseteq EmptyHanded \ {slot}
  PROVE  Counted'
<1>1. Slots' = Slots
  BY DEF Slots
<1>2. /\ IsFiniteSet(open') /\ Cardinality(open') <= Cardinality(open) + 1
      /\ Cardinality(open') \in Nat /\ Cardinality(open) \in Nat
  <2>1. IsFiniteSet(open) /\ Cardinality(open) \in Nat
    BY FS_CardinalityType DEF Counted
  <2>2. /\ IsFiniteSet(open \cup {i})
        /\ Cardinality(open \cup {i}) = Cardinality(open)
           \/ Cardinality(open \cup {i}) = Cardinality(open) + 1
    BY <2>1, FS_AddElement
  <2>3. Cardinality(open') = Cardinality(open) \/ Cardinality(open') = Cardinality(open) + 1
    BY <2>2
  <2>4. QED
    BY <2>1, <2>2, <2>3
<1>3. /\ IsFiniteSet(EmptyHanded \ {slot})
      /\ Cardinality(EmptyHanded \ {slot}) = Cardinality(EmptyHanded) - 1
  BY SlotsAreFew, FS_RemoveElement
<1>4. /\ Cardinality(EmptyHanded') <= Cardinality(EmptyHanded) - 1
      /\ Cardinality(EmptyHanded') \in Nat
  BY <1>3, FS_Subset, FS_CardinalityType
<1>5. QED
  BY <1>1, <1>2, <1>4, SlotsAreFew DEF Counted

LEMMA InitIInv == Init => IInv
<1> SUFFICES ASSUME Init
             PROVE  IInv
  OBVIOUS
<1>1. TypeOK
  <2>1. FeedTypeOK
    BY FeedAssumption DEF Init, FeedInit, FeedTypeOK, Commits
  <2>2. I!IncidentTypeOK
    BY DEF Init, I!IncidentInit, I!IncidentTypeOK
  <2>3. job \in [Slot -> JobType]
    BY DEF Init, JobType
  <2>4. QED
    BY <2>1, <2>2, <2>3 DEF Init, TypeOK
<1>2. AcceptSound /\ ProgramSound
  BY DEF Init, FeedInit, AcceptSound, Checking, ProgramSound
<1>3. OneSlot /\ FoundSound /\ JobSound /\ PairSound /\ ReportSound
  BY DEF Init, I!IncidentInit, OneSlot, FoundSound, JobSound, PairSound, ReportSound, Slot
<1>4. Counted /\ NotSilenced
  <2>1. open = {} /\ EmptyHanded = {}
    BY DEF Init, I!IncidentInit, EmptyHanded, Slots, Slot
  <2>2. Counted
    BY <2>1, FS_EmptySet, SlotsAreFew DEF Counted
  <2>3. QED
    BY <2>1, <2>2 DEF Init, I!IncidentInit, NotSilenced
<1>5. QED
  BY <1>1, <1>2, <1>3, <1>4 DEF IInv

LEMMA FeedKept ==
  ASSUME IInv, [Next]_vars
  PROVE  FeedTypeOK' /\ AcceptSound' /\ ProgramSound' /\ kind' = kind /\ calm' \in BOOLEAN
<1> USE DEF IInv, TypeOK
<1>1. ASSUME UNCHANGED feedVars, kind' = kind
      PROVE  FeedTypeOK' /\ AcceptSound' /\ ProgramSound'
  BY <1>1 DEF feedVars, FeedTypeOK, AcceptSound, Checking, Served, Replaced, ProgramSound
<1>2. ASSUME check' = NoCheck, UNCHANGED <<head, served>>, kind' = kind
      PROVE  FeedTypeOK' /\ AcceptSound' /\ ProgramSound'
  BY <1>2 DEF FeedTypeOK, AcceptSound, Checking, ProgramSound
<1>3. ASSUME NEW program \in Programs, check' = NewCheck(program), UNCHANGED <<head, served>>,
             kind' = kind, program = "verify_public" <=> kind = "public"
      PROVE  FeedTypeOK' /\ AcceptSound' /\ ProgramSound'
  <2>1. /\ check'.stage = "manifests" /\ check'.steady /\ check'.read = {}
        /\ check' \in CheckType /\ check'.commit = head
    BY <1>3 DEF NewCheck, FeedTypeOK, CheckType
  <2>2. FeedTypeOK'
    BY <1>3, <2>1, FeedAssumption DEF FeedTypeOK, Commits
  <2>3. AcceptSound'
    BY <2>1 DEF AcceptSound
  <2>4. ProgramSound'
    BY <1>3 DEF NewCheck, ProgramSound
  <2>5. QED
    BY <2>2, <2>3, <2>4
<1>4. ASSUME Deploy \/ Propagate \/ \E arrives \in BOOLEAN : Read(arrives), kind' = kind
      PROVE  FeedTypeOK' /\ AcceptSound' /\ ProgramSound'
  <2>1. FeedTypeOK' /\ AcceptSound'
    BY <1>4, FeedTypes, AcceptKept
  <2>2. CASE Deploy \/ Propagate
    BY <1>4, <2>1, <2>2 DEF Deploy, Propagate, ProgramSound
  <2>3. CASE \E arrives \in BOOLEAN : Read(arrives)
    <3>1. PICK arrives \in BOOLEAN, p \in Path :
            ReadManifest(p, arrives) \/ ReadPackage(p, arrives) \/ ReadAgain(p, arrives)
      BY <2>3 DEF Read
    <3>2. check \in CheckType /\ check # NoCheck
      BY <3>1 DEF ReadManifest, ReadPackage, ReadAgain, FeedTypeOK, NoCheck
    <3>3. check'.program = check.program
      BY <3>1, <3>2, ReadKeepsAim
    <3>4. QED
      BY <1>4, <2>1, <3>2, <3>3 DEF ProgramSound
  <2>4. QED
    BY <1>4, <2>1, <2>2, <2>3
<1>5. ASSUME NEW slot \in Slot, Work(slot) \/ Supersede(slot) \/ ReportDies(slot)
      PROVE  FeedTypeOK' /\ AcceptSound' /\ ProgramSound' /\ kind' = kind /\ calm' = calm
  <2>1. kind' = kind /\ calm' = calm
    BY <1>5 DEF Work, Start, Update, CriticalSmoke, FunctionalSmoke, BeginAcceptance,
       EndAcceptance, BeginReport, Report, Supersede, ReportDies
  <2>2. CASE Supersede(slot) \/ EndAcceptance(slot)
    BY <1>2, <2>1, <2>2 DEF Supersede, EndAcceptance
  <2>3. CASE BeginAcceptance(slot)
    <3>1. PICK program \in Programs :
            check' = NewCheck(program) /\ (program = "verify_public" <=> kind = "public")
      BY <2>3 DEF BeginAcceptance, Programs
    <3>2. QED
      BY <1>3, <2>1, <2>3, <3>1 DEF BeginAcceptance
  <2>4. CASE \/ Start(slot) \/ Update(slot) \/ CriticalSmoke(slot) \/ FunctionalSmoke(slot)
             \/ BeginReport(slot) \/ Report(slot) \/ ReportDies(slot)
    BY <1>1, <2>4, <2>1 DEF Start, Update, CriticalSmoke, FunctionalSmoke, BeginReport, Report,
       ReportDies, feedVars
  <2>5. QED
    BY <1>5, <2>1, <2>2, <2>3, <2>4 DEF Work
<1>6. CASE ReadFeed
  <2>1. \E arrives \in BOOLEAN : Read(arrives)
    BY <1>6 DEF ReadFeed
  <2>2. QED
    BY <1>4, <1>6, <2>1 DEF ReadFeed
<1>7. CASE Pages
  BY <1>4, <1>7 DEF Pages
<1>8. CASE Weather
  BY <1>1, <1>8 DEF Weather
<1>9. CASE UNCHANGED vars
  BY <1>1, <1>9 DEF vars, feedVars
<1>10. QED
  BY <1>5, <1>6, <1>7, <1>8, <1>9 DEF Next

LEMMA JobsKept ==
  ASSUME IInv, [Next]_vars
  PROVE  /\ job' \in [Slot -> JobType]' /\ JobSound' /\ PairSound'
         /\ kind # "functional" => job'["refs/heads/main"] = NoJob
<1> USE DEF IInv, TypeOK
<1> DEFINE Goal == /\ job' \in [Slot -> JobType]' /\ JobSound' /\ PairSound'
                   /\ kind # "functional" => job'["refs/heads/main"] = NoJob
<1>1. kind' = kind /\ Checks' = Checks /\ JobType' = JobType
  BY FeedKept DEF Checks, JobType
<1>2. ASSUME UNCHANGED job
      PROVE  Goal
  BY <1>1, <1>2 DEF JobSound, PairSound, OneSlot
<1>3. ASSUME NEW slot \in Slot, job' = [job EXCEPT ![slot] = Pending],
             slot \in Slots \/ Running(slot)
      PROVE  Goal
  <2>1. Pending \in JobType /\ Pending.proved
    BY DEF Pending, JobType, Results
  <2>2. kind # "functional" => slot # "refs/heads/main"
    BY <1>3 DEF Slots, Running, OneSlot
  <2>3. QED
    <3>1. kind = "functional" => Pending.results["acceptance"] = "pending"
      BY DEF Pending, Checks
    <3>2. \A t \in Slot : job'[t] = IF t = slot THEN Pending ELSE job[t]
      BY <1>3
    <3>3. PairSound'
      BY <1>1, <3>1, <3>2 DEF PairSound
    <3>4. JobSound'
      BY <1>1, <2>1, <3>2 DEF JobSound
    <3>5. QED
      BY <1>1, <1>3, <2>1, <2>2, <3>3, <3>4 DEF OneSlot, Slot
<1>4. ASSUME NEW slot \in Slot, NEW results, NEW proved \in BOOLEAN,
             job[slot] # NoJob, DOMAIN results \subseteq Checks,
             kind = "functional" => DOMAIN results = Checks,
             \A c \in DOMAIN results : results[c] \in Results \ {"pending"},
             (\A c \in DOMAIN results : results[c] = "success") => proved,
             \/ \E c \in DOMAIN results : results[c] # "success"
             \/ \A c \in DOMAIN results : job[slot].results[c] = "pending",
             Done(slot, results, proved)
      PROVE  Goal
  <2>1. job' \in [Slot -> JobType]' /\ JobSound' /\ PairSound'
    BY <1>1, <1>4, DoneKeeps
  <2>2. kind # "functional" => slot # "refs/heads/main"
    BY <1>4 DEF OneSlot
  <2>3. QED
    BY <1>4, <2>1, <2>2 DEF Done, OneSlot, Slot
<1>5. ASSUME NEW slot \in Slot, BeginReport(slot)
      PROVE  Goal
  <2>1. job' = [job EXCEPT ![slot] = NoJob]
    BY <1>5 DEF BeginReport
  <2>2. QED
    BY <1>1, <2>1 DEF JobSound, PairSound, OneSlot, JobType, Slot
<1>6. ASSUME NEW slot \in Slot, Start(slot) \/ Supersede(slot)
      PROVE  Goal
  BY <1>3, <1>6 DEF Start, Supersede, Undone
<1>7. ASSUME NEW slot \in Slot, NEW c, Undone(slot, c)
      PROVE  job[slot] # NoJob /\ c \in Checks /\ job[slot].results[c] = "pending"
  BY <1>7 DEF Undone, Running, JobType
<1>8. ASSUME NEW slot \in Slot, Update(slot)
      PROVE  Goal
  <2> DEFINE New(result) ==
        IF result = "success" THEN [update |-> result]
        ELSE [update |-> result, smoke |-> "skipped", acceptance |-> "skipped"]
  <2>1. PICK result \in {"success", "failure", "cancelled"} : Done(slot, New(result), TRUE)
    BY <1>8 DEF Update
  <2>2. kind = "combined" /\ job[slot] # NoJob /\ job[slot].results["update"] = "pending"
    BY <1>7, <1>8 DEF Update, Checks, Kinds
  <2>3. CASE result = "success"
    <3>1. DOMAIN New(result) = {"update"} /\ New(result)["update"] = "success"
      BY <2>3
    <3>2. "update" \in Checks /\ "success" \in Results \ {"pending"}
      BY <2>2 DEF Checks, Results
    <3> HIDE DEF New
    <3>3. QED
      BY <1>4, <2>1, <2>2, <3>1, <3>2
  <2>4. CASE result # "success"
    <3>1. Checks = {"update", "smoke", "acceptance"}
      BY <2>2 DEF Checks
    <3>2. /\ DOMAIN New(result) = {"update", "smoke", "acceptance"}
          /\ New(result)["update"] = result
          /\ New(result)["smoke"] = "skipped" /\ New(result)["acceptance"] = "skipped"
      BY <2>4
    <3>3. result \in Results \ {"pending"} /\ "skipped" \in Results \ {"pending"}
      BY DEF Results
    <3> HIDE DEF New
    <3>4. QED
      BY <1>4, <2>1, <2>2, <2>4, <3>1, <3>2, <3>3
  <2>5. QED
    BY <2>3, <2>4
<1>9. ASSUME NEW slot \in Slot, CriticalSmoke(slot)
      PROVE  Goal
  <2> DEFINE Saw(seen) == \A s \in CriticalSource :
                            \/ seen[s] \in {"page", "timeout", "network error"}
                            \/ seen[s] = "protected" /\ s \in MayProtect
             Code(seen) ==
               CriticalJob({EndpointResult(seen[s], s \in MayProtect) : s \in CriticalSource})
  <2>1. PICK seen \in [CriticalSource -> EndpointSeen] :
          Done(slot, [smoke |-> Code(seen)], Saw(seen))
    BY <1>9 DEF CriticalSmoke
  <2>2. job[slot] # NoJob /\ "smoke" \in Checks /\ job[slot].results["smoke"] = "pending"
    BY <1>7, <1>9 DEF CriticalSmoke
  <2>5. kind # "functional"
    BY <2>2 DEF Checks
  <2>3. Code(seen) = "success" => Saw(seen)
    BY SmokeSawNoFailure
  <2>4. Code(seen) \in Results \ {"pending"} /\ Saw(seen) \in BOOLEAN
    BY DEF CriticalJob, Results
  <2> HIDE DEF Saw, Code
  <2>6. QED
    BY <1>4, <2>1, <2>2, <2>3, <2>4, <2>5
<1>10. ASSUME NEW slot \in Slot, EndAcceptance(slot)
       PROVE  Goal
  <2> DEFINE result == IF check.stage = "passed" THEN "success" ELSE "failure"
             saw == kind = "public" => check.stage = "passed" /\ check.steady
  <2>1. Done(slot, [acceptance |-> result], saw)
    BY <1>10 DEF EndAcceptance
  <2>2. /\ kind # "functional"
        /\ job[slot] # NoJob /\ "acceptance" \in Checks
        /\ job[slot].results["acceptance"] = "pending"
    BY <1>7, <1>10 DEF EndAcceptance
  <2>3. check \in CheckType
    BY <1>10 DEF EndAcceptance, FeedTypeOK
  <2>4. result = "success" => saw
    <3>1. kind = "public" /\ check.program = "verify_public" /\ check.stage = "passed"
            => check.steady
      BY <1>10 DEF EndAcceptance, AcceptSound, Checking
    <3>2. kind = "public" => check.program = "verify_public"
      BY <1>10 DEF EndAcceptance, ProgramSound
    <3>3. QED
      BY <3>1, <3>2
  <2>5. result \in Results \ {"pending"} /\ saw \in BOOLEAN
    BY <2>3 DEF Results, CheckType
  <2> HIDE DEF result, saw
  <2>6. QED
    BY <1>4, <2>1, <2>2, <2>4, <2>5
<1>11. ASSUME NEW slot \in Slot, FunctionalSmoke(slot)
       PROVE  Goal
  <2>1. "job" \in Checks /\ job[slot] # NoJob /\ job[slot].results["job"] = "pending"
    BY <1>7, <1>11 DEF FunctionalSmoke
  <2>2. kind = "functional" /\ Checks = {"job", "acceptance"}
    BY <2>1 DEF Checks, Kinds
  <2>3. \A c \in Checks : job[slot].results[c] = "pending"
    BY <2>1, <2>2 DEF PairSound
  <2>4. CASE Done(slot, [job |-> "failure", acceptance |-> ""], FALSE)
    <3> DEFINE none == [job |-> "failure", acceptance |-> ""]
    <3>1. DOMAIN none = {"job", "acceptance"} /\ none["job"] = "failure" /\ none["acceptance"] = ""
      OBVIOUS
    <3>2. "failure" \in Results \ {"pending"} /\ "" \in Results \ {"pending"}
      BY DEF Results
    <3>3. Done(slot, none, FALSE)
      BY <2>4
    <3> HIDE DEF none
    <3>4. QED
      BY <1>4, <2>1, <2>2, <3>1, <3>2, <3>3
  <2>5. CASE ~Done(slot, [job |-> "failure", acceptance |-> ""], FALSE)
    <3> DEFINE Overall(seen) == OverallStatus({CaseStatus(s, seen[s]) : s \in CriticalSource})
               Usable(seen) == \A s \in CriticalSource :
                                 seen[s].end = "report" /\ seen[s].clean /\ seen[s].complete
    <3>1. PICK seen \in [CriticalSource -> CaseSeen] :
            Done(slot, [job |-> FunctionalJob(Overall(seen)),
                        acceptance |-> Acceptance(Overall(seen))], Usable(seen))
      BY <1>11, <2>5 DEF FunctionalSmoke
    <3>2. Acceptance(Overall(seen)) = "success" => Usable(seen)
      BY PassedIsUsable DEF Acceptance, OverallStatus
    <3>3. /\ FunctionalJob(Overall(seen)) \in Results \ {"pending"}
          /\ Acceptance(Overall(seen)) \in Results \ {"pending"}
      BY StatusTypes
    <3>4. Usable(seen) \in BOOLEAN
      OBVIOUS
    <3> HIDE DEF Overall, Usable
    <3>5. QED
      BY <1>4, <2>1, <2>2, <2>3, <3>1, <3>2, <3>3, <3>4
  <2>6. QED
    BY <2>4, <2>5
<1>12. QED
  <2>1. ASSUME NEW slot \in Slot, Work(slot) \/ Supersede(slot) \/ ReportDies(slot)
        PROVE  Goal
    <3>1. CASE BeginAcceptance(slot) \/ Report(slot) \/ ReportDies(slot)
      BY <1>2, <3>1 DEF BeginAcceptance, Report, ReportDies
    <3>2. QED
      BY <2>1, <3>1, <1>5, <1>6, <1>8, <1>9, <1>10, <1>11 DEF Work
  <2>2. CASE ReadFeed \/ Pages \/ Weather \/ UNCHANGED vars
    BY <1>2, <2>2 DEF ReadFeed, Pages, Weather, vars
  <2>3. QED
    BY <2>1, <2>2 DEF Next

LEMMA ReportsKept ==
  ASSUME IInv, [Next]_vars
  PROVE  I!IncidentTypeOK' /\ OneSlot' /\ FoundSound' /\ ReportSound' /\ Counted' /\ NotSilenced'
<1> USE DEF IInv, TypeOK
<1> DEFINE Goal == /\ I!IncidentTypeOK' /\ OneSlot' /\ FoundSound' /\ ReportSound'
                   /\ Counted' /\ NotSilenced'
<1>1. kind' = kind /\ (kind # "functional" => job'["refs/heads/main"] = NoJob)
  BY FeedKept, JobsKept
<1>2. ASSUME UNCHANGED <<open, report, alarm>>
      PROVE  Goal
  BY <1>1, <1>2, FewerCounted DEF I!IncidentTypeOK, OneSlot, FoundSound, ReportSound, EmptyHanded,
     Slots, NotSilenced
<1>3. ASSUME NEW slot \in Slot, BeginReport(slot)
      PROVE  Goal
  <2> DEFINE new == [phase |-> "look", healthy |-> I!Healthy(job[slot].results), found |-> {},
                     proved |-> job[slot].proved]
  <2>1. job[slot] # NoJob /\ report' = [report EXCEPT ![slot] = new] /\ UNCHANGED <<open, alarm>>
    BY <1>3 DEF BeginReport, Running, I!BeginReport
  <2>2. job[slot].proved \in BOOLEAN /\ DOMAIN job[slot].results = Checks
    BY <2>1 DEF JobType
  <2>3. I!Healthy(job[slot].results) \in BOOLEAN
    BY DEF I!Healthy
  <2>4. new \in I!Reports /\ new.phase = "look"
    BY <2>2, <2>3 DEF I!Reports
  <2>5. I!Healthy(job[slot].results) => job[slot].proved
    BY <2>1, <2>2 DEF I!Healthy, JobSound
  <2>6. new.healthy => new.proved
    BY <2>5
  <2>7. kind # "functional" => slot # "refs/heads/main"
    BY <2>1 DEF OneSlot
  <2> HIDE DEF new
  <2>8. \A t \in Slot : report'[t] = IF t = slot THEN new ELSE report[t]
    BY <2>1 DEF I!IncidentTypeOK
  <2>9. I!IncidentTypeOK' /\ ReportSound'
    BY <2>1, <2>4, <2>6, <2>8 DEF I!IncidentTypeOK, ReportSound
  <2>10. OneSlot' /\ FoundSound'
    BY <1>1, <2>1, <2>4, <2>7, <2>8 DEF OneSlot, FoundSound, Slot
  <2>11. EmptyHanded' \subseteq EmptyHanded
    BY <1>1, <2>4, <2>8 DEF EmptyHanded, Slots, Slot
  <2>12. QED
    BY <1>1, <2>1, <2>9, <2>10, <2>11, FewerCounted DEF NotSilenced
<1>4. ASSUME NEW slot \in Slot, report[slot] # I!NoReport
      PROVE  /\ report[slot] \in I!Reports
             /\ kind # "functional" => slot = "main"
  BY <1>4 DEF I!IncidentTypeOK, OneSlot, Slot
<1>5. ASSUME NEW slot \in Slot, I!Look(slot)
      PROVE  Goal
  <2>1. report[slot] # I!NoReport /\ report[slot].phase = "look" /\ open' = open
    BY <1>5 DEF I!Look, I!NoReport
  <2>2. alarm' = (alarm /\ ~report[slot].healthy)
    BY <1>5 DEF I!Look
  <2> DEFINE new == [report[slot] EXCEPT !.phase = "act", !.found = open]
  <2>3. report' = [report EXCEPT ![slot] = new]
    BY <1>5 DEF I!Look, I!Listed, I!IncidentTypeOK
  <2>4. /\ new \in I!Reports /\ new.phase = "act" /\ new.found = open
        /\ new.healthy = report[slot].healthy /\ new.proved = report[slot].proved
    <3>1. report[slot] \in I!Reports /\ open \in SUBSET Issue
      BY <1>4, <2>1 DEF I!IncidentTypeOK
    <3>2. QED
      BY <3>1 DEF I!Reports
  <2>5. kind # "functional" => slot = "main"
    BY <1>4, <2>1
  <2> HIDE DEF new
  <2>6. \A t \in Slot : report'[t] = IF t = slot THEN new ELSE report[t]
    BY <2>3 DEF I!IncidentTypeOK
  <2>7. I!IncidentTypeOK' /\ ReportSound'
    BY <2>1, <2>2, <2>3, <2>4, <2>6 DEF I!IncidentTypeOK, ReportSound
  <2>8. OneSlot' /\ FoundSound'
    BY <1>1, <2>1, <2>2, <2>4, <2>5, <2>6 DEF OneSlot, FoundSound, Slot
  <2>9. Counted' /\ NotSilenced'
    <3>1. open = {} \/ EmptyHanded' \subseteq EmptyHanded
      BY <1>1, <2>4, <2>6 DEF EmptyHanded, Slots, Slot
    <3>2. QED
      BY <1>1, <2>1, <2>2, <3>1, LookCounted DEF NotSilenced
  <2>10. QED
    BY <2>7, <2>8, <2>9
<1>6. ASSUME NEW slot \in Slot, NEW i, i \in report[slot].found,
             report[slot].phase = "act", report[slot].healthy,
             open' = open \ {i}, report' = [report EXCEPT ![slot].found = @ \ {i}],
             UNCHANGED alarm
      PROVE  Goal
  <2>1. report[slot] # I!NoReport
    BY <1>6 DEF I!NoReport
  <2> DEFINE new == [report[slot] EXCEPT !.found = @ \ {i}]
  <2>2. /\ new \in I!Reports /\ new.phase = "act" /\ new.found = report[slot].found \ {i}
        /\ new.healthy = report[slot].healthy /\ new.proved = report[slot].proved
    <3>1. report[slot] \in I!Reports
      BY <1>4, <2>1
    <3>2. QED
      BY <1>6, <3>1 DEF I!Reports
  <2>3. report' = [report EXCEPT ![slot] = new]
    BY <1>6
  <2>4. kind # "functional" => slot = "main"
    BY <1>4, <2>1
  <2> HIDE DEF new
  <2>5. \A t \in Slot : report'[t] = IF t = slot THEN new ELSE report[t]
    BY <2>3 DEF I!IncidentTypeOK
  <2>6. I!IncidentTypeOK' /\ ReportSound'
    BY <1>6, <2>1, <2>2, <2>3, <2>5 DEF I!IncidentTypeOK, ReportSound
  <2>7. OneSlot' /\ FoundSound'
    BY <1>1, <1>6, <2>1, <2>2, <2>4, <2>5 DEF OneSlot, FoundSound, Slot
  <2>8. Counted' /\ NotSilenced'
    <3>1. EmptyHanded' \subseteq EmptyHanded
      BY <1>1, <1>6, <2>2, <2>5 DEF EmptyHanded, Slots, Slot
    <3>2. QED
      BY <1>1, <1>6, <2>1, <2>4, <3>1, FewerCounted DEF NotSilenced, FoundSound
  <2>9. QED
    BY <2>6, <2>7, <2>8
<1>7. ASSUME NEW slot \in Slot, I!End(slot), UNCHANGED <<open, alarm>>
      PROVE  Goal
  <2>1. EmptyHanded' \subseteq EmptyHanded
    BY <1>1, <1>7 DEF I!End, I!IncidentTypeOK, EmptyHanded, Slots, Slot
  <2>2. QED
    BY <1>1, <1>7, <2>1, FewerCounted DEF I!End, I!IncidentTypeOK, OneSlot, FoundSound,
       ReportSound, NotSilenced, Slot
<1>8. ASSUME NEW slot \in Slot, I!Complain(slot)
      PROVE  Goal
  <2>1. /\ report[slot] # I!NoReport /\ report[slot].phase = "act"
        /\ report' = [report EXCEPT ![slot] = I!NoReport] /\ alarm' = TRUE
    BY <1>8 DEF I!Complain, I!End, I!NoReport
  <2>2. \/ report[slot].found # {} /\ open' = open
        \/ report[slot].found = {} /\ \E i \in Issue : open' = open \cup {i}
    BY <1>8 DEF I!Complain, I!Reported
  <2>3. kind # "functional" => slot = "main" /\ report[slot].found = open
    BY <1>4, <2>1 DEF FoundSound
  <2>4. I!IncidentTypeOK' /\ ReportSound'
    BY <2>1, <2>2 DEF I!IncidentTypeOK, ReportSound
  <2>5. OneSlot' /\ FoundSound'
    BY <1>1, <2>1, <2>3 DEF OneSlot, FoundSound, Slot, I!IncidentTypeOK
  <2>6. EmptyHanded' \subseteq EmptyHanded \ {slot}
    BY <1>1, <2>1 DEF I!IncidentTypeOK, EmptyHanded, Slots, Slot
  <2>7. Counted'
    <3>1. CASE report[slot].found # {}
      BY <1>1, <2>2, <2>6, <3>1, FewerCounted
    <3>2. CASE report[slot].found = {}
      <4>1. slot \in EmptyHanded
        BY <1>4, <1>8, <2>1, <3>2 DEF EmptyHanded, Slots, I!Complain
      <4>2. PICK i \in Issue : open' = open \cup {i}
        BY <2>2, <3>2
      <4>3. QED
        BY <1>1, <2>6, <4>1, <4>2, PostCounted
    <3>3. QED
      BY <3>1, <3>2
  <2>8. NotSilenced'
    BY <1>1, <2>2, <2>3 DEF NotSilenced
  <2>9. QED
    BY <2>4, <2>5, <2>7, <2>8
<1>9. ASSUME NEW slot \in Slot, Report(slot) \/ ReportDies(slot)
      PROVE  Goal
  BY <1>5, <1>6, <1>7, <1>8, <1>9 DEF Report, ReportDies, I!Close, I!Dies
<1>10. QED
  <2>1. ASSUME NEW slot \in Slot, Work(slot) \/ Supersede(slot) \/ ReportDies(slot)
        PROVE  Goal
    <3>1. CASE \/ Start(slot) \/ Update(slot) \/ CriticalSmoke(slot) \/ FunctionalSmoke(slot)
               \/ BeginAcceptance(slot) \/ EndAcceptance(slot) \/ Supersede(slot)
      BY <1>2, <3>1 DEF Start, Update, CriticalSmoke, FunctionalSmoke, BeginAcceptance,
         EndAcceptance, Supersede
    <3>2. QED
      BY <2>1, <3>1, <1>3, <1>9 DEF Work
  <2>2. CASE ReadFeed \/ Pages \/ Weather \/ UNCHANGED vars
    BY <1>2, <2>2 DEF ReadFeed, Pages, Weather, vars
  <2>3. QED
    BY <2>1, <2>2 DEF Next

LEMMA NextIInv == IInv /\ [Next]_vars => IInv'
  BY FeedKept, JobsKept, ReportsKept DEF IInv, TypeOK

-----------------------------------------------------------------------------
(* What the runs check, for every value of the constants.                   *)

(* The invariant of the three workflows.                                    *)
THEOREM DeliveryInvariant == Spec => []IInv
  BY InitIInv, NextIInv, PTL DEF Spec

(* Jobs, reports, incidents and the feed keep their types.                  *)
THEOREM DeliveryTypes == Spec => []TypeOK
<1>1. IInv => TypeOK
  BY DEF IInv
<1>2. QED
  BY <1>1, DeliveryInvariant, PTL

(* verify_public accepts no mixture of two deployments.                     *)
THEOREM FeedAcceptedTogether == Spec => []AcceptedTogether
<1>1. IInv => AcceptedTogether
  BY DEF IInv, AcceptSound, AcceptedTogether, Checking
<1>2. QED
  BY <1>1, DeliveryInvariant, PTL

(* At most one incident is open for each group of a workflow.               *)
THEOREM IncidentsDoNotDouble == Spec => []OneIncidentPerGroup
<1>1. IInv => OneIncidentPerGroup
  BY SlotsAreFew, FS_CardinalityType DEF IInv, Counted, OneIncidentPerGroup
<1>2. QED
  BY <1>1, DeliveryInvariant, PTL

(* Their incident stays open while something is wrong.                      *)
THEOREM IncidentsStay == Spec => []NotSilenced
<1>1. IInv => NotSilenced
  BY DEF IInv
<1>2. QED
  BY <1>1, DeliveryInvariant, PTL

(* No workflow closes an incident whose checks it did not see succeed.      *)
THEOREM RecoveryIsProved == Spec => ClosedByProof
<1> DEFINE Closed == \A i \in open \ open' : \E slot \in Slot :
                       /\ report[slot] # I!NoReport /\ i \in report[slot].found
                       /\ report[slot].healthy /\ report[slot].proved
<1>1. IInv /\ [Next]_vars => [Closed]_vars
  <2> SUFFICES ASSUME IInv, Next, NEW i \in open \ open'
               PROVE  \E slot \in Slot :
                        /\ report[slot] # I!NoReport /\ i \in report[slot].found
                        /\ report[slot].healthy /\ report[slot].proved
    OBVIOUS
  <2>1. PICK slot \in Slot : I!Close(slot)
    <3>1. ASSUME UNCHANGED open
          PROVE  FALSE
      BY <3>1
    <3>2. ASSUME NEW slot \in Slot, I!Complain(slot)
          PROVE  FALSE
      BY <3>2 DEF I!Complain, I!Reported
    <3>3. QED
      BY <3>1, <3>2 DEF Next, Work, Supersede, Start, Update, CriticalSmoke, FunctionalSmoke,
         BeginAcceptance, EndAcceptance, BeginReport, Report, ReportDies, ReadFeed, Pages,
         Weather, I!Look, I!Dies
  <2>2. i \in report[slot].found /\ report[slot].healthy /\ report[slot].phase = "act"
    BY <2>1 DEF I!Close
  <2>3. report[slot] # I!NoReport
    BY <2>2 DEF I!NoReport
  <2>4. QED
    BY <2>2, <2>3 DEF IInv, ReportSound
<1>2. QED
  BY <1>1, DeliveryInvariant, PTL DEF Spec, ClosedByProof

=============================================================================
