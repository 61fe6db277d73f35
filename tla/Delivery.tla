-------------------------------- MODULE Delivery --------------------------------
(***************************************************************************)
(* The three workflows that watch what is delivered and report it: the     *)
(* daily one ("combined"), the functional smoke ("functional") and the     *)
(* acceptance of the public feed ("public"). Each has incidents of its own *)
(* kind, so a behaviour follows the runs of one kind: jobs check, the      *)
(* report job keeps the incident.                                          *)
(*                                                                         *)
(* The functional smoke has two concurrency groups: a run after a Pages    *)
(* build is in "functional-smoke-main", the one that the daily workflow    *)
(* dispatches is in "functional-smoke-refs/heads/main".                    *)
(***************************************************************************)
EXTENDS SmokeResults, FeedAcceptance, FiniteSets

CONSTANTS
  Issue,           \* bound: issue numbers
  CriticalSource,  \* sources of the functional cases and of the endpoint tests
  MayProtect       \* those whose endpoint test has allowProtected

VARIABLES
  kind,  \* the workflow this behaviour is about; never changes
  calm,  \* nothing outside interferes: requests arrive, sites serve their pages
  job,   \* what the run in each slot has established before its report
  open, report, alarm  \* see Incidents

vars == <<kind, calm, job, head, served, check, open, report, alarm>>

Kinds == {"combined", "functional", "public"}
Slot == {"main", "refs/heads/main"}
Slots == IF kind = "functional" THEN Slot ELSE {"main"}

I == INSTANCE Incidents

-----------------------------------------------------------------------------
(* The results the report of a kind is given, "pending" until they are.     *)
Checks == CASE kind = "combined" -> {"update", "smoke", "acceptance"}
            [] kind = "functional" -> {"job", "acceptance"}
            [] kind = "public" -> {"acceptance"}

NoJob == [phase |-> "idle"]
Pending == [phase |-> "running", results |-> [c \in Checks |-> "pending"], proved |-> TRUE]

Running(slot) == job[slot] # NoJob
Undone(slot, c) ==
  Running(slot) /\ c \in DOMAIN job[slot].results /\ job[slot].results[c] = "pending"

(* proved is history: what was seen so far establishes the checks.          *)
Done(slot, results, proved) ==
  job' = [job EXCEPT
    ![slot].results = [c \in Checks |-> IF c \in DOMAIN results THEN results[c] ELSE @[c]],
    ![slot].proved = @ /\ proved]

Start(slot) ==
  /\ slot \in Slots
  /\ ~Running(slot) /\ report[slot] = I!NoReport
  /\ job' = [job EXCEPT ![slot] = Pending]
  /\ UNCHANGED <<kind, calm, feedVars, open, report, alarm>>

(* A newer run of the group takes over (cancel-in-progress): the report job *)
(* runs for a first job that has ended, and for no cancelled one.           *)
Supersede(slot) ==
  /\ ~calm /\ kind # "combined"
  /\ \E c \in Checks : Undone(slot, c)
  /\ job' = [job EXCEPT ![slot] = Pending]
  /\ check' = NoCheck
  /\ UNCHANGED <<kind, calm, head, served, open, report, alarm>>

(* The update job; without its success the other two are skipped.           *)
Update(slot) ==
  /\ Undone(slot, "update")
  /\ \E result \in {"success", "failure", "cancelled"} :
       /\ calm => result = "success"
       /\ Done(slot,
            IF result = "success" THEN [update |-> result]
            ELSE [update |-> result, smoke |-> "skipped", acceptance |-> "skipped"],
            TRUE)
  /\ UNCHANGED <<kind, calm, feedVars, open, report, alarm>>

Updated(slot) == "update" \in Checks => job[slot].results["update"] = "success"

(* critical_smoke.                                                          *)
CriticalSmoke(slot) ==
  /\ Undone(slot, "smoke") /\ Updated(slot)
  /\ \E seen \in [CriticalSource -> EndpointSeen] :
       /\ calm => \A s \in CriticalSource : seen[s] = "page"
       /\ Done(slot,
            [smoke |-> CriticalJob({EndpointResult(seen[s], s \in MayProtect) : s \in CriticalSource})],
            \A s \in CriticalSource : \/ seen[s] \in {"page", "timeout", "network error"}
                                      \/ seen[s] = "protected" /\ s \in MayProtect)
  /\ UNCHANGED <<kind, calm, feedVars, open, report, alarm>>

(* verify_public of the public workflow, public_acceptance of the daily one.*)
BeginAcceptance(slot) ==
  /\ kind # "functional"
  /\ Undone(slot, "acceptance") /\ Updated(slot) /\ check = NoCheck
  /\ check' = NewCheck(IF kind = "public" THEN "verify_public" ELSE "public_acceptance")
  /\ UNCHANGED <<kind, calm, job, head, served, open, report, alarm>>

EndAcceptance(slot) ==
  /\ kind # "functional"
  /\ Undone(slot, "acceptance") /\ check # NoCheck
  /\ check.stage \in {"passed", "failed"}
  /\ Done(slot, [acceptance |-> IF check.stage = "passed" THEN "success" ELSE "failure"],
          kind = "public" => check.stage = "passed" /\ check.steady)
  /\ check' = NoCheck
  /\ UNCHANGED <<kind, calm, head, served, open, report, alarm>>

(* Mutant: the status is handed on as it is, and "passed" is no "success".  *)
Acceptance_Raw(overall) == overall
Acceptance(overall) == IF overall = "passed" THEN "success" ELSE overall

(* The smoke job of the functional workflow; it may end before the smoke    *)
(* has a status.                                                            *)
FunctionalSmoke(slot) ==
  /\ Undone(slot, "job")
  /\ \/ \E seen \in [CriticalSource -> CaseSeen] :
          LET overall == OverallStatus({CaseStatus(s, seen[s]) : s \in CriticalSource})
              usable == \A s \in CriticalSource :
                          seen[s].end = "report" /\ seen[s].clean /\ seen[s].complete
          IN  /\ calm => usable
              /\ Done(slot, [job |-> FunctionalJob(overall), acceptance |-> Acceptance(overall)],
                      usable)
     \/ ~calm /\ Done(slot, [job |-> "failure", acceptance |-> ""], FALSE)
  /\ UNCHANGED <<kind, calm, feedVars, open, report, alarm>>

-----------------------------------------------------------------------------
(* The report job, when the others are done.                                *)
BeginReport(slot) ==
  /\ Running(slot)
  /\ \A c \in DOMAIN job[slot].results : ~Undone(slot, c)
  /\ I!BeginReport(slot, job[slot].results, job[slot].proved)
  /\ job' = [job EXCEPT ![slot] = NoJob]
  /\ UNCHANGED <<kind, calm, feedVars, open, alarm>>

Report(slot) ==
  /\ I!Look(slot) \/ I!Close(slot) \/ I!Complain(slot)
  /\ UNCHANGED <<kind, calm, job, feedVars>>

ReportDies(slot) ==
  /\ ~calm /\ I!Dies(slot)
  /\ UNCHANGED <<kind, calm, job, feedVars>>

(* What lies outside the workflows.                                         *)
Weather == calm' \in BOOLEAN \ {calm} /\ UNCHANGED <<kind, job, feedVars, open, report, alarm>>

ReadFeed ==
  /\ check # NoCheck
  /\ \E arrives \in BOOLEAN : (calm => arrives) /\ Read(arrives)
  /\ UNCHANGED <<kind, calm, job, open, report, alarm>>

Pages ==
  /\ kind # "functional"
  /\ Deploy \/ Propagate
  /\ UNCHANGED <<kind, calm, job, open, report, alarm>>

-----------------------------------------------------------------------------
Init ==
  /\ kind \in Kinds /\ calm \in BOOLEAN
  /\ job = [slot \in Slot |-> NoJob]
  /\ FeedInit /\ I!IncidentInit

Work(slot) ==
  \/ Start(slot) \/ Update(slot) \/ CriticalSmoke(slot) \/ FunctionalSmoke(slot)
  \/ BeginAcceptance(slot) \/ EndAcceptance(slot)
  \/ BeginReport(slot) \/ Report(slot)

Next ==
  \/ \E slot \in Slot : Work(slot) \/ Supersede(slot) \/ ReportDies(slot)
  \/ ReadFeed \/ Pages \/ Weather

Spec == Init /\ [][Next]_vars

(* Runs are started again (every day brings a change of status.json and     *)
(* with it a Pages build; the daily run has a cron), jobs go on, and Pages  *)
(* brings what was pushed to the paths.                                     *)
FairSpec ==
  /\ Spec
  /\ \A slot \in Slot : WF_vars(Work(slot))
  /\ WF_vars(ReadFeed)
  /\ WF_vars(Propagate /\ UNCHANGED <<kind, calm, job, open, report, alarm>>)

-----------------------------------------------------------------------------
Results == {"pending", "success", "failure", "cancelled", "skipped", "blocked", "inconclusive",
            "failed", ""}
JobType ==
  [phase : {"running"}, results : [Checks -> Results], proved : BOOLEAN] \cup {NoJob}

TypeOK ==
  /\ kind \in Kinds /\ calm \in BOOLEAN
  /\ job \in [Slot -> JobType]
  /\ FeedTypeOK /\ I!IncidentTypeOK

(* No more incidents are open than reports may run at the same time: one of *)
(* the daily and of the public kind, and two of the functional one, whose   *)
(* reports may both look before either has posted.                          *)
OneIncidentPerGroup == Cardinality(open) <= Cardinality(Slots)

(* Once a report has said that something is wrong, an incident stays open   *)
(* until a healthy report begins to close (the same two kinds).             *)
NotSilenced == kind # "functional" /\ alarm => open # {}

(* An incident is closed by a run that saw each of its checks succeed:      *)
(* blocked, inconclusive and skipped checks close nothing                   *)
(* (functional_smoke.overall_status, report_automation.main).               *)
ClosedByProof ==
  [][\A i \in open \ open' : \E slot \in Slot :
       /\ report[slot] # I!NoReport /\ i \in report[slot].found
       /\ report[slot].healthy /\ report[slot].proved]_vars

(* When the outside has recovered for good, every incident is closed, also  *)
(* the two that overlapping functional runs may have opened.                *)
RecoveredClosed == <>[]calm => <>[](open = {})

=============================================================================
