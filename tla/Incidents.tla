-------------------------------- MODULE Incidents --------------------------------
(***************************************************************************)
(* report_automation.py: a workflow keeps one open issue while its checks  *)
(* do not pass. A report is a job of a workflow run; two runs of one kind  *)
(* exclude each other within a concurrency group, a slot here.             *)
(*                                                                         *)
(* Abstractions. An issue is its number; "open" are the open ones that the *)
(* bot wrote with the marker of this kind, whose bodies are left out. The  *)
(* pages of the list are read at once. A number that no report knows any   *)
(* more may be given again. People leave the incidents alone.              *)
(***************************************************************************)
CONSTANTS
  Issue,  \* bound: issue numbers
  Slot    \* the reports that may run at the same time

VARIABLES
  open,    \* open incidents
  report,  \* the report job of each slot
  alarm    \* history: the last report that finished its work, or a healthy one
           \* that has begun, said that something is wrong

incidentVars == <<open, report, alarm>>

NoReport == [phase |-> "none"]
Reports == [phase : {"look", "act"}, healthy : BOOLEAN, found : SUBSET Issue, proved : BOOLEAN]

(* all(value == "success" for value in results.values())                    *)
Healthy(results) == \A check \in DOMAIN results : results[check] = "success"

(* The report job starts; proved is history of the run, see Delivery.       *)
BeginReport(slot, results, proved) ==
  report' = [report EXCEPT ![slot] =
    [phase |-> "look", healthy |-> Healthy(results), found |-> {}, proved |-> proved]]

End(slot) == report' = [report EXCEPT ![slot] = NoReport]

(* Mutant: only the first page is read, and other issues fill it.           *)
Listed_FirstPage == {}

(* GET /issues, all pages.                                                  *)
Listed == open

Look(slot) ==
  /\ report[slot].phase = "look"
  /\ report' = [report EXCEPT ![slot].phase = "act", ![slot].found = Listed]
  /\ alarm' = (alarm /\ ~report[slot].healthy)
  /\ UNCHANGED open

(* The recovery: one PATCH per incident, or the return after the last one.  *)
Close(slot) ==
  /\ report[slot].phase = "act" /\ report[slot].healthy
  /\ \/ \E i \in report[slot].found :
          /\ open' = open \ {i}
          /\ report' = [report EXCEPT ![slot].found = @ \ {i}]
     \/ report[slot].found = {} /\ End(slot) /\ UNCHANGED open
  /\ UNCHANGED alarm

(* Mutant: there is no else branch.                                         *)
Reported_NothingNew(found) == {open}

(* PATCH of every incident found, which leaves it open or closed as it is,  *)
(* or else POST of a new one.                                               *)
Reported(found) ==
  IF found # {} THEN {open}
  ELSE {open \cup {i} : i \in {j \in Issue : j \notin open /\ \A slot \in Slot :
          report[slot] = NoReport \/ j \notin report[slot].found}}

Complain(slot) ==
  /\ report[slot].phase = "act" /\ ~report[slot].healthy
  /\ open' \in Reported(report[slot].found)
  /\ End(slot)
  /\ alarm' = TRUE

(* A request fails, and its exception ends the job.                         *)
Dies(slot) ==
  /\ report[slot] # NoReport
  /\ End(slot)
  /\ UNCHANGED <<open, alarm>>

IncidentInit == open = {} /\ report = [slot \in Slot |-> NoReport] /\ alarm = FALSE

IncidentTypeOK ==
  /\ open \subseteq Issue
  /\ report \in [Slot -> Reports \cup {NoReport}]
  /\ alarm \in BOOLEAN

=============================================================================
