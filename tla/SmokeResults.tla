------------------------------ MODULE SmokeResults ------------------------------
(***************************************************************************)
(* How the two smoke checks turn what they observed into a result:         *)
(* functional_smoke.py runs the package of each critical source in a       *)
(* headless runtime, critical_smoke.py requests one chapter page of each.  *)
(* What a runner reports is reduced to what the classification tells       *)
(* apart; "complete" is valid_pass of the report.                          *)
(***************************************************************************)

CONSTANT WebviewCase  \* sources whose requests may go through a WebView

(* One case of the functional smoke: no listed package, an exception, the   *)
(* 150-second timeout, or a runner that ended with a report.                *)
Ended == [end : {"report"}, clean : BOOLEAN, complete : BOOLEAN, loaded : BOOLEAN,
          network : {"none", "protected", "other"}]
CaseSeen == [end : {"missing", "error", "timeout"}] \cup Ended

(* classify_incomplete.                                                     *)
Incomplete(source, seen) ==
  CASE seen.network = "protected" -> "blocked"
    [] source \in WebviewCase /\ seen.loaded /\ seen.network = "none" -> "inconclusive"
    [] OTHER -> "failed"

(* run_case, and the exception handler around it.                           *)
CaseStatus(source, seen) ==
  CASE seen.end \in {"missing", "error"} -> "failed"
    [] seen.end = "timeout" -> "inconclusive"
    [] seen.end = "report" -> IF seen.clean /\ seen.complete THEN "passed"
                                                           ELSE Incomplete(source, seen)

(* Mutant: a case that could not be concluded does not count.               *)
OverallStatus_Lenient(statuses) ==
  CASE statuses = {} \/ "failed" \in statuses -> "failed"
    [] statuses \subseteq {"passed", "inconclusive"} -> "passed"
    [] OTHER -> "blocked"

(* overall_status of the statuses of all cases.                             *)
OverallStatus(statuses) ==
  CASE statuses = {} \/ "failed" \in statuses -> "failed"
    [] statuses = {"passed"} -> "passed"
    [] OTHER -> IF "inconclusive" \in statuses THEN "inconclusive" ELSE "blocked"

(* The result of the smoke job: main returns 1 for "failed" alone.          *)
FunctionalJob(overall) == IF overall = "failed" THEN "failure" ELSE "success"

-----------------------------------------------------------------------------
(* One endpoint of the critical smoke.                                      *)
EndpointSeen ==
  {"page", "page without its markers", "protected", "other status",
   "timeout", "network error", "unknown host"}

(* run, with allowProtected of the endpoint's definition.                   *)
EndpointResult(seen, allowProtected) ==
  CASE seen = "page" -> "pass"
    [] seen = "protected" /\ allowProtected -> "protected"
    [] seen \in {"timeout", "network error"} -> "inconclusive"
    [] OTHER -> "fail"

(* run and main: "degraded" ends with 0 like "pass".                        *)
CriticalJob(results) == IF "fail" \in results THEN "failure" ELSE "success"

=============================================================================
