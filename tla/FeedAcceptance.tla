----------------------------- MODULE FeedAcceptance -----------------------------
(***************************************************************************)
(* The two programs that compare the public feed with a commit while Pages *)
(* deploys: verify_public.verify reads every text file, every package and  *)
(* then four manifests again; public_acceptance reads the maintained       *)
(* manifests and the required packages.                                    *)
(*                                                                         *)
(* Abstractions.                                                           *)
(*   - A file is a path; Content[commit][path] is its content in a commit, *)
(*     an absent file being a content of its own. An icon goes with its    *)
(*     package; a package that has the digest of a valid inventory is      *)
(*     valid itself (validate_catalog).                                    *)
(*   - A deployment reaches each path in its own time (external), never    *)
(*     going back. Reads of one pass are in any order, as four threads     *)
(*     make them. The pause between attempts is any time.                  *)
(***************************************************************************)
EXTENDS Integers

CONSTANTS
  LastCommit,                         \* bound: commits of main
  Reread, Once,                       \* text files read again at the end, and the other ones
  Fresh,                              \* those of public_acceptance: index, inventory, status
  Package, RequiredPackage,           \* packages, and those of required sources
  Content,                            \* what a commit holds at a path
  VerifyAttempts, FreshnessAttempts   \* passes over the manifests (6), over everything (12)

Commits == 1..LastCommit
Path == Reread \cup Once \cup Package

(* A manifest that is read again never returns to an earlier content: the   *)
(* status and the inventory carry the time of the run that changed them; an *)
(* index returns only if a change is undone while a check runs: left out.   *)
ASSUME FeedAssumption ==
  /\ LastCommit \in Nat \ {0}
  /\ Fresh # {} /\ Fresh \subseteq Reread
  /\ Reread \cap Once = {} /\ (Reread \cup Once) \cap Package = {}
  /\ RequiredPackage \subseteq Package /\ RequiredPackage # {}
  /\ VerifyAttempts \in Nat \ {0} /\ FreshnessAttempts \in Nat \ {0}
  /\ \A m \in Reread, c, d, e \in Commits :
       (c <= d /\ d <= e /\ Content[c][m] = Content[e][m]) => Content[d][m] = Content[c][m]

VARIABLES
  head,    \* the latest commit of main
  served,  \* the commit each path is served from
  check    \* the running program

feedVars == <<head, served, check>>

Programs == {"verify_public", "public_acceptance"}

(* commit is what the feed is compared with; attempt counts passes; read is *)
(* what the present stage has read, stale whether some manifest of the pass *)
(* differed. steady is history: while packages were read, the manifests     *)
(* were served as the commit has them.                                      *)
CheckType ==
  [program : Programs, commit : Commits,
   stage : {"manifests", "packages", "again", "passed", "failed"},
   attempt : Nat, read : SUBSET Path, stale : BOOLEAN, steady : BOOLEAN]

NoCheck == [stage |-> "none"]
NewCheck(program) ==
  [program |-> program, commit |-> head, stage |-> "manifests",
   attempt |-> 1, read |-> {}, stale |-> FALSE, steady |-> TRUE]

(* load_json of index, inventory and status, and TEXT_FILES of verify.      *)
Manifests(program) == IF program = "verify_public" THEN Reread \cup Once ELSE Fresh
Packages(program) == IF program = "verify_public" THEN Package ELSE RequiredPackage
Attempts(program) == IF program = "verify_public" THEN VerifyAttempts ELSE FreshnessAttempts

Matches(p) == Content[served[p]][p] = Content[check.commit][p]

Failed(c) == [c EXCEPT !.stage = "failed"]

(* Another attempt from the start, or the end of them.                      *)
Again(c) ==
  IF c.attempt >= Attempts(c.program) THEN Failed(c)
  ELSE [c EXCEPT !.stage = "manifests", !.attempt = @ + 1, !.read = {}, !.stale = FALSE,
                 !.steady = TRUE]

NextStage(c, stage) == [c EXCEPT !.stage = stage, !.read = {}]

(* check_manifests, and the comparison of run, after the whole pass.        *)
AfterManifests(c) ==
  IF c.read # Manifests(c.program) THEN c
  ELSE IF c.stale THEN Again(c) ELSE NextStage(c, "packages")

ReadManifest(p, arrives) ==
  /\ check.stage = "manifests"
  /\ p \in Manifests(check.program) \ check.read
  /\ check' = AfterManifests([check EXCEPT !.read = @ \cup {p},
                                           !.stale = @ \/ ~arrives \/ ~Matches(p)])
  /\ UNCHANGED <<head, served>>

(* Mutant: the manifests are not read again.                                *)
AfterPackages_NotAgain(c) ==
  IF c.read # Packages(c.program) THEN c ELSE NextStage(c, "passed")

(* "Detect a deployment changing halfway through the download pass."        *)
AfterPackages(c) ==
  IF c.read # Packages(c.program) THEN c
  ELSE NextStage(c, IF c.program = "verify_public" THEN "again" ELSE "passed")

(* verify_package. A package that is missing or different ends verify at    *)
(* once; public_acceptance starts over.                                     *)
ReadPackage(p, arrives) ==
  /\ check.stage = "packages"
  /\ p \in Packages(check.program) \ check.read
  /\ LET c == [check EXCEPT !.read = @ \cup {p},
                            !.steady = @ /\ \A m \in Reread : Matches(m)]
     IN  check' = IF arrives /\ Matches(p) THEN AfterPackages(c)
                  ELSE IF c.program = "verify_public" THEN Failed(c) ELSE Again(c)
  /\ UNCHANGED <<head, served>>

ReadAgain(p, arrives) ==
  /\ check.stage = "again"
  /\ p \in Reread \ check.read
  /\ LET c == [check EXCEPT !.read = @ \cup {p}]
     IN  check' = IF ~arrives \/ ~Matches(p) THEN Failed(c)
                  ELSE IF c.read = Reread THEN NextStage(c, "passed") ELSE c
  /\ UNCHANGED <<head, served>>

(* fetch: a request that fails for good does not arrive.                    *)
Read(arrives) ==
  \E p \in Path : ReadManifest(p, arrives) \/ ReadPackage(p, arrives) \/ ReadAgain(p, arrives)

(* A commit is pushed, and Pages brings it to the paths one by one.         *)
Deploy ==
  /\ head < LastCommit
  /\ head' = head + 1
  /\ UNCHANGED <<served, check>>

Propagate ==
  /\ \E p \in Path : \E c \in (served[p] + 1)..head : served' = [served EXCEPT ![p] = c]
  /\ UNCHANGED <<head, check>>

FeedInit == head = 1 /\ served = [p \in Path |-> 1] /\ check = NoCheck

FeedTypeOK ==
  /\ head \in Commits
  /\ served \in [Path -> Commits]
  /\ \A p \in Path : served[p] <= head
  /\ check = NoCheck \/ (check \in CheckType /\ check.commit <= head)

(* A receipt says that the packages were read while the manifests of its    *)
(* commit were served: a deployment that reaches a manifest in between, and *)
(* is not noticed by the first pass, is noticed by the second one           *)
(* (verify_public.verify, "Detect a deployment changing halfway").          *)
AcceptedTogether ==
  (check # NoCheck /\ check.stage = "passed" /\ check.program = "verify_public")
    => check.steady

=============================================================================
