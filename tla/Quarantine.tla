------------------------------- MODULE Quarantine -------------------------------
(***************************************************************************)
(* What the health checks promise, without the records that implement it:  *)
(* each source has a streak of failed and of healthy days, one observation *)
(* a day counts, FailureThreshold failed days in a row quarantine a source *)
(* that is not required, and RecoveryThreshold healthy ones in a row       *)
(* release it. SourceHealth implements this specification; DailyUpdate     *)
(* uses its operators for the health state it commits.                     *)
(***************************************************************************)
EXTENDS Integers

CONSTANTS Source, Required, FailureThreshold, RecoveryThreshold

VARIABLES
  streak,      \* of each source: the failed and the healthy days in a row
  counted,     \* sources with an observation counted today
  quarantined  \* sources withdrawn from the catalogs

qvars == <<streak, counted, quarantined>>

Seen == {"failed", "healthy", "protected", "none"}

Capped(n, bound) == IF n < bound THEN n ELSE bound

(* Mutant: a day without a conclusive answer ends both streaks.             *)
Extend_Forgets(old, seen) ==
  CASE seen = "failed" -> [fails |-> Capped(old.fails + 1, FailureThreshold), oks |-> 0]
    [] seen = "healthy" -> [fails |-> 0, oks |-> Capped(old.oks + 1, RecoveryThreshold)]
    [] seen \in {"protected", "none"} -> [fails |-> 0, oks |-> 0]

(* A failed or healthy day extends its streak and ends the other; a         *)
(* protected one ends both.                                                 *)
Extend(old, seen) ==
  CASE seen = "none" -> old
    [] seen = "failed" -> [fails |-> Capped(old.fails + 1, FailureThreshold), oks |-> 0]
    [] seen = "healthy" -> [fails |-> 0, oks |-> Capped(old.oks + 1, RecoveryThreshold)]
    [] seen = "protected" -> [fails |-> 0, oks |-> 0]

(* Mutant: one healthy day more than the cap lets a streak count.           *)
Judged_Late(before, new) ==
  {s \in Source :
     IF s \in before
       THEN new[s].oks <= RecoveryThreshold
       ELSE new[s].fails = FailureThreshold /\ s \notin Required}

(* Who is quarantined after the streaks have become new.                    *)
Judged(before, new) ==
  {s \in Source :
     IF s \in before
       THEN new[s].oks < RecoveryThreshold
       ELSE new[s].fails = FailureThreshold /\ s \notin Required}

QuarantineInit ==
  /\ streak \in [Source -> [fails : 0..FailureThreshold, oks : 0..RecoveryThreshold]]
  /\ counted \subseteq Source
  /\ quarantined \subseteq Source \ Required

Observe ==
  \E seen \in [Source -> Seen] :
    /\ \A s \in counted : seen[s] = "none"
    /\ streak' = [s \in Source |-> Extend(streak[s], seen[s])]
    /\ counted' = counted \cup {s \in Source : seen[s] # "none"}
    /\ quarantined' = Judged(quarantined, streak')

Midnight == counted' = {} /\ UNCHANGED <<streak, quarantined>>

QuarantineNext == Observe \/ Midnight

QuarantineSpec == QuarantineInit /\ [][QuarantineNext]_qvars

=============================================================================
