------------------------------- MODULE MCDelivery -------------------------------
(* An instance of Delivery for TLC: three commits. The status is new in each *)
(* of them, the policy returns to what it was, the package changes once.     *)
EXTENDS Delivery

MCReread == {"status.json", "legacy/index.min.json"}
MCOnce == {"config/source_policy.json"}
MCFresh == {"status.json"}
MCPackage == {"source.aix"}
MCContent ==
  [c \in 1..LastCommit |-> [p \in MCReread \cup MCOnce \cup MCPackage |->
     CASE p = "status.json" -> c
       [] p = "legacy/index.min.json" -> 0
       [] p = "config/source_policy.json" -> c % 2
       [] p = "source.aix" -> c \div 3]]

=============================================================================
