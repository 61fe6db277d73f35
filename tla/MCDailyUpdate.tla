----------------------------- MODULE MCDailyUpdate -----------------------------
(***************************************************************************)
(* "a" is an ordinary source of the active repository, "m" one that only a *)
(* mirror offers, "p" a local package that is promoted and required. The   *)
(* policies pin a build of "a" and promote "m", or quarantine both and     *)
(* move the pin of "p": more removals at once than the gate allows, unless *)
(* "a" is gone already.                                                    *)
(***************************************************************************)
EXTENDS DailyUpdate

MCSource == {"a", "m", "p"}

Pinned(s, v) == [id |-> s, version |-> v, build |-> "pinned"]
Upstream(s, v, r) == [id |-> s, version |-> v, build |-> "upstream", repo |-> r]

Nobody == [s \in MCSource |-> {}]
Both == [s \in MCSource |-> IF s = "p" THEN {} ELSE {"maintained", "legacy"}]

Rule(manual, promoted, overrides, version) ==
  [manual |-> manual, required |-> {"p"}, promoted |-> {"p"} \cup promoted,
   overrides |-> overrides, locals |-> {Pinned("p", version)}]

Plain == Rule(Nobody, {}, {}, 1)
PinA == Rule(Nobody, {"m"}, {Pinned("a", 1)}, 1)
QuarantineBoth == Rule(Both, {}, {}, 2)

MCPolicies == {Plain, PinA, QuarantineBoth}

MCOfferSets ==
  {{Upstream("a", v, "active"), Upstream("m", 1, "mirror")} : v \in 1..2}

=============================================================================
