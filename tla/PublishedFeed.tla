----------------------------- MODULE PublishedFeed -----------------------------
(***************************************************************************)
(* What the readers of the feed and the people who edit its policy rely    *)
(* on: people change the policy or, in an emergency, the feed; the bot     *)
(* only replaces the feed, by one that honours the policy in force at that *)
(* moment, and never changes the policy. DailyUpdate implements this.      *)
(***************************************************************************)
EXTENDS Integers

VARIABLES
  policy,  \* config/source_policy.json on main
  feed,    \* the catalogs on main: [listing, packages, legacy]
  author   \* who made the latest commit of main: "bot" or "people"

fvars == <<policy, feed, author>>

(* A reader can install every listed package, and nothing else is served;   *)
(* no source is offered twice or against the policy; what the policy pins,  *)
(* promotes or requires is there.                                           *)
Honours(published, rule) ==
  LET listed == {p.id : p \in published.listing}
  IN  /\ published.packages = published.listing
      /\ \A p, q \in published.listing : p.id = q.id => p = q
      /\ \A p, q \in published.legacy : p.id = q.id => p = q
      /\ \A p \in published.legacy : p.id \notin listed
      /\ \A p \in published.listing \cup published.legacy : rule.manual[p.id] = {}
      /\ rule.required \cup rule.promoted \subseteq listed
      /\ rule.locals \subseteq published.listing
      /\ \A pin \in rule.overrides :
           \E p \in published.listing : p.id = pin.id /\ (p.version > pin.version \/ p = pin)

FeedInit == author = "people"

Publish ==
  /\ author' = "bot"
  /\ policy' = policy
  /\ Honours(feed', policy)

EditPolicy == author' = "people" /\ feed' = feed

Intervene == author' = "people" /\ policy' = policy

FeedNext == Publish \/ EditPolicy \/ Intervene

FeedSpec == FeedInit /\ [][FeedNext]_fvars

=============================================================================
