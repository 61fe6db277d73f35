---------------------------- MODULE MCCatalogUpdate ----------------------------
(***************************************************************************)
(* Instances of CatalogUpdate.                                             *)
(*   Rivals: "a" is offered by the active repository and by a mirror, "b"  *)
(*     is another source of the same website, offered by the mirror;       *)
(*     policy promotes it and keeps it out of the legacy catalog.          *)
(*   Revision: "r" is required and republished, "a" is ordinary.           *)
(***************************************************************************)
EXTENDS CatalogUpdate

Repositories == {"active", "mirror"}
MCPriority == [r \in Repositories |-> IF r = "active" THEN 300 ELSE 200]

RivalSources == {"a", "b"}
RivalOrder == [s \in RivalSources |-> IF s = "a" THEN 1 ELSE 2]
RivalSite == [s \in RivalSources |-> "site"]
RivalOffers == {<<"active", "a">>, <<"mirror", "a">>, <<"mirror", "b">>}

RevisionSources == {"a", "r"}
RevisionOrder == [s \in RevisionSources |-> IF s = "a" THEN 1 ELSE 2]
RevisionSite == [s \in RevisionSources |-> s]
RevisionOffers == {"active"} \X RevisionSources

=============================================================================
