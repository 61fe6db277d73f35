---------------------------- MODULE MCChapterResume ----------------------------
(***************************************************************************)
(* Instances of ChapterResume. Manga "A" has lists that differ by a        *)
(* retitled head, an edit below an unchanged head, a deletion, another     *)
(* head of as many pages, an empty page in the middle, one page more than  *)
(* a checkpoint stores and one page more than the limit; "B" is short or   *)
(* empty.                                                                  *)
(***************************************************************************)
EXTENDS ChapterResume, TLC

MCBlock == {"a1", "a1retitled", "a2", "a3", "a4", "a5", "b1", "b2", "empty"}
MCIdsOf == [b \in MCBlock |-> IF b = "a1retitled" THEN "a1" ELSE b]

ListsOfA ==
  {<<"a1", "a2", "a3">>, <<"a1retitled", "a2", "a3">>, <<"a1", "a2", "a4">>, <<"a2", "a3">>,
   <<"a2", "a3", "a4">>,
   <<"a1", "empty", "a3">>, <<"a1", "a2", "a3", "a4">>, <<"a1", "a2", "a3", "a4", "a5">>}
ListsOfB == {<<"b1", "b2">>, <<"empty">>}

TwoManga == {"A", "B"}
OneManga == {"A"}
OneMangaLists == [m \in OneManga |-> ListsOfA]
TwoMangaLists == [m \in TwoManga |-> IF m = "A" THEN ListsOfA ELSE ListsOfB]

=============================================================================
