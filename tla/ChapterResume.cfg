SPECIFICATION FairSpec
CONSTANTS
  Manga <- TwoManga
  Block <- MCBlock
  NoItems = "empty"
  IdsOf <- MCIdsOf
  Lists <- TwoMangaLists
  MaxPages = 4
  StoredPages = 3
  ResumeSeconds = 2
  CompleteSeconds = 1
  MaxTime = 3
  ClockGoesBack = TRUE
INVARIANTS
  ExactWhenStable
  HeadIsCurrent
  WholeListOnly
PROPERTIES
  SavedPagesKept
  EventuallyListed
