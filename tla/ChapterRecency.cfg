SPECIFICATION Spec
CONSTANTS
  Manga <- OneManga
  Block <- MCBlock
  NoItems = "empty"
  IdsOf <- MCIdsOf
  Lists <- OneMangaLists
  MaxPages = 4
  StoredPages = 4
  ResumeSeconds = 2
  CompleteSeconds = 1
  MaxTime = 4
  ClockGoesBack = FALSE
PROPERTIES
  OnlyRecentPagesReused
