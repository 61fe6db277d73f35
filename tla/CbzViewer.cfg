SPECIFICATION Spec
CONSTANTS
  File = {"f", "g"}
  Pages <- MCPages
  MaxPlace = 2
  MaxLoads = 3
INVARIANTS
  TypeOK
  PlaceWasKnown
  NothingBehindTheShelf
  LastRequestWins
