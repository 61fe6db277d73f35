SPECIFICATION Spec
CONSTANTS
  Title = {"a", "b"}
  Place = {1, 2}
  Tab = {"s", "t"}
  MaxEntries = 1
  Initial <- OneStored
  Snapshots <- OtherDevice
  AidokuBackups <- SecondTitle
  Patient = FALSE
  StorageFails = TRUE
  MaxTime = 1
  MaxRequests = 2
INVARIANTS
  TypeOK
  MirrorAgrees
  MergeOrderFree
  AloneSurvives
PROPERTIES
  StoreAdvances
