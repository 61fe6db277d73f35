SPECIFICATION Spec
CONSTANTS
  Title = {"a", "b"}
  Place = {1, 2}
  Tab = {"s", "t"}
  MaxEntries = 2
  Initial <- OneStored
  Snapshots <- NoSnapshots
  AidokuBackups <- NoBackups
  Patient = TRUE
  StorageFails = FALSE
  MaxTime = 2
  MaxRequests = 2
INVARIANT SavedSurvives
