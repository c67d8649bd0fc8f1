SPECIFICATION FairSpec
CONSTANTS
  Providers = {"aws", "gcp", "azure", "oci"}
  MaxFaults = 3
INVARIANTS TombstonesAreTrue CreatedOnce
PROPERTIES
  AllIsKnownBeforeAnyDeletion
  TrafficStopsFirst
  ImplementsCustody
  CleanupConverges
CHECK_DEADLOCK FALSE
