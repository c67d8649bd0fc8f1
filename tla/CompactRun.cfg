SPECIFICATION FairSpec
CONSTANTS
  Providers = {"aws", "gcp", "azure", "oci"}
  Plans = {{"volume"}, {"volume", "peer", "loadgen"}}
  MaxFaults = 2
PROPERTIES
  OthersAreSpared
  ImplementsCustody
  CleanupConverges
CHECK_DEADLOCK FALSE
