SPECIFICATION RunSpec
CONSTANTS
  Workloads = {"social", "hotel", "media"}
  MaxFaults = 2
  Plans <- SmallPlans
  MaxMishaps = 2
  MaxSetbacks = 2
  Interruptions = {"load_generator_ready", "initialization_started"}
  MaxUpsets = 2
INVARIANTS ClaimsAreTrue DenialIsReal SupportResultIsEvidence
INVARIANTS OutcomeIsHonest TargetIsReady CleanupIsProved RecordsAreEvidence
PROPERTIES NothingIsLost EvidenceIsKept OneShotsAreKept BenchmarksEnd
CHECK_DEADLOCK FALSE
