SPECIFICATION QualificationSpec
CONSTANTS
  Interruptions = {"load_generator_ready", "initialization_started"}
  MaxUpsets = 2
INVARIANT DamageNeverBlocksCleanup
CHECK_DEADLOCK FALSE
