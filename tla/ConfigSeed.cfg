SPECIFICATION Spec
CONSTANTS
  MaxFaults = 2
  MaxRemovals = 1
INVARIANT OnlyTornMissing
PROPERTIES EditsLostOnlyWithConfiguration
