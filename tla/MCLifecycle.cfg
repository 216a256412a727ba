\* A good configuration and those with up to two mistakes; three updates; the
\* process starts twice.
CONSTANTS
  Configurations <- MCConfigurations
  Faults = {"telegram", "port", "token"}
  MaxSent = 3
  MaxStarts = 2
SPECIFICATION FairLifecycleSpec
INVARIANTS
  LifecycleTypeOK
  NothingRunsUnchecked
  OrderlyExit
  HealthzAfterPolling
PROPERTIES
  SignalEndsProcess
  ImplementsDaemon
CHECK_DEADLOCK FALSE
