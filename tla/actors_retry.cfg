CONSTANTS
  Bodies <- RetryBodies
  Program <- RetryProgram
  DefaultLimit = 2
  HalfRange = 2
  HostPriorities <- RetryPriorities
  HostBodies <- RetryHost
  HostLimits <- RetryLimits
  HostSteps <- RetrySteps
  MaxTickets = 2
  MaxActors = 3
SPECIFICATION FairSpec
INVARIANTS
  IInv
PROPERTIES
  RunTerminates
