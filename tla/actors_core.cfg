CONSTANTS
  Bodies <- CoreBodies
  Program <- CoreProgram
  DefaultLimit = 2
  HalfRange = 2
  HostPriorities <- CorePriorities
  HostBodies <- CoreBodies
  HostLimits <- CoreLimits
  HostSteps <- CoreSteps
  MaxTickets = 3
  MaxActors = 2
SPECIFICATION Spec
INVARIANTS
  TypeOK
  NoLostWakeup
  DeliveredInOrder
  EachMessageOnce
  BoundedMailbox
PROPERTIES
  LostOnlyWithFinished
  RemovedOnlyWhenDone
  QuiescentAtReturn
