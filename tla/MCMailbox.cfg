CONSTANTS
  Priorities <- MCPriorities
  Threshold = 2
  MaxArrivals = 6
SPECIFICATION Spec
INVARIANTS
  TypeOK
  RepresentationSorted
  ReadersAgree
PROPERTY ImplementsPriorityFifo
