\* A PPS1 that names reserved parameters.
SPECIFICATION Spec
CONSTANTS
  Requests <- MCReservedRequests
  Flips <- MCIntact
INVARIANTS
  EtuDefined
CHECK_DEADLOCK FALSE
