\* Complete requests, intact and disturbed.
SPECIFICATION Spec
CONSTANTS
  Requests <- MCRequests
  Flips <- MCFlips
INVARIANTS
  DisturbanceNoticed
  ResponseWellFormed
  FsmView
CHECK_DEADLOCK FALSE
