\* Three workers over the diamond; every I/O call may fail.
CONSTANTS
  J1 = J1  J2 = J2  J3 = J3  J4 = J4  w1 = w1  w2 = w2  w3 = w3
  NoJob = NoJob
  Workers = {w1, w2, w3}
  MaxQueue = 4
  JobIds <- MCJobIds
  Spawns <- MCSpawns
  Initial <- MCInitial
  CanFail = TRUE
SPECIFICATION Spec
PROPERTY WalkSpecRefined
CHECK_DEADLOCK FALSE
