\* One Publish whose EXPIRE may fail, racing the Finds of its two keys; GET may fail, and the service process may die at any point (an interrupted Publish can only leave its own record behind).
CONSTANTS
  K1 = K1  K2 = K2  R0 = R0  R1 = R1  R2 = R2  RX = RX  P1 = P1  P2 = P2  F1 = F1  F2 = F2
  Absent = Absent
  DefaultExpire = DefaultExpire
  Keys <- MCKeys
  Records <- MCRecords
  ClaimRecords <- MCClaimRecords
  IpniInit <- MCIpniInit
  Pubs <- MCOnePub
  Finds <- MCFinds
  GetFails = TRUE
  ExpireFails = TRUE
  CanCrash = TRUE
SPECIFICATION Spec
PROPERTY PublishedEventuallyServed
CHECK_DEADLOCK FALSE
