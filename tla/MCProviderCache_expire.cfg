\* The same calls with EXPIRE failing (the mock client's WithErrorOnSetExpiration), and the service process may die at any point.
CONSTANTS
  K1 = K1  K2 = K2  R0 = R0  R1 = R1  R2 = R2  RX = RX  P1 = P1  P2 = P2  F1 = F1  F2 = F2
  Absent = Absent
  DefaultExpire = DefaultExpire
  Keys <- MCKeys
  Records <- MCRecords
  ClaimRecords <- MCClaimRecords
  IpniInit <- MCIpniInit
  Pubs <- MCPubs
  Finds <- MCFinds
  GetFails = FALSE
  ExpireFails = TRUE
  CanCrash = TRUE
SPECIFICATION Spec
INVARIANT NoStrayPersistentEntry
CHECK_DEADLOCK FALSE
