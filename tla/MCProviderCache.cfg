\* Concurrent Finds and Publishes over the Redis provider cache; GET may fail, EXPIRE does not.
CONSTANTS
  K1 = K1  K2 = K2  R0 = R0  R1 = R1  R2 = R2  RX = RX  P1 = P1  P2 = P2  F1 = F1  F2 = F2
  Absent = Absent
  DefaultExpire = DefaultExpire
  Keys <- MCKeys
  Records <- MCRecords
  ClaimRecords <- MCClaimRecords
  IpniInit <- MCIpniInit
  Pubs <- MCPubs
  Finds <- MCFinds
  GetFails = TRUE
  ExpireFails = FALSE
  CanCrash = FALSE
SPECIFICATION Spec
INVARIANT NoStrayPersistentEntry
PROPERTY PublishedEventuallyServed
CHECK_DEADLOCK FALSE
