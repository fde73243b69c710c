\* One Publish of R1 for K1 and K2, racing the Finds of K1 and K2 that read through to IPNI.
CONSTANTS
  K1 = K1  K2 = K2  R0 = R0  R1 = R1  R2 = R2  RX = RX  P1 = P1  P2 = P2  F1 = F1  F2 = F2
  Absent = Absent
  DefaultExpire = DefaultExpire
  Keys <- MCKeys
  Records <- MCRecords
  ClaimRecords <- MCClaimRecords
  IpniInit <- MCIpniInit
  Pubs <- MCOnePub
  Finds <- MCFinds
  GetFails = FALSE
  ExpireFails = FALSE
  CanCrash = FALSE
SPECIFICATION Spec
INVARIANT PublishedVisibleWhilePublishing
CHECK_DEADLOCK FALSE
