\* Serial mode (the default walker): one worker; every I/O call may fail.
CONSTANTS
  H1 = H1  H2 = H2  HI = HI  S1 = S1  S2 = S2  S3 = S3
  C1 = C1  C2 = C2  C3 = C3  C4 = C4  C5 = C5  C6 = C6  C7 = C7  C8 = C8  C9 = C9
  Sp1 = Sp1  w1 = w1  w2 = w2
  None = None
  NoJob = NoJob
  Workers = {w1}
  MaxQueue = 8
  Multihashes <- MCMultihashes
  ClaimCids <- MCClaimCids
  Spaces = {Sp1}
  Records <- MCRecords
  Blobs <- MCBlobs
  QueryHashes <- MCQueryHashes
  QuerySubject = {}
  CanFail = TRUE
SPECIFICATION Spec
INVARIANT TypeOK
PROPERTY QuerySpecRefined
CHECK_DEADLOCK FALSE
