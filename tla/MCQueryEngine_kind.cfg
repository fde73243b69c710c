\* A query for H1 whose equals side H2 has one record listing a location commitment and an index claim.
CONSTANTS
  H1 = H1  H2 = H2  HI = HI  S1 = S1  S2 = S2  S3 = S3
  C1 = C1  C2 = C2  C3 = C3  C4 = C4  C5 = C5  C6 = C6  C7 = C7  C8 = C8  C9 = C9
  Sp1 = Sp1  w1 = w1  w2 = w2
  None = None
  NoJob = NoJob
  Workers = {w1}
  MaxQueue = 8
  Multihashes <- MCMultihashes
  ClaimCids <- MCClaimCids
  Spaces = {Sp1}
  Records <- MCMixedRecords
  Blobs <- MCBlobs
  QueryHashes <- MCKindQueryHashes
  QuerySubject = {}
  CanFail = FALSE
SPECIFICATION Spec
PROPERTY KindRespected
CHECK_DEADLOCK FALSE
