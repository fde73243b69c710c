\* Entries over every acyclic datastore of three links; the consumer may stop at any yield.
CONSTANTS
  M1 = M1  M2 = M2
  None = None
  Missing = Missing
  Corrupt = Corrupt
  Links <- MCLinks
  Multihashes <- MCMultihashes
  Stores <- MCStores
  MaxYields = 7
SPECIFICATION Spec
INVARIANT EntriesMatchChain
PROPERTY NoYieldAfterStop
PROPERTY Termination
CHECK_DEADLOCK FALSE
