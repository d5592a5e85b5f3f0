SPECIFICATION Spec
CONSTANTS
  f1 = f1  f2 = f2  w1 = w1  w2 = w2
  File <- MCFile  Worker <- MCWorker  StampOf <- MCStampOf
  Chunks = 2  MaxRuns = 2
INVARIANTS TypeOK TrustIsDeserved SuccessIsComplete FailuresCostNoWorker
CHECK_DEADLOCK FALSE
