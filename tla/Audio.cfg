SPECIFICATION FairSpec
CONSTANTS
  o1 = o1
  o2 = o2
  i1 = i1
  a = a
  b = b
  Outs <- TwoOuts
  Ins <- OneIn
  Threads <- TwoThreads
INVARIANTS
  TransferHasPcm
  ActiveStreamRuns
  FailedReadReopens
PROPERTY CallsReturn
