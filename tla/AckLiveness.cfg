CONSTANTS
  c1 = c1
  c2 = c2
  c3 = c3
  c4 = c4
  NoId = NoId
  ClientIds <- MC_ClientIds
  Objects <- MC_Objects
  SeqnoBlockSize = 2
  MaxOpsPerMessage = 1
  MaxRegCalls = 0
  MaxInvalidations = 2
  MaxCrashes = 0
  MaxServerFaults = 1
  MaxDuplicateAcks = 1
  MaxLostMessages = 0

SPECIFICATION FairSpec
PROPERTY AckEventuallySent
