CONSTANTS
  c1 = c1
  c2 = c2
  c3 = c3
  c4 = c4
  NoId = NoId
  ClientIds <- MC_ClientIds
  Objects <- MC_Objects
  SeqnoBlockSize = 2
  MaxOpsPerMessage = 1
  MaxRegCalls = 2
  MaxInvalidations = 0
  MaxCrashes = 1
  MaxServerFaults = 0
  MaxDuplicateAcks = 0
  MaxLostMessages = 1

SPECIFICATION FairSpec
PROPERTY RegistrationsConverge
 
