CONSTANTS
  op1 = op1
  op2 = op2
  op3 = op3
  Operations <- MC_Operations
  Delays = {0, 1, 2}

SPECIFICATION Spec
INVARIANT TypeOK
INVARIANT OneOutstandingRun
INVARIANT NoLostSchedule
