---------------------- MODULE MC_OperationScheduler -----------------------
EXTENDS OperationScheduler, TLC

CONSTANTS op1, op2, op3

MC_Operations == {op1, op2, op3}
==============================================================================
